----------------------------- MODULE LocalSession -----------------------------
(***************************************************************************)
(* The local MCP server's session with Hudson: the credentials it starts   *)
(* from, the sign-in tools that replace them, the credentials file, the    *)
(* HTTP client whose token every request carries, and the region profile   *)
(* that decides which tools are offered.                                   *)
(*                                                                         *)
(* One server process serves one stdio client, which may have several      *)
(* requests under way: a Slot holds one of them.  JavaScript runs a        *)
(* handler from one await to the next without interruption, so that is a   *)
(* step; an HTTP request ends the step that sends it and its answer begins *)
(* the next one.  Every member of the server object is shared by all slots.*)
(*                                                                         *)
(* Abstracted: tokens are records that say what they were issued for; the  *)
(* texts, the arguments and their validation are left out; the four        *)
(* settings of an overseas profile are not told apart, and the two         *)
(* requests that read them, which never fail the call, are one wait.       *)
(* Hudson answers a request about a property only to a token that has      *)
(* access to it; it may refuse or fail any request.                        *)
(***************************************************************************)
EXTENDS Naturals, FiniteSets

CONSTANTS
  Slot,        \* requests that can be running at once
  Camp,        \* properties
  Overseas,    \* those of them that are overseas
  User,        \* people who sign in
  CampOf,      \* the first property of each user
  None,        \* null
  Setups,      \* how the process may be set up: see SetupsOK
  MaxSignIns,  \* bound: sign-ins that reach their application
  MaxCrashes   \* bound: crashes of the process

ASSUME ConstantsOK ==
  /\ Overseas \subseteq Camp
  /\ CampOf \in [User -> Camp]
  /\ None \notin Camp \union User
  /\ IsFiniteSet(Slot)
  /\ MaxSignIns \in Nat /\ MaxCrashes \in Nat

VARIABLES
  phase,       \* of the process: "down", "starting", "up"
  setup,       \* the environment it is started in
  file,        \* ~/.localsbnb/credentials.json, or None
  keys,        \* apiKeyManager: the Hudson credentials, or None
  campId,      \* server.campId
  clientToken, \* HTTPClient.hudsonAccessToken
  profile,     \* regionProfile
  fresh,       \* Date.now() < profileExpiresAt
  authError,   \* authError is set
  tools,       \* activeTools
  pc,          \* where each request stands
  local,       \* its local variables
  applied,     \* history: sign-ins applied, which numbers the credentials
  reported,    \* history: the number of the last sign-in reported done
  strayed,     \* history: a sign-in has set the client's token since then
  crashes      \* crashes so far, for MaxCrashes

server   == <<keys, campId, clientToken, profile, fresh, authError, tools>>
history  == <<applied, reported, strayed>>
vars == <<phase, setup, file, server, pc, local, history, crashes>>

-----------------------------------------------------------------------------

Login(u)  == [kind |-> "login", of |-> u]    \* the short-lived JWT of a sign-in
Secret(c) == [kind |-> "secret", of |-> c]   \* the property's App Secret
Token == {Login(u) : u \in User} \union {Secret(c) : c \in Camp}

\* Credentials as they are kept; by and n are history: whose sign-in made
\* them, and the how many-th it was (0: made before this behaviour).
Credentials ==
  [token : Token, camp : Camp, by : User, n : 0..MaxSignIns]

ASSUME NoneOK == None \notin Token \union Credentials

\* Credentials a user had before.
Given(u) == [token |-> Secret(CampOf[u]), camp |-> CampOf[u], by |-> u, n |-> 0]

\* The environment: its APP_SECRET and APP_ID, one of which may be missing,
\* and LUKEYUN_API_KEY with its scopes; and whose credentials the file may hold.
ASSUME SetupsOK ==
  Setups \subseteq
    [env : {None} \union {Given(u) : u \in User}, halfEnv : BOOLEAN,
     apiKey : {"none", "allowed", "limited"}, saved : SUBSET User]

Region(c) == IF c \in Overseas THEN "overseas" ELSE "cn"
Profiles  == [region : {"cn", "overseas"}, camp : Camp \union {None}]
CnProfile == [region |-> "cn", camp |-> None]

SignIns == {"signIn", "report"}        \* sign_in, complete_sign_up
Calls   == {"signIn", "enquire", "operate"}
Op      == Calls \union {"start", "list", "report"}
Pc      == {"idle", "arrived", "camp", "settings", "enquiry", "login", "camps",
            "secret", "generate", "working"}

\* What a request keeps across its awaits: op is the handler it runs, user
\* the account of a sign-in, camp the property it resolves or signs in to, ok
\* whether its present request carries a token with access to that property,
\* n the number of the credentials it has applied.
Locals   == [op : Op, user : User \union {None}, camp : Camp \union {None},
             ok : BOOLEAN, n : 0..MaxSignIns]
NoLocals == [op |-> "list", user |-> None, camp |-> None, ok |-> FALSE, n |-> 0]

Init ==
  /\ phase = "down"
  /\ setup \in Setups
  /\ file \in {None} \union {Given(u) : u \in setup.saved}
  /\ keys = None /\ campId = None /\ clientToken = None
  /\ profile = CnProfile /\ fresh = FALSE /\ authError = FALSE
  /\ tools = "startup"
  /\ pc = [s \in Slot |-> "idle"] /\ local = [s \in Slot |-> NoLocals]
  /\ applied = 0 /\ reported = 0 /\ strayed = FALSE /\ crashes = 0

-----------------------------------------------------------------------------
(***************************************************************************)
(* Conditions.  A slip is a condition or a step as a plausible bug would   *)
(* have it; no action uses one.                                            *)
(***************************************************************************)

SlipLoaded == IF setup.env # None THEN setup.env
              ELSE IF setup.halfEnv
                   THEN [Given(CHOOSE u \in User : TRUE) EXCEPT !.camp = None]
                   ELSE file

\* loadFromEnv: a complete pair of the environment wins; the file is read
\* only when neither half is set.
Loaded == IF setup.env # None THEN setup.env
          ELSE IF setup.halfEnv THEN None ELSE file

HasKey == setup.apiKey # "none"
Configured == HasKey \/ keys # None

\* checkPermission for a tool that requires scopes.
Permitted == IF HasKey THEN setup.apiKey = "allowed" ELSE keys # None

\* activeTools.find: the list the server is constructed with has no sign-in
\* tools; the bootstrap list has nothing else.
Offered(op) == IF op = "operate" THEN tools' # "auth" ELSE tools' # "startup"

\* Whose property Hudson finds for a token, and whether the token has access
\* to property c.
Account(t) == IF t = None THEN None
              ELSE IF t.kind = "login" THEN CampOf[t.of] ELSE t.of
Accepted(t, c) == t # None /\ Account(t) = c

SlipUpToDate(s) == fresh \/ profile # CnProfile

\* A tool call is content with a profile that has not expired.
UpToDate(s) == fresh /\ local[s].op \in Calls

First(op) == CASE op = "signIn" -> "login"
               [] op = "enquire" -> "enquiry"
               [] op = "operate" -> "working"

Goto(s, p) == pc' = [pc EXCEPT ![s] = p]
\* A request about property c goes out with the token the client has now.
Ask(s, p, c) ==
  /\ Goto(s, p)
  /\ local' = [local EXCEPT ![s].camp = c, ![s].ok = Accepted(clientToken', c)]
Finish(s) ==
  /\ Goto(s, "idle")
  /\ local' = [local EXCEPT ![s] = NoLocals]

-----------------------------------------------------------------------------
(***************************************************************************)
(* What follows ensureRegionProfile: the rest of initialize, of the list   *)
(* handler, of the call handler or of a sign-in.                           *)
(***************************************************************************)

\* The call handler: authError, tool lookup, permission, then the handler
\* with its first request.  A tool of one region alone is not found in the
\* other: a call may end here whatever the session is.
Dispatch(s) ==
  LET op == local[s].op IN
  \/ /\ Offered(op)
     /\ op = "operate" => ~authError' /\ Permitted
     /\ Goto(s, First(op))
     /\ UNCHANGED local
  \/ /\ ~Offered(op) \/ op = "operate"
     /\ Finish(s)

Continue(s) ==
  \/ local[s].op \in Calls /\ Dispatch(s) /\ UNCHANGED <<phase, reported>>
  \/ local[s].op = "list" /\ Finish(s) /\ UNCHANGED <<phase, reported>>
  \/ local[s].op = "start" /\ Finish(s) /\ phase' = "up" /\ UNCHANGED reported
  \/ /\ local[s].op = "report"
     /\ Finish(s)
     /\ reported' = IF local[s].n > reported THEN local[s].n ELSE reported
     /\ UNCHANGED phase

SlipAdopt(next) ==
  /\ profile' = next
  /\ fresh' = TRUE
  /\ authError' = FALSE
  /\ tools' = IF next.region = profile.region THEN tools ELSE next.region
  /\ UNCHANGED <<keys, campId, clientToken>>

\* The synchronous end of ensureRegionProfile once a profile is resolved.
Adopt(next) ==
  /\ profile' = next
  /\ fresh' = TRUE
  /\ authError' = FALSE
  /\ tools' = next.region
  /\ UNCHANGED <<keys, campId, clientToken>>

-----------------------------------------------------------------------------
(***************************************************************************)
(* The process.                                                            *)
(***************************************************************************)

\* main and initialize: load the credentials, build the client, then resolve
\* the profile before the transport is connected.
Start(s) ==
  /\ phase = "down"
  /\ keys' = Loaded
  /\ campId' = (IF Loaded = None THEN None ELSE Loaded.camp)
  /\ clientToken' = (IF Loaded = None THEN None ELSE Loaded.token)
  /\ IF HasKey \/ Loaded # None
     THEN /\ phase' = "starting"
          /\ Goto(s, "arrived")
          /\ local' = [local EXCEPT ![s].op = "start"]
          /\ UNCHANGED tools
     ELSE phase' = "up" /\ tools' = "auth" /\ UNCHANGED <<pc, local>>
  /\ UNCHANGED <<setup, file, profile, fresh, authError, history, crashes>>

\* The process ends at any moment; what it had sent may have been carried out.
Crash ==
  /\ phase # "down" /\ crashes < MaxCrashes
  /\ phase' = "down"
  /\ keys' = None /\ campId' = None /\ clientToken' = None
  /\ profile' = CnProfile /\ fresh' = FALSE /\ authError' = FALSE
  /\ tools' = "startup"
  /\ pc' = [s \in Slot |-> "idle"] /\ local' = [s \in Slot |-> NoLocals]
  /\ strayed' = FALSE /\ crashes' = crashes + 1
  /\ UNCHANGED <<setup, file, applied, reported>>

\* profileExpiresAt passes.
Expire ==
  /\ fresh
  /\ fresh' = FALSE
  /\ UNCHANGED <<phase, setup, file, keys, campId, clientToken, profile,
                 authError, tools, pc, local, history, crashes>>

\* A request of the MCP client.
Arrive(s, op, u) ==
  /\ phase = "up" /\ pc[s] = "idle"
  /\ Goto(s, "arrived")
  /\ local' = [local EXCEPT ![s] = [NoLocals EXCEPT !.op = op, !.user = u]]
  /\ UNCHANGED <<phase, setup, file, server, history, crashes>>

ArriveList(s) == Arrive(s, "list", None)

SigningIn == {s \in Slot : local[s].op \in SignIns}

ArriveCall(s) ==
  \/ \E op \in Calls \ {"signIn"} : Arrive(s, op, None)
  \/ /\ applied + Cardinality(SigningIn) < MaxSignIns
     /\ \E u \in User : Arrive(s, "signIn", u)

-----------------------------------------------------------------------------
(***************************************************************************)
(* ensureRegionProfile and resolveRegionProfile.                           *)
(***************************************************************************)

EnsureProfile(s) ==
  /\ pc[s] = "arrived"
  /\ \/ /\ ~Configured
        /\ tools' = "auth"
        /\ UNCHANGED <<keys, campId, clientToken, profile, fresh, authError>>
        /\ Continue(s)
     \/ Configured /\ UpToDate(s) /\ UNCHANGED server /\ Continue(s)
     \/ /\ Configured /\ ~UpToDate(s) /\ campId = None
        /\ Adopt(CnProfile)
        /\ Continue(s)
     \/ /\ Configured /\ ~UpToDate(s) /\ campId # None
        /\ UNCHANGED <<phase, server, reported>>
        /\ Ask(s, "camp", campId)
  /\ UNCHANGED <<setup, file, applied, strayed, crashes>>

\* /camp/get: the property's region, an authentication error, or any other
\* failure, which falls back to the domestic profile.
CampAnswer(s) ==
  /\ pc[s] = "camp"
  /\ LET c == local[s].camp IN
     \/ /\ local[s].ok /\ Region(c) = "overseas"
        /\ Goto(s, "settings")
        /\ UNCHANGED <<phase, server, local, reported>>
     \/ /\ Adopt([region |-> "cn", camp |-> c])
        /\ Continue(s)
     \/ /\ authError' = TRUE
        /\ UNCHANGED <<keys, campId, clientToken, profile, fresh, tools>>
        /\ Continue(s)
  /\ UNCHANGED <<setup, file, applied, strayed, crashes>>

\* /systemConfigs/get and calendarPersonalization/get, or their defaults.
SettingsAnswer(s) ==
  /\ pc[s] = "settings"
  /\ Adopt([region |-> "overseas", camp |-> local[s].camp])
  /\ Continue(s)
  /\ UNCHANGED <<setup, file, applied, strayed, crashes>>

-----------------------------------------------------------------------------
(***************************************************************************)
(* The tools.                                                              *)
(***************************************************************************)

\* sign_up_check and send_signup_email_code keep nothing; an operational
\* tool's requests are the subject of other modules.
ToolReturns(s) ==
  /\ pc[s] \in {"enquiry", "working"}
  /\ Finish(s)
  /\ UNCHANGED <<phase, setup, file, server, history, crashes>>

\* A sign-in that is refused or fails at any of its requests; one without a
\* code that is needed, or for an account without a property, fails as well.
SignInFails(s) ==
  /\ pc[s] \in {"login", "camps", "secret", "generate"}
  /\ Finish(s)
  /\ UNCHANGED <<phase, setup, file, server, history, crashes>>

SlipLoadFirstCampId(s) == UNCHANGED clientToken

\* loadFirstCampId: the client takes the login token before it asks.
LoadFirstCampId(s) == clientToken' = Login(local[s].user)

\* The login is accepted and /camps/get goes out.
LoginAnswer(s) ==
  /\ pc[s] = "login"
  /\ LoadFirstCampId(s)
  /\ Ask(s, "camps", Account(clientToken'))
  /\ strayed' = TRUE
  /\ UNCHANGED <<phase, setup, file, keys, campId, profile, fresh,
                 authError, tools, applied, reported, crashes>>

\* The first property is known and /user/secret/get goes out; when that
\* yields nothing, /user/secret/generate does.
CampsAnswer(s) ==
  /\ pc[s] = "camps" /\ local[s].ok
  /\ UNCHANGED <<phase, setup, file, server, history, crashes>>
  /\ Ask(s, "secret", local[s].camp)

SecretMissing(s) ==
  /\ pc[s] = "secret"
  /\ UNCHANGED <<phase, setup, file, server, history, crashes>>
  /\ Ask(s, "generate", local[s].camp)

SlipSessionToken(s) == Login(local[s].user)

\* extractSecretToken: what is kept is the secret, never the login token.
SessionToken(s) == Secret(local[s].camp)

SlipKeepOnDisk(s, new) ==
  file' \in {file, new}

\* writeStoredCredentials: a new file is renamed over the old one.
KeepOnDisk(s, new) == file' = new

SlipTakeSession(s, new) ==
  /\ keys' = new /\ campId' = new.camp
  /\ UNCHANGED clientToken

\* The first three statements of applyHudsonSession.
TakeSession(s, new) ==
  /\ keys' = new /\ campId' = new.camp
  /\ clientToken' = new.token

\* applyHudsonSession with the secret that was found or made.  When the file
\* cannot be written it throws, half-way.
SecretAnswer(s) ==
  /\ pc[s] \in {"secret", "generate"} /\ local[s].ok
  /\ LET new == [token |-> SessionToken(s), camp |-> local[s].camp,
                by |-> local[s].user, n |-> applied + 1]
     IN /\ TakeSession(s, new)
        /\ applied' = applied + 1
        /\ strayed' = FALSE
        /\ \/ /\ KeepOnDisk(s, new)
              /\ authError' = FALSE
              /\ fresh' = FALSE
              /\ Goto(s, "camp")
              /\ local' = [local EXCEPT ![s].op = "report", ![s].n = new.n,
                            ![s].ok = Accepted(clientToken', new.camp)]
           \/ Finish(s) /\ UNCHANGED <<file, authError, fresh>>
  /\ UNCHANGED <<phase, setup, profile, tools, reported, crashes>>

-----------------------------------------------------------------------------

Arrivals(s) == ArriveList(s) \/ ArriveCall(s)

Answer(s) ==
  \/ EnsureProfile(s) \/ CampAnswer(s) \/ SettingsAnswer(s)
  \/ ToolReturns(s) \/ SignInFails(s) \/ LoginAnswer(s) \/ CampsAnswer(s)
  \/ SecretMissing(s) \/ SecretAnswer(s)

Next ==
  \/ Crash \/ Expire
  \/ \E s \in Slot : Start(s) \/ Arrivals(s) \/ Answer(s)

Spec == Init /\ [][Next]_vars

\* Every HTTP request is answered or times out, and time passes.
Fairness == WF_vars(Expire) /\ \A s \in Slot : WF_vars(Answer(s))

FairSpec == Spec /\ Fairness

-----------------------------------------------------------------------------
(***************************************************************************)
(* Properties.                                                             *)
(***************************************************************************)

TypeOK ==
  /\ phase \in {"down", "starting", "up"}
  /\ setup \in Setups
  /\ file \in Credentials \union {None} /\ keys \in Credentials \union {None}
  /\ campId \in Camp \union {None} /\ clientToken \in Token \union {None}
  /\ profile \in Profiles /\ fresh \in BOOLEAN /\ authError \in BOOLEAN
  /\ tools \in {"startup", "auth", "cn", "overseas"}
  /\ pc \in [Slot -> Pc] /\ local \in [Slot -> Locals]
  /\ applied \in 0..MaxSignIns /\ reported \in 0..MaxSignIns
  /\ strayed \in BOOLEAN /\ crashes \in 0..MaxCrashes

\* Credentials that belong together: the App Secret of a property, that
\* property, and a user whose property it is.
Whole(c) == c = None \/ (c.token = Secret(c.camp) /\ CampOf[c.by] = c.camp)

\* Whatever sign-ins overlap, the credentials in memory and those on disk are
\* each one user's, with the App Secret and never the login token
\* (onboarding.ts:110-113), and the client carries the token in memory unless
\* a sign-in has put its login token there since (onboarding.ts:85).
OneSession ==
  /\ Whole(keys) /\ Whole(file)
  /\ campId = IF keys = None THEN None ELSE keys.camp
  /\ ~strayed => clientToken = IF keys = None THEN None ELSE keys.token

\* "Saved App Secret locally ... Next MCP start can reuse it"
\* (onboarding.ts:159): once a sign-in has been reported done, the file holds
\* its credentials or later ones, whatever failed or crashed since.
ReportedIsSaved == reported > 0 => file # None /\ file.n >= reported

\* The client can be offered no sign-in only while Hudson refuses the
\* credentials the process has: the list the server is constructed with, which
\* has no sign-in tools, is gone once a profile was resolved or none of it was
\* needed (server.ts:43, 235).
SignInIsOffered == phase = "up" /\ tools = "startup" => authError

\* While the client keeps calling tools, the profile the tools work with is in
\* the end that of the property they work on, or they are refused: a resolve
\* that a sign-in overtook cannot put the old one back for good
\* (server.ts:183-185, 220-222).
ProfileFollowsCamp ==
  []<><<\E s \in Slot : ArriveCall(s)>>_vars
    => <>[](campId # None => profile.camp = campId \/ authError)
=============================================================================
