------------------------------ MODULE TokenFamily ------------------------------
(***************************************************************************)
(* What follows a user's consent at the OAuth token endpoint: the one-time *)
(* authorization code, the token family its redemption creates in Redis,   *)
(* the rotation of refresh tokens, and revocation, which is decided by the *)
(* grant row in PostgreSQL.                                                *)
(*                                                                         *)
(* One authorization is modelled: one grant, its code and its family.  The *)
(* code and the family of another grant live under other keys and share    *)
(* nothing with these.  A Request is a place for one running HTTP request; *)
(* every await on Redis or PostgreSQL ends a step.                         *)
(*                                                                         *)
(* Abstracted: a token is the number of the pair it belongs to, so that an *)
(* access token and a refresh token of one response carry one number; the  *)
(* pair a request mints takes its number when the family is written, for a *)
(* pair that is not written is never seen.  Client authentication, PKCE,   *)
(* resources and scopes are conditions on the request alone and are met.   *)
(* Time passes in the flags code, familyLive and accessLive.               *)
(***************************************************************************)
EXTENDS Naturals, FiniteSets

CONSTANTS
  Request,      \* how many requests can be running at once
  MaxAttempts,  \* attempts of the compare-and-set loops (8 in the code)
  MaxUsed,      \* refresh tokens a family remembers (1000 in the code)
  Faults,       \* whether requests stop half-way
  MaxArrivals   \* bound: requests in one behaviour

ASSUME ConstantsOK ==
  /\ MaxAttempts \in Nat /\ MaxAttempts >= 2
  /\ MaxUsed \in Nat
  /\ Faults \in BOOLEAN
  /\ MaxArrivals \in Nat

VARIABLES
  code,        \* the code's key in Redis: "stored", "consumed" or "expired"
  grantActive, \* the grant row is neither revoked nor expired
  family,      \* the family's record in Redis
  familyLive,  \* the record and its key have not expired
  accessLive,  \* nor has its access token
  pc,          \* where each request stands
  local,       \* its local variables
  given,       \* pairs that reached a client
  issued,      \* history: families created
  answered,    \* history: refresh tokens that were answered for
  repeated,    \* history: those that were answered for more than once
  doomed,      \* history: a replay or a revocation has been answered
  arrived      \* requests so far, for MaxArrivals

stores == <<code, grantActive, family, familyLive, accessLive>>
ghosts == <<given, issued, answered, repeated, doomed>>
vars   == <<stores, pc, local, ghosts, arrived>>

Operations == {"redeem", "refresh", "verify", "revoke"}

\* Where a request can stand: each value names the statement it awaits next.
Redeeming == {"code", "consume", "approve", "store"}
Rotating  == {"reapprove", "rotate"}
Ending    == {"owner", "punish", "mark"}
Pc        == {"idle", "family", "check", "granted"}
               \union Redeeming \union Rotating \union Ending

FamilyRow == [made : BOOLEAN, pair : Nat, used : SUBSET Nat, revoked : BOOLEAN]
NoFamily  == [made |-> FALSE, pair |-> 0, used |-> {}, revoked |-> FALSE]

Locals ==
  [op : Operations, kind : {"at", "rt"}, token : Nat,
   f : FamilyRow,       \* the record as read
   attempt : Nat,
   ending : BOOLEAN,    \* history: it met a replay or a token to revoke
   late : BOOLEAN]      \* history: it began after such a request was answered

NoLocals ==
  [op |-> "verify", kind |-> "at", token |-> 0, f |-> NoFamily,
   attempt |-> 0, ending |-> FALSE, late |-> FALSE]

Init ==
  /\ code = "stored"
  /\ grantActive = TRUE
  /\ family = NoFamily /\ familyLive = TRUE /\ accessLive = TRUE
  /\ pc = [r \in Request |-> "idle"]
  /\ local = [r \in Request |-> NoLocals]
  /\ given = {} /\ issued = 0 /\ answered = {} /\ repeated = {}
  /\ doomed = FALSE /\ arrived = 0

-----------------------------------------------------------------------------
(***************************************************************************)
(* Conditions and small steps.  A slip is a condition as a plausible bug   *)
(* would have it; no action uses one.                                      *)
(***************************************************************************)

SlipCodeUnchanged == TRUE

\* consumeIfEqual: the script deletes the key only if it is still there.
CodeUnchanged == code = "stored"

SlipFamilyUnchanged(r) == familyLive

\* compareAndSet on the record the request has read.
FamilyUnchanged(r) == familyLive /\ family = local[r].f

\* parse: a record with too long a history is no record.
Readable == family.made /\ familyLive /\ Cardinality(family.used) <= MaxUsed

\* The bound on the history, checked before it grows.
Full(f) == Cardinality(f.used) >= MaxUsed

SlipPushesOlder(f) == [f EXCEPT !.pair = @ + 1, !.used = @ \union {f.pair - 1}]

\* refresh: the old token joins the history, the new pair takes its place.
Rotated(f) == [f EXCEPT !.pair = @ + 1, !.used = @ \union {f.pair}]

\* revoke: which tokens name the family.  An access token of an earlier pair
\* does not; a refresh token does for ever.
Matches(r) ==
  \/ local[r].token = family.pair
  \/ local[r].kind = "rt" /\ local[r].token \in family.used

Goto(r, p) == pc' = [pc EXCEPT ![r] = p]
Proceed(r, p) == Goto(r, p) /\ UNCHANGED local

\* The request is over, without an answer or with one.
Leave(r) == Goto(r, "idle") /\ local' = [local EXCEPT ![r] = NoLocals]
End(r) == Leave(r) /\ doomed' = (doomed \/ local[r].ending)

\* Of a refresh, what the family or its grant made of the token.
Tell(r) ==
  IF local[r].op = "refresh"
  THEN /\ answered' = answered \union {local[r].token}
       /\ repeated' = repeated \union ({local[r].token} \cap answered)
  ELSE UNCHANGED <<answered, repeated>>

Refuse(r) == End(r) /\ UNCHANGED <<answered, repeated>>
Conclude(r) == End(r) /\ Tell(r)

SlipRetry(r) == Conclude(r)

\* A compare-and-set failed: read again, or give up after the last attempt.
Retry(r) ==
  IF local[r].attempt < MaxAttempts
  THEN /\ Goto(r, "family")
       /\ local' = [local EXCEPT ![r].attempt = @ + 1]
       /\ UNCHANGED <<answered, repeated, doomed>>
  ELSE Conclude(r)

-----------------------------------------------------------------------------
(***************************************************************************)
(* The token endpoint's authorization_code branch: redeem, then issue.     *)
(***************************************************************************)

ReadCode(r) ==
  /\ pc[r] = "code"
  /\ IF code = "stored"
     THEN Proceed(r, "consume") /\ UNCHANGED <<answered, repeated, doomed>>
     ELSE Refuse(r)
  /\ UNCHANGED <<stores, given, issued, arrived>>

Consume(r) ==
  /\ pc[r] = "consume"
  /\ IF CodeUnchanged
     THEN /\ code' = "consumed"
          /\ Proceed(r, "approve")
          /\ UNCHANGED <<answered, repeated, doomed>>
     ELSE Refuse(r) /\ UNCHANGED code
  /\ UNCHANGED <<grantActive, family, familyLive, accessLive, given, issued,
                 arrived>>

\* issue: active() reads the grant again; a code whose grant has ended is
\* consumed for nothing.
Approve(r) ==
  /\ pc[r] = "approve"
  /\ IF grantActive
     THEN Proceed(r, "store") /\ UNCHANGED <<answered, repeated, doomed>>
     ELSE Refuse(r)
  /\ UNCHANGED <<stores, given, issued, arrived>>

\* putIfAbsent under a fresh random key.
StoreFamily(r) ==
  /\ pc[r] = "store"
  /\ family' = [NoFamily EXCEPT !.made = TRUE]
  /\ issued' = issued + 1
  /\ Proceed(r, "granted")
  /\ UNCHANGED <<code, grantActive, familyLive, accessLive, given, answered,
                 repeated, doomed, arrived>>

-----------------------------------------------------------------------------
(***************************************************************************)
(* refresh, verify and revoke read the family first.                       *)
(***************************************************************************)

ReadForRefresh(r) ==
  /\ pc[r] = "family" /\ local[r].op = "refresh"
  /\ LET seen == [local[r] EXCEPT !.f = family] IN
     \/ ~Readable /\ Refuse(r)
     \/ Readable /\ family.revoked /\ Conclude(r)
     \/ /\ Readable /\ ~family.revoked
        /\ \/ /\ local[r].token \in family.used
              /\ local' = [local EXCEPT ![r] = [seen EXCEPT !.ending = TRUE]]
              /\ Goto(r, "owner")
           \/ /\ local[r].token \notin family.used
              /\ local[r].token = family.pair
              /\ local' = [local EXCEPT ![r] = seen]
              /\ Goto(r, "reapprove")
        /\ UNCHANGED <<answered, repeated, doomed>>
  /\ UNCHANGED <<stores, given, issued, arrived>>

ReadForVerify(r) ==
  /\ pc[r] = "family" /\ local[r].op = "verify"
  /\ IF /\ Readable /\ ~family.revoked /\ accessLive
        /\ local[r].token = family.pair
     THEN Proceed(r, "check") /\ UNCHANGED <<answered, repeated, doomed>>
     ELSE Refuse(r)
  /\ UNCHANGED <<stores, given, issued, arrived>>

ReadForRevoke(r) ==
  /\ pc[r] = "family" /\ local[r].op = "revoke"
  /\ IF Readable /\ Matches(r)
     THEN /\ local' = [local EXCEPT ![r].f = family, ![r].ending = TRUE]
          /\ Goto(r, "owner")
          /\ UNCHANGED <<answered, repeated, doomed>>
     ELSE Refuse(r)
  /\ UNCHANGED <<stores, given, issued, arrived>>

\* verify: the grant has the last word on every business request.
Check(r) ==
  /\ pc[r] = "check"
  /\ IF grantActive
     THEN Proceed(r, "granted") /\ UNCHANGED <<answered, repeated, doomed>>
     ELSE Refuse(r)
  /\ UNCHANGED <<stores, given, issued, arrived>>

\* refresh with the current token: the grant, then the length of the history.
Reapprove(r) ==
  /\ pc[r] = "reapprove"
  /\ \/ ~grantActive /\ Conclude(r)
     \/ grantActive /\ Full(local[r].f) /\ Refuse(r)
     \/ /\ grantActive /\ ~Full(local[r].f)
        /\ Proceed(r, "rotate")
        /\ UNCHANGED <<answered, repeated, doomed>>
  /\ UNCHANGED <<stores, given, issued, arrived>>

Rotate(r) ==
  /\ pc[r] = "rotate"
  /\ IF FamilyUnchanged(r)
     THEN /\ family' = Rotated(local[r].f)
          /\ accessLive' = TRUE
          /\ Proceed(r, "granted")
          /\ UNCHANGED <<answered, repeated, doomed>>
     ELSE Retry(r) /\ UNCHANGED <<family, accessLive>>
  /\ UNCHANGED <<code, grantActive, familyLive, given, issued, arrived>>

\* After PostgreSQL: revoke leaves a family that is marked already, refresh
\* never gets here with one.
ToMark(r) ==
  IF local[r].f.revoked
  THEN Conclude(r)
  ELSE Proceed(r, "mark") /\ UNCHANGED <<answered, repeated, doomed>>

SlipOwner(r) ==
  /\ pc[r] = "owner"
  /\ ToMark(r)
  /\ UNCHANGED <<stores, given, issued, arrived>>

\* A replay or a revocation: readActive finds whose grant it is.
Owner(r) ==
  /\ pc[r] = "owner"
  /\ IF grantActive
     THEN Proceed(r, "punish") /\ UNCHANGED <<answered, repeated, doomed>>
     ELSE ToMark(r)
  /\ UNCHANGED <<stores, given, issued, arrived>>

\* grants.revoke, before the family is marked.
Punish(r) ==
  /\ pc[r] = "punish"
  /\ grantActive' = FALSE
  /\ ToMark(r)
  /\ UNCHANGED <<code, family, familyLive, accessLive, given, issued, arrived>>

Mark(r) ==
  /\ pc[r] = "mark"
  /\ IF FamilyUnchanged(r)
     THEN family' = [family EXCEPT !.revoked = TRUE] /\ Conclude(r)
     ELSE Retry(r) /\ UNCHANGED family
  /\ UNCHANGED <<code, grantActive, familyLive, accessLive, given, issued,
                 arrived>>

\* The 200 response reaches the client, with the new pair if there is one.
Answer(r) ==
  /\ pc[r] = "granted"
  /\ Conclude(r)
  /\ given' = CASE local[r].op = "redeem"  -> given \union {0}
                [] local[r].op = "refresh" -> given \union {local[r].f.pair + 1}
                [] OTHER                   -> given
  /\ UNCHANGED <<stores, issued, arrived>>

-----------------------------------------------------------------------------
(***************************************************************************)
(* Arrivals, failures and the passing of time.                             *)
(***************************************************************************)

\* Anybody who was given a token may present it, as often as they like.
Begin(r, op, kind, t, p) ==
  /\ pc[r] = "idle"
  /\ arrived < MaxArrivals /\ arrived' = arrived + 1
  /\ Goto(r, p)
  /\ local' = [local EXCEPT ![r] =
       [NoLocals EXCEPT !.op = op, !.kind = kind, !.token = t, !.attempt = 1,
                        !.late = doomed]]
  /\ UNCHANGED <<stores, ghosts>>

Arrive(r) ==
  \/ Begin(r, "redeem", "rt", 0, "code")
  \/ \E t \in given :
       \/ Begin(r, "refresh", "rt", t, "family")
       \/ Begin(r, "verify", "at", t, "family")
       \/ \E kind \in {"at", "rt"} : Begin(r, "revoke", kind, t, "family")

\* A store fails, the process stops or the connection drops: the client gets
\* no answer or a 503, and what was written stays.
Fail(r) ==
  /\ Faults
  /\ pc[r] # "idle"
  /\ Leave(r)
  /\ UNCHANGED <<stores, ghosts, arrived>>

CodeExpires ==
  /\ code = "stored" /\ code' = "expired"
  /\ UNCHANGED <<grantActive, family, familyLive, accessLive, pc, local, ghosts,
                 arrived>>

GrantExpires ==
  /\ grantActive /\ grantActive' = FALSE
  /\ UNCHANGED <<code, family, familyLive, accessLive, pc, local, ghosts, arrived>>

FamilyExpires ==
  /\ family.made /\ familyLive /\ familyLive' = FALSE
  /\ UNCHANGED <<code, grantActive, family, accessLive, pc, local, ghosts,
                 arrived>>

AccessExpires ==
  /\ family.made /\ accessLive /\ accessLive' = FALSE
  /\ UNCHANGED <<code, grantActive, family, familyLive, pc, local, ghosts,
                 arrived>>

-----------------------------------------------------------------------------
Step(r) ==
  \/ ReadCode(r) \/ Consume(r) \/ Approve(r) \/ StoreFamily(r)
  \/ ReadForRefresh(r) \/ ReadForVerify(r) \/ ReadForRevoke(r)
  \/ Check(r) \/ Reapprove(r) \/ Rotate(r)
  \/ Owner(r) \/ Punish(r) \/ Mark(r) \/ Answer(r)

Environment == CodeExpires \/ GrantExpires \/ FamilyExpires \/ AccessExpires

Next ==
  \/ \E r \in Request : Arrive(r) \/ Step(r) \/ Fail(r)
  \/ Environment

Spec == Init /\ [][Next]_vars

-----------------------------------------------------------------------------
(***************************************************************************)
(* Properties                                                              *)
(***************************************************************************)

\* Every variable keeps its type.
TypeOK ==
  /\ code \in {"stored", "consumed", "expired"}
  /\ grantActive \in BOOLEAN
  /\ family \in FamilyRow
  /\ familyLive \in BOOLEAN /\ accessLive \in BOOLEAN
  /\ pc \in [Request -> Pc]
  /\ local \in [Request -> Locals]
  /\ given \in SUBSET Nat
  /\ issued \in Nat
  /\ answered \in SUBSET Nat /\ repeated \in SUBSET Nat
  /\ doomed \in BOOLEAN
  /\ arrived \in Nat

\* However many clients redeem the code at once, it makes one family.
CodeMakesOneFamily == issued <= 1

\* Using a refresh token twice, at once or one after the other, is a replay:
\* once two requests have been answered for one token the grant has ended,
\* whichever of them won the rotation.
ReuseIsReplay == repeated # {} => ~grantActive

\* After a replay or a revocation has been answered no later request gets
\* anything: no access is verified, no token refreshed, no code redeemed.
DoomIsFinal == \A r \in Request : pc[r] = "granted" => ~local[r].late

-----------------------------------------------------------------------------
(***************************************************************************)
(* The abstract specification.                                             *)
(***************************************************************************)

\* The record in Redis, seen as the chain of TokenChain.
ChainState ==
  IF ~family.made THEN "none"
  ELSE IF ~familyLive THEN "lapsed"
  ELSE IF family.revoked THEN "closed" ELSE "open"

PairsMade == IF family.made THEN family.pair + 1 ELSE 0

Chained == INSTANCE TokenChain
  WITH chain <- ChainState, made <- PairsMade, spent <- family.used,
       handed <- given, standing <- grantActive

\* Whatever requests race, break off or repeat, the record moves on as a
\* chain: opened once by the code, each pair spent once and none handed out
\* before it is there, the history within what parse accepts, and marked only
\* after the grant has ended in PostgreSQL, never unmarked by a rotation that
\* read it before (tokenService.ts:137-268).
ImplementsChain == Chained!Spec
=============================================================================
