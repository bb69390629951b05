------------------------- MODULE LocalSession_proofs -------------------------
(***************************************************************************)
(* The safety invariants of LocalSession hold for every number of          *)
(* concurrent requests, users, properties, sign-ins and crashes.           *)
(*                                                                         *)
(* The inductive invariant has four parts beside the properties:           *)
(*   TypeOK     the types;                                                 *)
(*   Budget     sign-ins applied and those under way are within the bound, *)
(*              without which the credentials' number would leave its type;*)
(*   Placed     a sign-in past its login knows whose property it is about, *)
(*              and was offered, so that the first list is gone;           *)
(*   SavedInv   the file never falls behind a sign-in about to be reported.*)
(***************************************************************************)
EXTENDS LocalSession, FiniteSetTheorems, TLAPS

-----------------------------------------------------------------------------
Asking  == {"camps", "secret", "generate"}
Signing == Asking \union {"login"}

\* The sign-ins that may still be applied.
Unapplied == {s \in Slot : local[s].op = "signIn"}

Budget == applied + Cardinality(Unapplied) <= MaxSignIns

Placed(s) ==
  /\ local[s].op = "signIn" => local[s].user \in User
  /\ pc[s] \in Signing => local[s].op = "signIn" /\ tools # "startup"
  /\ pc[s] \in Asking => local[s].camp = CampOf[local[s].user]

PlaceInv == \A s \in Slot : Placed(s)

SavedAt(n) == file # None /\ file.n >= n

SavedInv ==
  /\ file # None => file.n <= applied
  /\ \A s \in Slot : local[s].op = "report" => SavedAt(local[s].n)

IInv ==
  /\ TypeOK /\ Budget /\ PlaceInv /\ SavedInv
  /\ OneSession /\ ReportedIsSaved /\ SignInIsOffered

\* What every step of slot s leaves alone.
OthersStay(s) ==
  \A q \in Slot \ {s} : pc'[q] = pc[q] /\ local'[q] = local[q]

USE DEF Asking, Signing

-----------------------------------------------------------------------------
(***************************************************************************)
(* Lemmas about the values.                                                *)
(***************************************************************************)

\* The idle values have their type.
LEMMA NoLocalsType == NoLocals \in Locals
  BY ConstantsOK DEF NoLocals, Locals, Op, Calls

\* Credentials a user had before are credentials, and belong together.
LEMMA GivenWhole ==
  ASSUME NEW u \in User
  PROVE  /\ Given(u) \in Credentials /\ Given(u) # None /\ Whole(Given(u))
         /\ Given(u).n = 0
  <1>1. CampOf[u] \in Camp /\ 0 \in 0..MaxSignIns
    BY ConstantsOK
  <1>2. Given(u) \in Credentials
    BY <1>1 DEF Given, Credentials, Token
  <1> QED BY <1>1, <1>2, NoneOK DEF Given, Whole

\* What the process starts from is null, of the environment or of the file.
LEMMA LoadedCases ==
  ASSUME TypeOK
  PROVE  Loaded = None \/ (\E u \in User : Loaded = Given(u)) \/ Loaded = file
  <1>1. setup.env \in {None} \union {Given(u) : u \in User}
    BY SetupsOK DEF TypeOK
  <1> QED BY <1>1 DEF Loaded

\* The set of sign-ins not yet applied is finite, and so is any set of slots.
LEMMA SlotsFinite ==
  ASSUME NEW S \in SUBSET Slot
  PROVE  IsFiniteSet(S) /\ Cardinality(S) \in Nat
  <1>1. IsFiniteSet(S)
    BY ConstantsOK, FS_Subset
  <1> QED BY <1>1, FS_CardinalityType

\* Sign-ins that end or are given up leave room in the budget.
LEMMA BudgetShrinks ==
  ASSUME TypeOK, Budget, Unapplied' \subseteq Unapplied, applied' = applied
  PROVE  Budget'
  <1>1. Unapplied \in SUBSET Slot /\ Unapplied' \in SUBSET Slot
    BY DEF Unapplied
  <1>2. Cardinality(Unapplied') <= Cardinality(Unapplied)
    BY <1>1, SlotsFinite, FS_Subset
  <1>3. Cardinality(Unapplied) \in Nat /\ Cardinality(Unapplied') \in Nat
    BY <1>1, SlotsFinite
  <1> QED BY <1>2, <1>3, ConstantsOK DEF TypeOK, Budget

\* A sign-in is applied within the budget, and uses its place in it up.
LEMMA BudgetApplied ==
  ASSUME TypeOK, Budget, NEW s \in Unapplied
  PROVE  /\ applied + 1 \in 1..MaxSignIns
         /\ applied' = applied + 1 /\ Unapplied' = Unapplied \ {s} => Budget'
  <1>1. Unapplied \in SUBSET Slot /\ IsFiniteSet(Unapplied)
    BY SlotsFinite DEF Unapplied
  <1>2. Cardinality(Unapplied) \in Nat /\ Cardinality(Unapplied \ {s}) \in Nat
    BY <1>1, SlotsFinite
  <1>3. Cardinality(Unapplied \ {s}) = Cardinality(Unapplied) - 1
    BY <1>1, FS_RemoveElement
  <1>4. applied \in Nat /\ MaxSignIns \in Nat
    BY ConstantsOK DEF TypeOK
  <1>5. applied + Cardinality(Unapplied) <= MaxSignIns
    BY DEF Budget
  <1>6. applied + 1 \in 1..MaxSignIns
    BY <1>2, <1>3, <1>4, <1>5
  <1>7. ASSUME applied' = applied + 1, Unapplied' = Unapplied \ {s}
        PROVE  Budget'
    <2>1. applied' + Cardinality(Unapplied \ {s}) <= MaxSignIns
      BY <1>2, <1>3, <1>4, <1>5, <1>7
    <2> QED BY <2>1, <1>7 DEF Budget
  <1> QED BY <1>6, <1>7

-----------------------------------------------------------------------------
(***************************************************************************)
(* Lemmas about what most steps have in common.                            *)
(***************************************************************************)

\* A step that applies no sign-in and begins none keeps to the budget.
LEMMA BudgetKept ==
  ASSUME TypeOK, Budget, NEW s \in Slot, OthersStay(s), applied' = applied,
         local'[s].op = "signIn" => local[s].op = "signIn"
  PROVE  Budget'
  <1>1. Unapplied' \subseteq Unapplied
    BY DEF OthersStay, Unapplied
  <1> QED BY <1>1, BudgetShrinks

\* A step of one slot that does not bring the first list back keeps the others
\* placed.
LEMMA PlaceKept ==
  ASSUME PlaceInv, NEW s \in Slot, OthersStay(s), Placed(s)',
         tools # "startup" => tools' # "startup"
  PROVE  PlaceInv'
  <1>1. ASSUME NEW q \in Slot \ {s} PROVE Placed(q)'
    <2>1. pc'[q] = pc[q] /\ local'[q] = local[q] /\ Placed(q)
      BY DEF OthersStay, PlaceInv
    <2> QED BY <2>1 DEF Placed
  <1> QED BY <1>1 DEF PlaceInv

\* A step that neither writes the file nor applies a sign-in keeps it ahead.
LEMMA SavedKept ==
  ASSUME SavedInv, NEW s \in Slot, OthersStay(s),
         file' = file, applied' = applied,
         local'[s].op = "report" =>
           local[s].op = "report" /\ local'[s].n = local[s].n
  PROVE  SavedInv'
  <1>1. file' # None => file'.n <= applied'
    BY DEF SavedInv
  <1>2. ASSUME NEW q \in Slot, local'[q].op = "report"
        PROVE  file' # None /\ file'.n >= local'[q].n
    <2>1. local[q].op = "report" /\ local'[q].n = local[q].n
      BY <1>2 DEF OthersStay
    <2>2. SavedAt(local[q].n)
      BY <2>1 DEF SavedInv
    <2> QED BY <2>1, <2>2 DEF SavedAt
  <1> QED BY <1>1, <1>2 DEF SavedInv, SavedAt

\* Ending a request or sending one touches one slot, and keeps the types.
LEMMA FinishShape ==
  ASSUME TypeOK, NEW s \in Slot, Finish(s)
  PROVE  /\ OthersStay(s)
         /\ pc'[s] = "idle" /\ local'[s] = NoLocals
         /\ pc' \in [Slot -> Pc] /\ local' \in [Slot -> Locals]
  BY NoLocalsType DEF TypeOK, Finish, Goto, OthersStay, Pc

\* Sending a request keeps what the slot is about but for the property.
LEMMA AskShape ==
  ASSUME TypeOK, NEW s \in Slot, NEW p \in Pc, NEW c \in Camp \union {None},
         Ask(s, p, c)
  PROVE  /\ OthersStay(s)
         /\ pc'[s] = p /\ local'[s].camp = c
         /\ local'[s].op = local[s].op /\ local'[s].user = local[s].user
         /\ local'[s].n = local[s].n
         /\ pc' \in [Slot -> Pc] /\ local' \in [Slot -> Locals]
  <1>1. Accepted(clientToken', c) \in BOOLEAN
    BY DEF Accepted
  <1>2. local[s] \in Locals /\ local \in [Slot -> Locals] /\ pc \in [Slot -> Pc]
    BY DEF TypeOK
  <1>3. /\ pc' = [pc EXCEPT ![s] = p]
        /\ local' = [local EXCEPT ![s].camp = c,
                                   ![s].ok = Accepted(clientToken', c)]
    BY DEF Ask, Goto
  <1> HIDE DEF Accepted
  <1> QED BY <1>1, <1>2, <1>3 DEF OthersStay, Locals

\* The permissions of a tool call.
LEMMA DispatchShape ==
  ASSUME TypeOK, NEW s \in Slot, local[s].op \in Calls, Dispatch(s)
  PROVE  \/ Finish(s)
         \/ /\ pc' = [pc EXCEPT ![s] = First(local[s].op)]
            /\ local' = local /\ Offered(local[s].op)
  BY DEF Dispatch, Goto

\* What the rest of a request does after ensureRegionProfile: it ends, or it
\* is a tool call whose tool was offered and sends its first request.
LEMMA ContinueShape ==
  ASSUME TypeOK, NEW s \in Slot, Continue(s)
  PROVE  /\ OthersStay(s)
         /\ pc' \in [Slot -> Pc] /\ local' \in [Slot -> Locals]
         /\ local'[s] \in {NoLocals, local[s]}
         /\ local'[s].op # "report"
         /\ pc'[s] \notin Asking
         /\ pc'[s] = "login" =>
              local'[s] = local[s] /\ local[s].op = "signIn" /\ tools' # "startup"
         /\ phase' = phase \/ (local[s].op = "start" /\ phase' = "up")
         /\ \/ reported' = reported
            \/ local[s].op = "report" /\ reported' = local[s].n
  <1>1. CASE Finish(s)
    <2>1. /\ phase' = phase \/ (local[s].op = "start" /\ phase' = "up")
          /\ \/ reported' = reported
             \/ local[s].op = "report" /\ reported' = local[s].n
      BY DEF Continue, Dispatch
    <2> QED BY <1>1, <2>1, FinishShape DEF NoLocals
  <1>2. CASE ~Finish(s)
    <2>1. /\ local[s].op \in Calls
          /\ pc' = [pc EXCEPT ![s] = First(local[s].op)]
          /\ local' = local /\ Offered(local[s].op)
          /\ phase' = phase /\ reported' = reported
      BY <1>2, DispatchShape DEF Continue
    <2>2. /\ First(local[s].op) \in {"login", "enquiry", "working"}
          /\ First(local[s].op) = "login" => local[s].op = "signIn"
      BY <2>1 DEF First, Calls
    <2>3. local[s].op = "signIn" => tools' # "startup"
      BY <2>1 DEF Offered
    <2>4. pc \in [Slot -> Pc] /\ local \in [Slot -> Locals]
      BY DEF TypeOK
    <2>5. pc'[s] = First(local[s].op) /\ OthersStay(s) /\ pc' \in [Slot -> Pc]
      BY <2>1, <2>2, <2>4 DEF OthersStay, Pc
    <2> QED BY <2>1, <2>2, <2>3, <2>4, <2>5 DEF Calls
  <1> QED BY <1>1, <1>2

\* A step of one slot that leaves the session alone, applies nothing and
\* reports nothing, and leaves the slot where it may be.
LEMMA QuietStep ==
  ASSUME IInv, NEW s \in Slot, OthersStay(s), Placed(s)',
         pc' \in [Slot -> Pc], local' \in [Slot -> Locals],
         local'[s].op = "signIn" => local[s].op = "signIn",
         local'[s].op = "report" =>
           local[s].op = "report" /\ local'[s].n = local[s].n,
         UNCHANGED <<phase, setup, file, server, history, crashes>>
  PROVE  IInv'
  <1> USE DEF IInv
  <1>1. TypeOK'
    BY DEF TypeOK, server, history
  <1>2. Budget'
    BY BudgetKept DEF history
  <1>3. PlaceInv'
    BY PlaceKept DEF server
  <1>4. SavedInv'
    BY SavedKept DEF history
  <1>5. OneSession' /\ ReportedIsSaved' /\ SignInIsOffered'
    BY DEF OneSession, Whole, ReportedIsSaved, SignInIsOffered, server, history
  <1> QED BY <1>1, <1>2, <1>3, <1>4, <1>5

\* A slot that ends its request is placed, and keeps the rest quiet.
LEMMA FinishStep ==
  ASSUME IInv, NEW s \in Slot, Finish(s),
         UNCHANGED <<phase, setup, file, server, history, crashes>>
  PROVE  IInv'
  <1>1. /\ OthersStay(s) /\ pc'[s] = "idle" /\ local'[s] = NoLocals
        /\ pc' \in [Slot -> Pc] /\ local' \in [Slot -> Locals]
    BY FinishShape DEF IInv
  <1>2. Placed(s)' /\ local'[s].op \notin {"signIn", "report"}
    BY <1>1 DEF Placed, NoLocals
  <1> QED BY <1>1, <1>2, QuietStep

\* So does one that sends its next request.
LEMMA AskStep ==
  ASSUME IInv, NEW s \in Slot, NEW p \in Pc, NEW c \in Camp \union {None},
         Ask(s, p, c),
         p \in Signing => pc[s] \in Signing,
         p \in Asking => c = CampOf[local[s].user],
         UNCHANGED <<phase, setup, file, server, history, crashes>>
  PROVE  IInv'
  <1>1. /\ OthersStay(s)
        /\ pc'[s] = p /\ local'[s].camp = c
        /\ local'[s].op = local[s].op /\ local'[s].user = local[s].user
        /\ local'[s].n = local[s].n
        /\ pc' \in [Slot -> Pc] /\ local' \in [Slot -> Locals]
    BY AskShape DEF IInv
  <1>2. Placed(s)'
    BY <1>1 DEF IInv, PlaceInv, Placed, server
  <1> QED BY <1>1, <1>2, QuietStep

\* What follows ensureRegionProfile keeps the invariant, when the profile left
\* the credentials alone, did not bring the first list back, and left it in
\* force only for a tool call or with an authentication error.
LEMMA ContinueStep ==
  ASSUME IInv, NEW s \in Slot, Continue(s),
         UNCHANGED <<setup, file, applied, strayed, crashes>>,
         UNCHANGED <<keys, campId, clientToken>>,
         profile' \in Profiles, fresh' \in BOOLEAN, authError' \in BOOLEAN,
         tools' \in {"startup", "auth", "cn", "overseas"},
         tools # "startup" => tools' # "startup",
         \/ tools' # "startup" \/ authError'
         \/ local[s].op \in Calls /\ UNCHANGED <<tools, authError>>
  PROVE  IInv'
  <1> USE DEF IInv
  <1>1. /\ OthersStay(s)
        /\ pc' \in [Slot -> Pc] /\ local' \in [Slot -> Locals]
        /\ local'[s] \in {NoLocals, local[s]}
        /\ local'[s].op # "report"
        /\ pc'[s] \notin Asking
        /\ pc'[s] = "login" =>
             local'[s] = local[s] /\ local[s].op = "signIn" /\ tools' # "startup"
        /\ phase' = phase \/ (local[s].op = "start" /\ phase' = "up")
        /\ \/ reported' = reported
           \/ local[s].op = "report" /\ reported' = local[s].n
    BY ContinueShape
  <1>2. local[s].n \in 0..MaxSignIns
    BY DEF TypeOK, Locals
  <1>3. TypeOK'
    BY <1>1, <1>2 DEF TypeOK
  <1>4. Budget'
    <2>1. local'[s].op = "signIn" => local[s].op = "signIn"
      BY <1>1 DEF NoLocals
    <2> QED BY <1>1, <2>1, BudgetKept
  <1>5. PlaceInv'
    <2>1. local'[s].op = "signIn" => local'[s] = local[s]
      BY <1>1 DEF NoLocals
    <2>2. Placed(s)'
      BY <1>1, <2>1 DEF PlaceInv, Placed
    <2> QED BY <1>1, <2>2, PlaceKept
  <1>6. SavedInv'
    BY <1>1, SavedKept
  <1>7. OneSession'
    BY DEF OneSession, Whole
  <1>8. ReportedIsSaved'
    <2>1. local[s].op = "report" => file # None /\ file.n >= local[s].n
      BY DEF SavedInv, SavedAt
    <2> QED BY <1>1, <2>1 DEF ReportedIsSaved
  <1>9. SignInIsOffered'
    BY <1>1 DEF SignInIsOffered, Calls
  <1> QED BY <1>3, <1>4, <1>5, <1>6, <1>7, <1>8, <1>9

-----------------------------------------------------------------------------
(***************************************************************************)
(* The steps.                                                              *)
(***************************************************************************)

\* The invariant holds before the process is first started.
LEMMA InitInv == Init => IInv
  <1> SUFFICES ASSUME Init PROVE IInv
    OBVIOUS
  <1> USE DEF Init
  <1>1. file = None \/ \E u \in User : file = Given(u)
    BY SetupsOK
  <1>2. file \in Credentials \union {None} /\ Whole(file)
        /\ (file # None => file.n = 0)
    BY <1>1, GivenWhole DEF Whole
  <1>3. TypeOK
    <2>1. CnProfile \in Profiles
      BY DEF Profiles, CnProfile
    <2>2. pc \in [Slot -> Pc] /\ local \in [Slot -> Locals]
      BY NoLocalsType DEF Pc
    <2>3. 0 \in 0..MaxSignIns /\ 0 \in 0..MaxCrashes
      BY ConstantsOK
    <2> QED BY <1>2, <2>1, <2>2, <2>3 DEF TypeOK
  <1>4. Budget
    <2>1. Unapplied = {}
      BY DEF Unapplied, NoLocals
    <2> QED BY <2>1, FS_EmptySet, ConstantsOK DEF Budget
  <1>5. PlaceInv
    BY DEF PlaceInv, Placed, NoLocals
  <1>6. SavedInv
    BY <1>2 DEF SavedInv, SavedAt, NoLocals
  <1>7. OneSession /\ ReportedIsSaved /\ SignInIsOffered
    BY <1>2 DEF OneSession, Whole, ReportedIsSaved, SignInIsOffered
  <1> QED BY <1>3, <1>4, <1>5, <1>6, <1>7 DEF IInv

\* Starting loads whole credentials, and offers a sign-in when there are none.
LEMMA StartInv == ASSUME IInv, NEW s \in Slot, Start(s) PROVE IInv'
  <1> USE DEF IInv
  <1>1. /\ Loaded \in Credentials \union {None} /\ Whole(Loaded)
        /\ Loaded # None => /\ Loaded.camp \in Camp /\ Loaded.token \in Token
    <2>1. Loaded \in Credentials \union {None} /\ Whole(Loaded)
      BY LoadedCases, GivenWhole DEF TypeOK, OneSession, Whole
    <2> QED BY <2>1 DEF Credentials
  <1>2. /\ keys' = Loaded
        /\ campId' = IF Loaded = None THEN None ELSE Loaded.camp
        /\ clientToken' = IF Loaded = None THEN None ELSE Loaded.token
        /\ UNCHANGED <<setup, file, profile, fresh, authError, crashes>>
        /\ UNCHANGED <<applied, reported, strayed>>
    BY DEF Start, history
  <1>3. CASE /\ phase' = "starting"
             /\ Goto(s, "arrived")
             /\ local' = [local EXCEPT ![s].op = "start"]
             /\ UNCHANGED tools
    <2>1. /\ OthersStay(s) /\ pc'[s] = "arrived" /\ local'[s].op = "start"
          /\ pc' \in [Slot -> Pc] /\ local' \in [Slot -> Locals]
      BY <1>3 DEF Goto, TypeOK, OthersStay, Locals, Op, Calls, Pc
    <2>2. TypeOK'
      BY <1>1, <1>2, <1>3, <2>1 DEF TypeOK
    <2>3. Budget'
      BY <1>2, <2>1, BudgetKept
    <2>4. PlaceInv'
      <3>1. Placed(s)'
        BY <2>1 DEF Placed
      <3> QED BY <1>3, <2>1, <3>1, PlaceKept
    <2>5. SavedInv'
      BY <1>2, <2>1, SavedKept
    <2>6. OneSession' /\ ReportedIsSaved' /\ SignInIsOffered'
      BY <1>1, <1>2, <1>3
         DEF OneSession, Whole, ReportedIsSaved, SignInIsOffered
    <2> QED BY <2>2, <2>3, <2>4, <2>5, <2>6
  <1>4. CASE phase' = "up" /\ tools' = "auth" /\ UNCHANGED <<pc, local>>
    <2>1. OthersStay(s)
      BY <1>4 DEF OthersStay
    <2>2. TypeOK'
      BY <1>1, <1>2, <1>4 DEF TypeOK
    <2>3. Budget'
      BY <1>2, <1>4, <2>1, BudgetKept
    <2>4. PlaceInv'
      BY <1>4 DEF PlaceInv, Placed
    <2>5. SavedInv'
      BY <1>2, <1>4, <2>1, SavedKept
    <2>6. OneSession' /\ ReportedIsSaved' /\ SignInIsOffered'
      BY <1>1, <1>2, <1>4
         DEF OneSession, Whole, ReportedIsSaved, SignInIsOffered
    <2> QED BY <2>2, <2>3, <2>4, <2>5, <2>6
  <1> QED BY <1>3, <1>4 DEF Start

\* A crash leaves the file, and nothing else but the history.
LEMMA CrashInv == ASSUME IInv, Crash PROVE IInv'
  <1> USE DEF IInv
  <1>1. /\ phase' = "down" /\ crashes' = crashes + 1 /\ crashes < MaxCrashes
        /\ keys' = None /\ campId' = None /\ clientToken' = None
        /\ profile' = CnProfile /\ ~fresh' /\ ~authError' /\ ~strayed'
        /\ fresh' \in BOOLEAN /\ authError' \in BOOLEAN /\ strayed' \in BOOLEAN
        /\ tools' = "startup"
        /\ pc' = [q \in Slot |-> "idle"] /\ local' = [q \in Slot |-> NoLocals]
        /\ UNCHANGED <<setup, file, applied, reported>>
    BY DEF Crash
  <1>2. TypeOK'
    <2>1. CnProfile \in Profiles
      BY DEF Profiles, CnProfile
    <2>2. pc' \in [Slot -> Pc] /\ local' \in [Slot -> Locals]
      BY <1>1, NoLocalsType DEF Pc
    <2>3. crashes' \in 0..MaxCrashes
      BY <1>1, ConstantsOK DEF TypeOK
    <2> QED BY <1>1, <2>1, <2>2, <2>3 DEF TypeOK
  <1>3. Budget'
    <2>1. Unapplied' = {}
      BY <1>1 DEF Unapplied, NoLocals
    <2> QED BY <1>1, <2>1, BudgetShrinks
  <1>4. PlaceInv'
    BY <1>1 DEF PlaceInv, Placed, NoLocals
  <1>5. SavedInv'
    BY <1>1 DEF SavedInv, SavedAt, NoLocals
  <1>6. OneSession' /\ ReportedIsSaved' /\ SignInIsOffered'
    BY <1>1 DEF OneSession, Whole, ReportedIsSaved, SignInIsOffered
  <1> QED BY <1>2, <1>3, <1>4, <1>5, <1>6

\* Nothing depends on the profile's age.
LEMMA ExpireInv == ASSUME IInv, Expire PROVE IInv'
  <1> USE DEF IInv
  <1>1. /\ ~fresh' /\ fresh' \in BOOLEAN
        /\ UNCHANGED <<phase, setup, file, keys, campId, clientToken, profile>>
        /\ UNCHANGED <<authError, tools, pc, local, crashes>>
        /\ UNCHANGED <<applied, reported, strayed>>
    BY DEF Expire, history
  <1>2. TypeOK'
    BY <1>1 DEF TypeOK
  <1>3. Budget'
    <2>1. Unapplied' = Unapplied
      BY <1>1 DEF Unapplied
    <2> QED BY <1>1, <2>1, BudgetShrinks
  <1>4. PlaceInv' /\ SavedInv'
    BY <1>1 DEF PlaceInv, Placed, SavedInv, SavedAt
  <1>5. OneSession' /\ ReportedIsSaved' /\ SignInIsOffered'
    BY <1>1 DEF OneSession, Whole, ReportedIsSaved, SignInIsOffered
  <1> QED BY <1>2, <1>3, <1>4, <1>5

\* A request that arrives takes the place of none; a sign-in is within the
\* budget.
LEMMA ArriveInv == ASSUME IInv, NEW s \in Slot, Arrivals(s) PROVE IInv'
  <1> USE DEF IInv
  <1>1. PICK op \in Calls \union {"list"}, u \in User \union {None} :
          /\ Arrive(s, op, u)
          /\ op = "signIn" =>
               u \in User /\ applied + Cardinality(SigningIn) < MaxSignIns
    BY DEF Arrivals, ArriveList, ArriveCall, Calls
  <1>2. /\ pc' = [pc EXCEPT ![s] = "arrived"]
        /\ local' = [local EXCEPT ![s] = [NoLocals EXCEPT !.op = op, !.user = u]]
        /\ UNCHANGED <<phase, setup, file, server, history, crashes>>
    BY <1>1 DEF Arrive, Goto
  <1>3. [NoLocals EXCEPT !.op = op, !.user = u] \in Locals
    BY NoLocalsType DEF Locals, Op
  <1>4. /\ OthersStay(s) /\ pc'[s] = "arrived"
        /\ local'[s].op = op /\ local'[s].user = u
        /\ pc' \in [Slot -> Pc] /\ local' \in [Slot -> Locals]
    BY <1>2, <1>3 DEF OthersStay, TypeOK, Pc, NoLocals
  <1>5. Placed(s)'
    BY <1>1, <1>4 DEF Placed
  <1>6. op \notin {"signIn", "report"} => IInv'
    BY <1>2, <1>4, <1>5, QuietStep
  <1>7. ASSUME op = "signIn" PROVE IInv'
    <2>1. TypeOK'
      BY <1>2, <1>4 DEF TypeOK, server, history
    <2>2. Budget'
      <3>1. /\ Unapplied' \subseteq SigningIn \union {s}
            /\ SigningIn \in SUBSET Slot /\ SigningIn \union {s} \in SUBSET Slot
        BY <1>4 DEF OthersStay, Unapplied, SigningIn, SignIns
      <3>2. Unapplied' \in SUBSET Slot
        BY <3>1
      <3>3. /\ Cardinality(SigningIn) \in Nat /\ IsFiniteSet(SigningIn)
            /\ Cardinality(SigningIn \union {s}) \in Nat
            /\ IsFiniteSet(SigningIn \union {s})
            /\ Cardinality(Unapplied') \in Nat
        BY <3>1, <3>2, SlotsFinite
      <3>4. Cardinality(SigningIn \union {s}) <= Cardinality(SigningIn) + 1
        BY <3>3, FS_AddElement
      <3>5. Cardinality(Unapplied') <= Cardinality(SigningIn \union {s})
        BY <3>1, <3>3, FS_Subset
      <3>6. applied' = applied /\ applied \in Nat /\ MaxSignIns \in Nat
        BY <1>2, ConstantsOK DEF history, TypeOK
      <3>7. applied + Cardinality(SigningIn) < MaxSignIns
        BY <1>1, <1>7
      <3>8. applied + Cardinality(Unapplied') <= MaxSignIns
        BY <3>3, <3>4, <3>5, <3>6, <3>7
      <3> QED BY <3>6, <3>8 DEF Budget
    <2>3. PlaceInv'
      BY <1>2, <1>4, <1>5, PlaceKept DEF server
    <2>4. SavedInv'
      BY <1>2, <1>4, <1>7, SavedKept DEF history
    <2>5. OneSession' /\ ReportedIsSaved' /\ SignInIsOffered'
      BY <1>2
         DEF OneSession, Whole, ReportedIsSaved, SignInIsOffered, server, history
    <2> QED BY <2>1, <2>2, <2>3, <2>4, <2>5
  <1> QED BY <1>1, <1>6, <1>7 DEF Calls

\* What ensureRegionProfile decides at once, or the request it waits for.
LEMMA EnsureInv == ASSUME IInv, NEW s \in Slot, EnsureProfile(s) PROVE IInv'
  <1>0. TypeOK /\ UNCHANGED <<setup, file, applied, strayed, crashes>>
    BY DEF EnsureProfile, IInv
  <1>1. CASE /\ tools' = "auth"
             /\ UNCHANGED <<keys, campId, clientToken, profile, fresh, authError>>
             /\ Continue(s)
    BY <1>0, <1>1, ContinueStep DEF TypeOK
  <1>2. CASE UpToDate(s) /\ UNCHANGED server /\ Continue(s)
    BY <1>0, <1>2, ContinueStep DEF TypeOK, UpToDate, server
  <1>3. CASE Adopt(CnProfile) /\ Continue(s)
    <2>1. CnProfile \in Profiles /\ CnProfile.region = "cn"
      BY DEF CnProfile, Profiles
    <2> QED BY <1>0, <1>3, <2>1, ContinueStep DEF TypeOK, Adopt
  <1>4. CASE /\ UNCHANGED <<phase, server, reported>>
             /\ Ask(s, "camp", campId)
    <2>1. campId \in Camp \union {None}
      BY <1>0 DEF TypeOK
    <2> QED BY <1>0, <1>4, <2>1, AskStep DEF history, Pc
  <1> QED BY <1>1, <1>2, <1>3, <1>4 DEF EnsureProfile

\* The answer of /camp/get.
LEMMA CampInv == ASSUME IInv, NEW s \in Slot, CampAnswer(s) PROVE IInv'
  <1>0. TypeOK /\ UNCHANGED <<setup, file, applied, strayed, crashes>>
    BY DEF CampAnswer, IInv
  <1>1. local[s].camp \in Camp \union {None}
    BY <1>0 DEF TypeOK, Locals
  <1>2. CASE Goto(s, "settings") /\ UNCHANGED <<phase, server, local, reported>>
    <2>1. /\ OthersStay(s) /\ pc'[s] = "settings" /\ local' = local
          /\ pc' \in [Slot -> Pc] /\ local' \in [Slot -> Locals]
      BY <1>0, <1>2 DEF OthersStay, Goto, TypeOK, Pc
    <2>2. Placed(s)'
      BY <2>1 DEF IInv, PlaceInv, Placed
    <2> QED BY <1>0, <1>2, <2>1, <2>2, QuietStep DEF history
  <1>3. CASE Adopt([region |-> "cn", camp |-> local[s].camp]) /\ Continue(s)
    <2>1. [region |-> "cn", camp |-> local[s].camp] \in Profiles
      BY <1>1 DEF Profiles
    <2> QED BY <1>0, <1>3, <2>1, ContinueStep DEF TypeOK, Adopt
  <1>4. CASE /\ authError' = TRUE
             /\ UNCHANGED <<keys, campId, clientToken, profile, fresh, tools>>
             /\ Continue(s)
    BY <1>0, <1>4, ContinueStep DEF TypeOK
  <1> QED BY <1>2, <1>3, <1>4 DEF CampAnswer

\* The settings of an overseas property.
LEMMA SettingsInv == ASSUME IInv, NEW s \in Slot, SettingsAnswer(s) PROVE IInv'
  <1>1. /\ TypeOK /\ UNCHANGED <<setup, file, applied, strayed, crashes>>
        /\ Adopt([region |-> "overseas", camp |-> local[s].camp]) /\ Continue(s)
    BY DEF SettingsAnswer, IInv
  <1>2. [region |-> "overseas", camp |-> local[s].camp] \in Profiles
    BY <1>1 DEF TypeOK, Locals, Profiles
  <1> QED BY <1>1, <1>2, ContinueStep DEF TypeOK, Adopt

\* The steps of a sign-in before it has its secret.
LEMMA LoginInv == ASSUME IInv, NEW s \in Slot, LoginAnswer(s) PROVE IInv'
  <1> USE DEF IInv
  <1>1. local[s].op = "signIn" /\ tools # "startup" /\ local[s].user \in User
    BY DEF LoginAnswer, PlaceInv, Placed
  <1>2. /\ clientToken' = Login(local[s].user)
        /\ clientToken' \in Token /\ clientToken' # None
        /\ Account(clientToken') = CampOf[local[s].user]
    BY <1>1, NoneOK DEF LoginAnswer, LoadFirstCampId, Token, Account, Login
  <1>3. CampOf[local[s].user] \in Camp
    BY <1>1, ConstantsOK
  <1>4. /\ Ask(s, "camps", CampOf[local[s].user]) /\ strayed'
        /\ strayed' \in BOOLEAN
        /\ UNCHANGED <<phase, setup, file, keys, campId, profile, fresh>>
        /\ UNCHANGED <<authError, tools, applied, reported, crashes>>
    BY <1>2 DEF LoginAnswer
  <1>5. /\ OthersStay(s)
        /\ pc'[s] = "camps" /\ local'[s].camp = CampOf[local[s].user]
        /\ local'[s].op = "signIn" /\ local'[s].user = local[s].user
        /\ pc' \in [Slot -> Pc] /\ local' \in [Slot -> Locals]
    BY <1>1, <1>3, <1>4, AskShape DEF Pc
  <1>6. TypeOK'
    BY <1>2, <1>4, <1>5 DEF TypeOK
  <1>7. Budget'
    BY <1>1, <1>4, <1>5, BudgetKept
  <1>8. PlaceInv'
    <2>1. Placed(s)'
      BY <1>1, <1>4, <1>5 DEF Placed
    <2> QED BY <1>4, <1>5, <2>1, PlaceKept
  <1>9. SavedInv'
    BY <1>4, <1>5, SavedKept
  <1>10. OneSession' /\ ReportedIsSaved' /\ SignInIsOffered'
    BY <1>4 DEF OneSession, Whole, ReportedIsSaved, SignInIsOffered
  <1> QED BY <1>6, <1>7, <1>8, <1>9, <1>10

\* The property and its secret are asked for.
LEMMA AskingInv ==
  ASSUME IInv, NEW s \in Slot, CampsAnswer(s) \/ SecretMissing(s) PROVE IInv'
  <1>1. pc[s] \in {"camps", "secret"}
    BY DEF CampsAnswer, SecretMissing
  <1>2. local[s].user \in User /\ local[s].camp = CampOf[local[s].user]
    BY <1>1 DEF IInv, PlaceInv, Placed
  <1>3. local[s].camp \in Camp \union {None}
    BY <1>2, ConstantsOK
  <1>4. UNCHANGED <<phase, setup, file, server, history, crashes>>
    BY DEF CampsAnswer, SecretMissing
  <1>5. PICK p \in {"secret", "generate"} : Ask(s, p, local[s].camp)
    BY DEF CampsAnswer, SecretMissing
  <1> QED BY <1>1, <1>2, <1>3, <1>4, <1>5, AskStep DEF Pc

\* The secret is applied: the credentials change as a whole, and the sign-in
\* goes on to its report only when they are on disk.
LEMMA SecretInv == ASSUME IInv, NEW s \in Slot, SecretAnswer(s) PROVE IInv'
  <1> USE DEF IInv
  <1> DEFINE new == [token |-> SessionToken(s), camp |-> local[s].camp,
                     by |-> local[s].user, n |-> applied + 1]
  <1>1. /\ s \in Unapplied /\ tools # "startup" /\ local[s].user \in User
        /\ local[s].camp = CampOf[local[s].user] /\ local[s].camp \in Camp
    <2>1. local[s].op = "signIn" /\ tools # "startup"
          /\ local[s].camp = CampOf[local[s].user] /\ local[s].user \in User
      BY DEF SecretAnswer, PlaceInv, Placed
    <2> QED BY <2>1, ConstantsOK DEF Unapplied
  <1>2. applied + 1 \in 1..MaxSignIns
    BY <1>1, BudgetApplied
  <1>3. /\ new \in Credentials /\ new # None /\ Whole(new)
        /\ new.token \in Token /\ new.camp \in Camp /\ new.n = applied + 1
    <2>1. SessionToken(s) \in Token
      BY <1>1 DEF SessionToken, Token
    <2>2. new \in Credentials
      BY <1>1, <1>2, <2>1 DEF Credentials
    <2> QED BY <1>1, <2>1, <2>2, NoneOK DEF Whole, SessionToken
  <1>4. /\ keys' = new /\ campId' = new.camp /\ clientToken' = new.token
        /\ applied' = applied + 1 /\ ~strayed' /\ strayed' \in BOOLEAN
        /\ UNCHANGED <<phase, setup, profile, tools, reported, crashes>>
    BY DEF SecretAnswer, TakeSession
  <1>5. applied \in Nat /\ reported \in Nat
    BY ConstantsOK DEF TypeOK
  <1>6. CASE /\ file' = new
             /\ authError' = FALSE
             /\ fresh' = FALSE
             /\ Goto(s, "camp")
             /\ local' = [local EXCEPT ![s].op = "report", ![s].n = new.n,
                           ![s].ok = Accepted(clientToken', new.camp)]
    <2>1. /\ OthersStay(s) /\ pc'[s] = "camp" /\ local'[s].op = "report"
          /\ local'[s].n = new.n
          /\ pc' \in [Slot -> Pc] /\ local' \in [Slot -> Locals]
      <3>1. Accepted(clientToken', new.camp) \in BOOLEAN
        BY DEF Accepted
      <3>2. new.n \in 0..MaxSignIns
        BY <1>2, <1>3, <1>5
      <3>3. local \in [Slot -> Locals] /\ pc \in [Slot -> Pc]
        BY DEF TypeOK
      <3>4. PICK ok \in BOOLEAN, m \in 0..MaxSignIns :
              /\ local' = [local EXCEPT ![s].op = "report", ![s].n = m, ![s].ok = ok]
              /\ m = new.n
        BY <1>6, <3>1, <3>2
      <3>5. pc' = [pc EXCEPT ![s] = "camp"]
        BY <1>6 DEF Goto
      <3> HIDE DEF new
      <3>6. /\ \A q \in Slot \ {s} : local'[q] = local[q]
            /\ local'[s].op = "report" /\ local'[s].n = m
            /\ local' \in [Slot -> Locals]
        <4> DEFINE then == [local[s] EXCEPT !.op = "report", !.n = m, !.ok = ok]
        <4>1. then \in Locals /\ then.op = "report" /\ then.n = m
          <5>1. local[s] \in Locals
            BY <3>3
          <5> QED BY <5>1 DEF Locals, Op
        <4>2. local' = [local EXCEPT ![s] = then]
          BY <3>3, <3>4
        <4> HIDE DEF then
        <4> QED BY <3>3, <4>1, <4>2
      <3> QED BY <3>3, <3>4, <3>5, <3>6 DEF OthersStay, Pc
    <2> HIDE DEF new
    <2>2. TypeOK'
      <3>1. applied' \in 0..MaxSignIns
        BY <1>2, <1>4, <1>5
      <3> QED BY <1>3, <1>4, <1>6, <2>1, <3>1 DEF TypeOK
    <2>3. Budget'
      <3>1. Unapplied' = Unapplied \ {s}
        BY <1>1, <2>1 DEF Unapplied, OthersStay
      <3> QED BY <1>1, <1>4, <3>1, BudgetApplied
    <2>4. PlaceInv'
      <3>1. Placed(s)'
        BY <2>1 DEF Placed
      <3> QED BY <1>4, <2>1, <3>1, PlaceKept
    <2>5. SavedInv'
      <3>1. file' # None /\ file'.n = applied'
        BY <1>3, <1>4, <1>6
      <3>2. ASSUME NEW q \in Slot, local'[q].op = "report"
            PROVE  applied' >= local'[q].n
        <4>1. CASE q = s
          BY <1>3, <1>4, <1>5, <2>1, <4>1
        <4>2. CASE q # s
          <5>1. /\ local'[q] = local[q] /\ local[q].n \in Nat
                /\ file # None /\ file.n >= local[q].n /\ file.n <= applied
            BY <2>1, <3>2, <4>2, ConstantsOK
               DEF OthersStay, SavedInv, SavedAt, TypeOK, Locals
          <5>2. file.n \in Nat
            BY <5>1, ConstantsOK DEF TypeOK, Credentials
          <5> QED BY <1>4, <1>5, <5>1, <5>2
        <4> QED BY <4>1, <4>2
      <3>3. applied' \in Nat
        BY <1>4, <1>5
      <3> QED BY <3>1, <3>2, <3>3 DEF SavedInv, SavedAt
    <2>6. ReportedIsSaved'
      <3>1. reported > 0 => file # None /\ file.n >= reported /\ file.n <= applied
        BY DEF ReportedIsSaved, SavedInv
      <3>2. file # None => file.n \in Nat
        BY ConstantsOK DEF TypeOK, Credentials
      <3>3. reported' = reported /\ file' # None /\ file'.n = applied + 1
        BY <1>3, <1>4, <1>6
      <3>4. reported > 0 => applied + 1 >= reported
        BY <1>5, <3>1, <3>2
      <3> QED BY <3>3, <3>4 DEF ReportedIsSaved
    <2>7. OneSession'
      BY <1>3, <1>4, <1>6 DEF OneSession, Whole
    <2>8. SignInIsOffered'
      BY <1>1, <1>4 DEF SignInIsOffered
    <2> QED BY <2>2, <2>3, <2>4, <2>5, <2>6, <2>7, <2>8
  <1>7. CASE Finish(s) /\ UNCHANGED <<file, authError, fresh>>
    <2>1. /\ OthersStay(s) /\ pc'[s] = "idle" /\ local'[s] = NoLocals
          /\ pc' \in [Slot -> Pc] /\ local' \in [Slot -> Locals]
      BY <1>7, FinishShape
    <2> HIDE DEF new
    <2>2. TypeOK'
      <3>1. applied' \in 0..MaxSignIns
        BY <1>2, <1>4, <1>5
      <3> QED BY <1>3, <1>4, <1>7, <2>1, <3>1 DEF TypeOK
    <2>3. Budget'
      <3>1. Unapplied' = Unapplied \ {s}
        BY <1>1, <2>1 DEF Unapplied, OthersStay, NoLocals
      <3> QED BY <1>1, <1>4, <3>1, BudgetApplied
    <2>4. PlaceInv'
      <3>1. Placed(s)'
        BY <2>1 DEF Placed, NoLocals
      <3> QED BY <1>4, <2>1, <3>1, PlaceKept
    <2>5. SavedInv'
      <3>1. file' # None => file'.n <= applied'
        <4>1. file # None => file.n <= applied /\ file.n \in Nat
          BY ConstantsOK DEF SavedInv, TypeOK, Credentials
        <4> QED BY <1>4, <1>5, <1>7, <4>1
      <3>2. ASSUME NEW q \in Slot, local'[q].op = "report"
            PROVE  file' # None /\ file'.n >= local'[q].n
        <4>1. local'[q] = local[q]
          BY <2>1, <3>2 DEF OthersStay, NoLocals
        <4> QED BY <1>7, <3>2, <4>1 DEF SavedInv, SavedAt
      <3> QED BY <3>1, <3>2 DEF SavedInv, SavedAt
    <2>6. OneSession'
      BY <1>3, <1>4, <1>7 DEF OneSession, Whole
    <2>7. ReportedIsSaved' /\ SignInIsOffered'
      BY <1>1, <1>4, <1>7 DEF ReportedIsSaved, SignInIsOffered
    <2> QED BY <2>2, <2>3, <2>4, <2>5, <2>6, <2>7
  <1> QED BY <1>6, <1>7 DEF SecretAnswer, KeepOnDisk

\* Every step, and a step that changes nothing, keeps the invariant.
LEMMA NextInv == IInv /\ [Next]_vars => IInv'
  <1> SUFFICES ASSUME IInv, [Next]_vars PROVE IInv'
    OBVIOUS
  <1>1. CASE Crash \/ Expire
    BY <1>1, CrashInv, ExpireInv
  <1>2. ASSUME NEW s \in Slot, Start(s) \/ Arrivals(s) \/ Answer(s) PROVE IInv'
    <2>1. CASE Start(s) \/ Arrivals(s)
      BY <2>1, StartInv, ArriveInv
    <2>2. CASE EnsureProfile(s) \/ CampAnswer(s) \/ SettingsAnswer(s)
      BY <2>2, EnsureInv, CampInv, SettingsInv
    <2>3. CASE ToolReturns(s) \/ SignInFails(s)
      BY <2>3, FinishStep DEF ToolReturns, SignInFails
    <2>4. CASE LoginAnswer(s) \/ CampsAnswer(s) \/ SecretMissing(s)
      BY <2>4, LoginInv, AskingInv
    <2>5. CASE SecretAnswer(s)
      BY <2>5, SecretInv
    <2> QED BY <1>2, <2>1, <2>2, <2>3, <2>4, <2>5 DEF Answer
  <1>3. CASE UNCHANGED vars
    <2>1. /\ UNCHANGED <<phase, setup, file, keys, campId, clientToken, profile>>
          /\ UNCHANGED <<fresh, authError, tools, pc, local, crashes>>
          /\ UNCHANGED <<applied, reported, strayed>>
      BY <1>3 DEF vars, server, history
    <2>2. TypeOK'
      BY <2>1 DEF IInv, TypeOK
    <2>3. Budget'
      BY <2>1 DEF IInv, Budget, Unapplied
    <2>4. PlaceInv' /\ SavedInv'
      BY <2>1 DEF IInv, PlaceInv, Placed, SavedInv, SavedAt
    <2>5. OneSession' /\ ReportedIsSaved' /\ SignInIsOffered'
      BY <2>1 DEF IInv, OneSession, Whole, ReportedIsSaved, SignInIsOffered
    <2> QED BY <2>2, <2>3, <2>4, <2>5 DEF IInv
  <1> QED BY <1>1, <1>2, <1>3 DEF Next

-----------------------------------------------------------------------------
(***************************************************************************)
(* The theorems.                                                           *)
(***************************************************************************)

\* The inductive invariant holds in every reachable state.
THEOREM Inductive == Spec => []IInv
  BY InitInv, NextInv, PTL DEF Spec

\* Every variable keeps its type; the numbering of credentials stays within
\* the bound because a sign-in is let in only while there is room for it.
THEOREM SessionTypes == Spec => []TypeOK
  BY Inductive, PTL DEF IInv

\* However sign-ins overlap and fail, the credentials in memory and on disk
\* are each one user's whole credentials, and the client's token is theirs
\* unless a sign-in has put its login token there since.
THEOREM SessionsDoNotMix == Spec => []OneSession
  BY Inductive, PTL DEF IInv

\* A sign-in reported done is on disk, or a later one is.
THEOREM SavedBeforeReported == Spec => []ReportedIsSaved
  BY Inductive, PTL DEF IInv

\* A client without sign-in tools has credentials that Hudson refuses.
THEOREM SignInStaysReachable == Spec => []SignInIsOffered
  BY Inductive, PTL DEF IInv
=============================================================================
