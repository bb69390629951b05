------------------------- MODULE TokenFamily_proofs -------------------------
(***************************************************************************)
(* The safety invariants of TokenFamily hold for every number of           *)
(* concurrent requests, attempts and remembered tokens.                    *)
(*                                                                         *)
(* The layers, each inductive given the ones before it:                    *)
(*   TypeOK       the types;                                               *)
(*   CodeInv      the code is consumed by one request, which alone can     *)
(*                make the family;                                         *)
(*   HistoryInv   the history holds exactly the pairs before the current   *)
(*                one, and a rotation at work on an older record will fail *)
(*                and find its token in the history;                       *)
(*   DoomInv      whoever is past the decision over a replayed or revoked  *)
(*                token has seen the grant end, and it never comes back;   *)
(*   ReuseInv     two rotations never succeed with one token;              *)
(*   ChainInv     what is handed out was made, and a record that was not   *)
(*                made has not expired.                                    *)
(* With the first four and the last, every step is a step of TokenChain or *)
(* none.                                                                   *)
(***************************************************************************)
EXTENDS TokenFamily, FiniteSetTheorems, TLAPS

-----------------------------------------------------------------------------
(***************************************************************************)
(* What follows from the chain that the record implements, stated on the   *)
(* record.                                                                 *)
(***************************************************************************)

\* Every refresh token that was handed out, except the current one, is known
\* as used: a replay is never taken for an unknown token.
OldTokensAreKnown ==
  \A t \in given : t # family.pair => t \in family.used

\* The history never grows beyond what parse accepts, or neither replay nor
\* revocation could read the family again.
FamilyStaysReadable == Cardinality(family.used) <= MaxUsed

\* The mark in Redis never runs ahead of the grant in PostgreSQL: if the
\* second write fails, the decisive one has been made.
MarkFollowsGrant == family.revoked => ~grantActive

-----------------------------------------------------------------------------
AtCode == {"approve", "store"}

\* One request at most has consumed the code and not yet made the family.
CodeInv ==
  /\ issued = IF family.made THEN 1 ELSE 0
  /\ \A r \in Request : pc[r] \in AtCode => code # "stored" /\ ~family.made
  /\ \A q, r \in Request : pc[q] \in AtCode /\ pc[r] \in AtCode => q = r
  /\ code = "stored" => ~family.made

-----------------------------------------------------------------------------
\* The used tokens are the pairs before the current one, at most MaxUsed.
Chain ==
  /\ family.used = 0 .. (family.pair - 1)
  /\ family.pair <= MaxUsed
  /\ given \subseteq 0 .. family.pair
  /\ ~family.made => family = NoFamily

\* A refresh that has found its token current, on its first attempt.
RotatorIsCurrent(r) ==
  pc[r] \in Rotating =>
    LET f == local[r].f IN
    /\ local[r].op = "refresh" /\ local[r].attempt = 1
    /\ local[r].token = f.pair
    /\ f.made /\ ~f.revoked
    /\ f.used = 0 .. (f.pair - 1)
    /\ f.pair <= family.pair /\ family.made

\* The history had room when it was looked at.
RotatorHasRoom(r) == pc[r] = "rotate" => local[r].f.pair < MaxUsed

\* A refresh that has rotated holds a token of the past.
RotatedIsPast(r) ==
  pc[r] = "granted" /\ local[r].op = "refresh" =>
    /\ local[r].token = local[r].f.pair
    /\ local[r].f.pair < family.pair

\* Who ends a grant has read its family; a replay is known as one, and stays
\* so.
ReplayIsKnown(r) ==
  pc[r] \in Ending =>
    /\ family.made
    /\ local[r].op = "refresh" => local[r].token \in family.used

\* A refresh that comes back for another attempt will not find its token
\* current again.
RetryIsTooLate(r) ==
  pc[r] = "family" /\ local[r].op = "refresh" /\ local[r].attempt # 1 =>
    \/ ~familyLive
    \/ family.revoked
    \/ local[r].token \in family.used

\* A refresh is never at a place of the other operations.
PlaceFitsOperation(r) ==
  pc[r] \in Redeeming \union {"check"} => local[r].op # "refresh"

Placed(r) ==
  /\ RotatorIsCurrent(r) /\ RotatorHasRoom(r) /\ RotatedIsPast(r)
  /\ ReplayIsKnown(r) /\ RetryIsTooLate(r) /\ PlaceFitsOperation(r)

HistoryInv == Chain /\ \A r \in Request : Placed(r)

-----------------------------------------------------------------------------
\* Past the decision the grant has ended, and nobody who began after it was
\* answered is about to be granted anything.
DoomedAt(r) ==
  /\ pc[r] = "mark" => ~grantActive
  /\ local[r].ending /\ pc[r] \notin {"owner", "punish"} => ~grantActive
  /\ local[r].late => ~grantActive

LateGetsNothing(r) ==
  local[r].late => pc[r] \notin {"store", "rotate", "granted"}

DoomInv ==
  /\ MarkFollowsGrant
  /\ doomed => ~grantActive
  /\ \A r \in Request : DoomedAt(r) /\ LateGetsNothing(r)

-----------------------------------------------------------------------------
HasRotated(r) == pc[r] = "granted" /\ local[r].op = "refresh"

\* While the grant lasts, a token is answered for once.
AnsweredOnce ==
  /\ repeated = {}
  /\ \A t \in answered : t < family.pair
  /\ \A r \in Request : HasRotated(r) => local[r].token \notin answered

\* Two rotations never succeed with one token.
RotationsDiffer ==
  \A q, r \in Request :
    HasRotated(q) /\ HasRotated(r) /\ local[q].token = local[r].token => q = r

ReuseInv == (grantActive => AnsweredOnce) /\ RotationsDiffer

-----------------------------------------------------------------------------
\* The sets of pc values, for leaves that compare them.
USE DEF Redeeming, Rotating, Ending, AtCode

\* The idle values have their type.
LEMMA NoLocalsType == NoLocals \in Locals
  BY DEF NoLocals, Locals, NoFamily, FamilyRow, Operations

\* So has the record that does not exist.
LEMMA NoFamilyType == NoFamily \in FamilyRow
  BY DEF NoFamily, FamilyRow

\* Rotating and marking keep the record's type, and so does making it.
LEMMA FamilyUpdate ==
  ASSUME NEW f \in FamilyRow
  PROVE  /\ Rotated(f) \in FamilyRow
         /\ [f EXCEPT !.revoked = TRUE] \in FamilyRow
         /\ [f EXCEPT !.made = TRUE] \in FamilyRow
  <1>1. Rotated(f) \in FamilyRow
    <2>1. f.pair + 1 \in Nat /\ f.used \union {f.pair} \in SUBSET Nat
      BY DEF FamilyRow
    <2> QED BY <2>1 DEF Rotated, FamilyRow
  <1>2. [f EXCEPT !.revoked = TRUE] \in FamilyRow
    BY DEF FamilyRow
  <1>3. [f EXCEPT !.made = TRUE] \in FamilyRow
    BY DEF FamilyRow
  <1> QED BY <1>1, <1>2, <1>3

\* Leaving, telling and retrying keep the types of what they change.
LEMMA LeaveType ==
  ASSUME TypeOK, NEW r \in Request, Leave(r)
  PROVE  pc' \in [Request -> Pc] /\ local' \in [Request -> Locals]
  BY NoLocalsType DEF TypeOK, Leave, Goto, Pc

\* Ending a request keeps the types.
LEMMA EndType ==
  ASSUME TypeOK, NEW r \in Request, Refuse(r) \/ Conclude(r)
  PROVE  /\ pc' \in [Request -> Pc] /\ local' \in [Request -> Locals]
         /\ answered' \in SUBSET Nat /\ repeated' \in SUBSET Nat
         /\ doomed' \in BOOLEAN
  <1>1. pc' \in [Request -> Pc] /\ local' \in [Request -> Locals]
    BY LeaveType DEF Refuse, Conclude, End
  <1>2. local[r] \in Locals
    BY DEF TypeOK
  <1>3. doomed' \in BOOLEAN
    BY DEF Refuse, Conclude, End
  <1>4. answered' \in SUBSET Nat /\ repeated' \in SUBSET Nat
    BY <1>2 DEF TypeOK, Refuse, Conclude, Tell, Locals
  <1> QED BY <1>1, <1>3, <1>4

\* So does another attempt.
LEMMA RetryType ==
  ASSUME TypeOK, NEW r \in Request, Retry(r)
  PROVE  /\ pc' \in [Request -> Pc] /\ local' \in [Request -> Locals]
         /\ answered' \in SUBSET Nat /\ repeated' \in SUBSET Nat
         /\ doomed' \in BOOLEAN
  <1>1. CASE Conclude(r)
    BY <1>1, EndType
  <1>2. CASE ~Conclude(r)
    <2>1. local[r] \in Locals /\ NoFamily \in FamilyRow
      BY NoFamilyType DEF TypeOK
    <2>2. [local[r] EXCEPT !.attempt = local[r].attempt + 1] \in Locals
      BY <2>1 DEF Locals
    <2> QED BY <1>2, <2>2 DEF TypeOK, Retry, Goto, Pc
  <1> QED BY <1>1, <1>2

\* Every step keeps the types.
LEMMA TypeStep == TypeOK /\ [Next]_vars => TypeOK'
  <1> SUFFICES ASSUME TypeOK, [Next]_vars PROVE TypeOK'
    OBVIOUS
  <1> USE NoLocalsType, EndType DEF Goto, Proceed, stores, ghosts
  <1>1. ASSUME NEW r \in Request, Arrive(r) PROVE TypeOK'
    <2>1. ASSUME NEW op \in Operations, NEW kind \in {"at", "rt"},
                 NEW t \in Nat, NEW p \in {"code", "family"},
                 Begin(r, op, kind, t, p)
          PROVE  TypeOK'
      <3>1. [NoLocals EXCEPT !.op = op, !.kind = kind, !.token = t,
               !.attempt = 1, !.late = doomed] \in Locals
        BY DEF TypeOK, Locals
      <3> QED BY <2>1, <3>1 DEF TypeOK, Begin, Pc
    <2>2. given \subseteq Nat
      BY DEF TypeOK
    <2> QED BY <1>1, <2>1, <2>2 DEF Arrive, Operations
  <1>2. ASSUME NEW r \in Request, ReadCode(r) PROVE TypeOK'
    BY <1>2 DEF TypeOK, ReadCode, Pc
  <1>3. ASSUME NEW r \in Request, Consume(r) PROVE TypeOK'
    BY <1>3 DEF TypeOK, Consume, Pc
  <1>4. ASSUME NEW r \in Request, Approve(r) PROVE TypeOK'
    BY <1>4 DEF TypeOK, Approve, Pc
  <1>5. ASSUME NEW r \in Request, StoreFamily(r) PROVE TypeOK'
    <2>1. [NoFamily EXCEPT !.made = TRUE] \in FamilyRow
      BY NoFamilyType, FamilyUpdate
    <2> QED BY <1>5, <2>1 DEF TypeOK, StoreFamily, Pc
  <1>6. ASSUME NEW r \in Request, ReadForRefresh(r) PROVE TypeOK'
    <2>1. local[r] \in Locals /\ family \in FamilyRow
      BY DEF TypeOK
    <2>2. [local[r] EXCEPT !.f = family] \in Locals
      BY <2>1 DEF Locals
    <2>3. [[local[r] EXCEPT !.f = family] EXCEPT !.ending = TRUE] \in Locals
      BY <2>1 DEF Locals
    <2>4. /\ pc' \in [Request -> Pc] /\ local' \in [Request -> Locals]
          /\ answered' \in SUBSET Nat /\ repeated' \in SUBSET Nat
          /\ doomed' \in BOOLEAN
      BY <1>6, <2>2, <2>3 DEF TypeOK, ReadForRefresh, Pc
    <2> QED BY <1>6, <2>4 DEF TypeOK, ReadForRefresh
  <1>7. ASSUME NEW r \in Request, ReadForVerify(r) PROVE TypeOK'
    BY <1>7 DEF TypeOK, ReadForVerify, Pc
  <1>8. ASSUME NEW r \in Request, ReadForRevoke(r) PROVE TypeOK'
    <2>1. local[r] \in Locals /\ family \in FamilyRow
      BY DEF TypeOK
    <2>2. [local[r] EXCEPT !.f = family, !.ending = TRUE] \in Locals
      BY <2>1 DEF Locals
    <2>3. /\ pc' \in [Request -> Pc] /\ local' \in [Request -> Locals]
          /\ answered' \in SUBSET Nat /\ repeated' \in SUBSET Nat
          /\ doomed' \in BOOLEAN
      BY <1>8, <2>2 DEF TypeOK, ReadForRevoke, Pc
    <2> QED BY <1>8, <2>3 DEF TypeOK, ReadForRevoke
  <1>9. ASSUME NEW r \in Request, Check(r) PROVE TypeOK'
    BY <1>9 DEF TypeOK, Check, Pc
  <1>10. ASSUME NEW r \in Request, Reapprove(r) PROVE TypeOK'
    BY <1>10 DEF TypeOK, Reapprove, Pc
  <1>11. ASSUME NEW r \in Request, Rotate(r) PROVE TypeOK'
    <2>1. local[r] \in Locals /\ local[r].f \in FamilyRow
      BY DEF TypeOK, Locals
    <2>2. Rotated(local[r].f) \in FamilyRow
      BY <2>1, FamilyUpdate
    <2>3. CASE FamilyUnchanged(r)
      BY <1>11, <2>2, <2>3 DEF TypeOK, Rotate, Pc
    <2>4. CASE ~FamilyUnchanged(r)
      BY <1>11, <2>4, RetryType DEF TypeOK, Rotate
    <2> QED BY <2>3, <2>4
  <1>12. ASSUME NEW r \in Request, Owner(r) PROVE TypeOK'
    BY <1>12 DEF TypeOK, Owner, ToMark, Pc
  <1>13. ASSUME NEW r \in Request, Punish(r) PROVE TypeOK'
    BY <1>13 DEF TypeOK, Punish, ToMark, Pc
  <1>14. ASSUME NEW r \in Request, Mark(r) PROVE TypeOK'
    <2>1. CASE FamilyUnchanged(r)
      <3>1. [family EXCEPT !.revoked = TRUE] \in FamilyRow
        BY FamilyUpdate DEF TypeOK
      <3> QED BY <1>14, <2>1, <3>1 DEF TypeOK, Mark
    <2>2. CASE ~FamilyUnchanged(r)
      BY <1>14, <2>2, RetryType DEF TypeOK, Mark
    <2> QED BY <2>1, <2>2
  <1>15. ASSUME NEW r \in Request, Answer(r) PROVE TypeOK'
    <2>1. local[r].f.pair + 1 \in Nat
      BY DEF TypeOK, Locals, FamilyRow
    <2>2. given' \in SUBSET Nat
      BY <1>15, <2>1 DEF TypeOK, Answer
    <2> QED BY <1>15, <2>2 DEF TypeOK, Answer
  <1>16. ASSUME NEW r \in Request, Fail(r) PROVE TypeOK'
    BY <1>16, LeaveType DEF TypeOK, Fail
  <1>17. CASE Environment
    BY <1>17 DEF TypeOK, Environment, CodeExpires, GrantExpires, FamilyExpires,
                 AccessExpires
  <1>18. CASE UNCHANGED vars
    BY <1>18 DEF TypeOK, vars
  <1> QED
    BY <1>1, <1>2, <1>3, <1>4, <1>5, <1>6, <1>7, <1>8, <1>9, <1>10, <1>11,
       <1>12, <1>13, <1>14, <1>15, <1>16, <1>17, <1>18 DEF Next, Step

\* Every variable keeps its type, for all values of the constants.
THEOREM TypeCorrect == Spec => []TypeOK
  <1>1. Init => TypeOK
    <2> SUFFICES ASSUME Init PROVE TypeOK
      OBVIOUS
    <2>1. pc \in [Request -> Pc] /\ local \in [Request -> Locals]
      BY NoLocalsType DEF Init, Pc
    <2> QED BY <2>1, NoFamilyType DEF Init, TypeOK
  <1> QED BY <1>1, TypeStep, PTL DEF Spec

-----------------------------------------------------------------------------
(***************************************************************************)
(* What a step does to the requests.                                       *)
(***************************************************************************)

\* An arrival only places the request.
LEMMA Arrival ==
  ASSUME TypeOK, NEW r \in Request, Arrive(r)
  PROVE  /\ pc[r] = "idle" /\ pc'[r] \in {"code", "family"}
         /\ local'[r].attempt = 1 /\ ~local'[r].ending
         /\ local'[r].late = doomed
         /\ pc'[r] = "code" => local'[r].op = "redeem"
         /\ \A q \in Request \ {r} : pc'[q] = pc[q] /\ local'[q] = local[q]
         /\ UNCHANGED <<stores, ghosts>>
  <1> DEFINE Effect ==
        /\ pc[r] = "idle" /\ pc'[r] \in {"code", "family"}
        /\ local'[r].attempt = 1 /\ ~local'[r].ending
        /\ local'[r].late = doomed
        /\ pc'[r] = "code" => local'[r].op = "redeem"
        /\ \A q \in Request \ {r} : pc'[q] = pc[q] /\ local'[q] = local[q]
        /\ UNCHANGED <<stores, ghosts>>
  <1>1. ASSUME NEW op, NEW kind, NEW t, NEW p \in {"code", "family"},
               Begin(r, op, kind, t, p), p = "code" => op = "redeem"
        PROVE  Effect
    BY <1>1 DEF TypeOK, Begin, Goto, NoLocals
  <1>2. Effect
    <2> HIDE DEF Effect
    <2> QED BY <1>1 DEF Arrive
  <1> QED BY <1>2

\* Only the request that moves changes its place and its locals.
LEMMA OneMoves ==
  ASSUME TypeOK, NEW r \in Request, Arrive(r) \/ Step(r) \/ Fail(r)
  PROVE  \A q \in Request \ {r} : pc'[q] = pc[q] /\ local'[q] = local[q]
  <1> USE DEF TypeOK, Goto, Proceed, Leave, End, Refuse, Conclude
  <1>1. CASE Arrive(r)
    BY <1>1, Arrival
  <1>2. CASE ReadCode(r) \/ Consume(r) \/ Approve(r) \/ StoreFamily(r)
    BY <1>2 DEF ReadCode, Consume, Approve, StoreFamily
  <1>3. CASE ReadForRefresh(r)
    BY <1>3 DEF ReadForRefresh
  <1>4. CASE ReadForVerify(r) \/ ReadForRevoke(r) \/ Check(r) \/ Reapprove(r)
    BY <1>4 DEF ReadForVerify, ReadForRevoke, Check, Reapprove
  <1>5. CASE Rotate(r)
    BY <1>5 DEF Rotate, Retry
  <1>6. CASE Owner(r) \/ Punish(r)
    BY <1>6 DEF Owner, Punish, ToMark
  <1>7. CASE Mark(r)
    BY <1>7 DEF Mark, Retry
  <1>8. CASE Answer(r) \/ Fail(r)
    BY <1>8 DEF Answer, Fail
  <1> QED BY <1>1, <1>2, <1>3, <1>4, <1>5, <1>6, <1>7, <1>8 DEF Step

\* Whoever leaves is idle, and forgets what it was about.
LEMMA LeaverIsIdle ==
  ASSUME TypeOK, NEW r \in Request, Leave(r) \/ End(r) \/ Refuse(r) \/ Conclude(r)
  PROVE  pc'[r] = "idle" /\ local'[r] = NoLocals
  BY DEF TypeOK, Leave, End, Refuse, Conclude, Goto

\* The passing of time moves no request.
LEMMA TimeMovesNobody ==
  ASSUME Environment
  PROVE  UNCHANGED <<pc, local, ghosts>>
  BY DEF Environment, CodeExpires, GrantExpires, FamilyExpires, AccessExpires

-----------------------------------------------------------------------------
(***************************************************************************)
(* The code.                                                               *)
(***************************************************************************)

\* Every step keeps CodeInv.
LEMMA CodeStep == TypeOK /\ CodeInv /\ [Next]_vars => CodeInv'
  <1> SUFFICES ASSUME TypeOK, CodeInv, [Next]_vars PROVE CodeInv'
    OBVIOUS
  <1>1. ASSUME NEW r \in Request, Arrive(r) \/ Step(r) \/ Fail(r),
               pc'[r] \notin AtCode,
               UNCHANGED <<code, issued>>, family'.made = family.made
        PROVE  CodeInv'
    BY <1>1, OneMoves DEF CodeInv
  <1>2. ASSUME NEW r \in Request, Arrive(r) PROVE CodeInv'
    <2>1. "idle" \notin AtCode /\ pc'[r] \notin AtCode
      BY <1>2, Arrival
    <2>2. UNCHANGED <<code, issued, family>>
      BY <1>2, Arrival DEF stores, ghosts
    <2> QED BY <1>1, <1>2, <2>1, <2>2
  <1>3. ASSUME NEW r \in Request, ReadCode(r) PROVE CodeInv'
    <2>1. pc'[r] \notin AtCode
      BY <1>3, LeaverIsIdle DEF TypeOK, ReadCode, Proceed, Goto
    <2> QED BY <1>1, <1>3, <2>1 DEF ReadCode, stores, Step
  <1>4. ASSUME NEW r \in Request, Consume(r) PROVE CodeInv'
    <2>1. CASE CodeUnchanged
      BY <1>4, <2>1, OneMoves DEF TypeOK, CodeInv, Consume, CodeUnchanged, Step
    <2>2. CASE ~CodeUnchanged
      <3>1. pc'[r] \notin AtCode
        BY <1>4, <2>2, LeaverIsIdle DEF Consume
      <3> QED BY <1>1, <1>4, <2>2, <3>1 DEF Consume, Step
    <2> QED BY <2>1, <2>2
  <1>5. ASSUME NEW r \in Request, Approve(r) PROVE CodeInv'
    <2>1. pc[r] = "approve" /\ UNCHANGED <<code, issued, family>>
      BY <1>5 DEF Approve, stores
    <2>2. \A q \in Request \ {r} : pc'[q] = pc[q]
      BY <1>5, OneMoves DEF Step
    <2> QED BY <2>1, <2>2 DEF CodeInv
  <1>6. ASSUME NEW r \in Request, StoreFamily(r) PROVE CodeInv'
    <2>1. pc'[r] = "granted" /\ pc[r] = "store"
      BY <1>6 DEF TypeOK, StoreFamily, Proceed, Goto
    <2>2. family'.made /\ issued' = issued + 1 /\ code' = code
      BY <1>6 DEF StoreFamily, NoFamily
    <2>3. \A q \in Request \ {r} : pc'[q] = pc[q]
      BY <1>6, OneMoves DEF Step
    <2> QED BY <2>1, <2>2, <2>3 DEF CodeInv
  <1>7. ASSUME NEW r \in Request, ReadForRefresh(r) PROVE CodeInv'
    <2>1. pc'[r] \notin AtCode
      BY <1>7, LeaverIsIdle DEF TypeOK, ReadForRefresh, Goto
    <2>2. UNCHANGED <<code, issued, family>>
      BY <1>7 DEF ReadForRefresh, stores
    <2> QED BY <1>1, <1>7, <2>1, <2>2 DEF Step
  <1>8. ASSUME NEW r \in Request, ReadForVerify(r) \/ ReadForRevoke(r)
        PROVE  CodeInv'
    <2>1. pc'[r] \notin AtCode
      BY <1>8, LeaverIsIdle
         DEF TypeOK, ReadForVerify, ReadForRevoke, Proceed, Goto
    <2> QED BY <1>1, <1>8, <2>1 DEF ReadForVerify, ReadForRevoke, stores, Step
  <1>9. ASSUME NEW r \in Request, Check(r) \/ Reapprove(r) PROVE CodeInv'
    <2>1. pc'[r] \notin AtCode
      BY <1>9, LeaverIsIdle DEF TypeOK, Check, Reapprove, Proceed, Goto
    <2> QED BY <1>1, <1>9, <2>1 DEF Check, Reapprove, stores, Step
  <1>10. ASSUME NEW r \in Request, Rotate(r) \/ Mark(r) PROVE CodeInv'
    <2>1. pc'[r] \notin AtCode
      BY <1>10, LeaverIsIdle DEF TypeOK, Rotate, Mark, Retry, Proceed, Goto
    <2>2. family'.made = family.made
      BY <1>10 DEF TypeOK, FamilyRow, Rotate, Mark, Rotated, FamilyUnchanged
    <2>3. UNCHANGED <<code, issued>>
      BY <1>10 DEF Rotate, Mark
    <2> QED BY <1>1, <1>10, <2>1, <2>2, <2>3 DEF Step
  <1>11. ASSUME NEW r \in Request, Owner(r) \/ Punish(r) PROVE CodeInv'
    <2>1. pc'[r] \notin AtCode
      BY <1>11, LeaverIsIdle DEF TypeOK, Owner, Punish, ToMark, Proceed, Goto
    <2> QED BY <1>1, <1>11, <2>1 DEF Owner, Punish, stores, Step
  <1>12. ASSUME NEW r \in Request, Answer(r) \/ Fail(r) PROVE CodeInv'
    <2>1. pc'[r] \notin AtCode
      BY <1>12, LeaverIsIdle DEF Answer, Fail
    <2> QED BY <1>1, <1>12, <2>1 DEF Answer, Fail, stores, ghosts, Step
  <1>13. CASE Environment
    BY <1>13, TimeMovesNobody
       DEF CodeInv, ghosts, Environment, CodeExpires, GrantExpires,
           FamilyExpires, AccessExpires
  <1>14. CASE UNCHANGED vars
    BY <1>14 DEF CodeInv, vars, stores, ghosts
  <1> QED
    BY <1>2, <1>3, <1>4, <1>5, <1>6, <1>7, <1>8, <1>9, <1>10, <1>11, <1>12,
       <1>13, <1>14 DEF Next, Step

\* However many clients redeem the code at once, one family comes of it.
THEOREM OneCodeOneFamily == Spec => []CodeMakesOneFamily
  <1>1. Init => CodeInv
    BY DEF Init, CodeInv, NoFamily
  <1>2. CodeInv => CodeMakesOneFamily
    BY DEF CodeInv, CodeMakesOneFamily
  <1> QED BY <1>1, <1>2, CodeStep, TypeCorrect, PTL DEF Spec

-----------------------------------------------------------------------------
(***************************************************************************)
(* The history of used tokens.                                             *)
(***************************************************************************)

\* The record only grows, and it dies once.
Grows ==
  /\ family'.pair >= family.pair
  /\ family.used \subseteq family'.used
  /\ family.made => family'.made
  /\ family.revoked => family'.revoked
  /\ familyLive' => familyLive

\* A request that stands still keeps its place as the record grows.
LEMMA StillPlaced ==
  ASSUME TypeOK, TypeOK', Grows, NEW q \in Request, Placed(q),
         pc'[q] = pc[q], local'[q] = local[q]
  PROVE  Placed(q)'
  <1>1. /\ local[q].f.pair \in Nat
        /\ family.pair \in Nat /\ family'.pair \in Nat
    BY DEF TypeOK, Locals, FamilyRow
  <1>2. RotatorIsCurrent(q)'
    BY <1>1 DEF Placed, RotatorIsCurrent, Grows
  <1>3. RotatorHasRoom(q)'
    BY DEF Placed, RotatorHasRoom
  <1>4. RotatedIsPast(q)'
    BY <1>1 DEF Placed, RotatedIsPast, Grows
  <1>5. ReplayIsKnown(q)'
    BY DEF Placed, ReplayIsKnown, Grows
  <1>6. RetryIsTooLate(q)'
    BY DEF Placed, RetryIsTooLate, Grows
  <1>7. PlaceFitsOperation(q)'
    BY DEF Placed, PlaceFitsOperation
  <1> QED BY <1>2, <1>3, <1>4, <1>5, <1>6, <1>7 DEF Placed

\* A record that has moved on since a rotation read it knows its token.
LEMMA LoserIsTooLate ==
  ASSUME TypeOK, HistoryInv, NEW r \in Request, pc[r] = "rotate",
         ~FamilyUnchanged(r)
  PROVE  \/ ~familyLive
         \/ family.revoked
         \/ local[r].token \in family.used
  <1> DEFINE f == local[r].f
  <1>1. f \in FamilyRow /\ family \in FamilyRow
    BY DEF TypeOK, Locals
  <1>2. /\ local[r].token = f.pair /\ f.made /\ ~f.revoked
        /\ f.used = 0 .. (f.pair - 1)
        /\ f.pair <= family.pair /\ family.made
    BY DEF HistoryInv, Placed, RotatorIsCurrent
  <1>3. family.used = 0 .. (family.pair - 1)
    BY DEF HistoryInv, Chain
  <1>4. f.pair = family.pair /\ ~family.revoked => f = family
    BY <1>1, <1>2, <1>3 DEF FamilyRow
  <1>5. f.pair < family.pair => f.pair \in family.used
    BY <1>1, <1>3 DEF FamilyRow
  <1>6. f.pair \in Nat /\ family.pair \in Nat
    BY <1>1 DEF FamilyRow
  <1> QED BY <1>2, <1>4, <1>5, <1>6 DEF FamilyUnchanged

\* Every step keeps HistoryInv.
LEMMA HistoryStep ==
  TypeOK /\ TypeOK' /\ CodeInv /\ HistoryInv /\ [Next]_vars => HistoryInv'
  <1> SUFFICES ASSUME TypeOK, TypeOK', CodeInv, HistoryInv, [Next]_vars
               PROVE  HistoryInv'
    OBVIOUS
  <1> DEFINE Moves(r) == Arrive(r) \/ Step(r) \/ Fail(r)
             Same == UNCHANGED <<family, familyLive, given>>
  <1>0. ASSUME NEW r \in Request, Moves(r), Grows, Chain', Placed(r)'
        PROVE  HistoryInv'
    <2>1. ASSUME NEW q \in Request PROVE Placed(q)'
      <3>1. CASE q = r
        BY <1>0, <3>1
      <3>2. CASE q # r
        BY <1>0, <3>2, OneMoves, StillPlaced DEF HistoryInv
      <3> QED BY <3>1, <3>2
    <2> QED BY <1>0, <2>1 DEF HistoryInv
  <1>00. ASSUME Same PROVE Grows /\ Chain'
    BY <1>00 DEF TypeOK, FamilyRow, Grows, HistoryInv, Chain
  <1>1. ASSUME NEW r \in Request, Moves(r), Same, Placed(r)'
        PROVE  HistoryInv'
    BY <1>0, <1>00, <1>1
  <1> HIDE DEF Moves
  <1>2. ASSUME NEW r \in Request, Arrive(r) PROVE HistoryInv'
    <2>1. Placed(r)'
      BY <1>2, Arrival
         DEF Placed, RotatorIsCurrent, RotatorHasRoom, RotatedIsPast,
             ReplayIsKnown, RetryIsTooLate, PlaceFitsOperation
    <2>2. Same
      BY <1>2, Arrival DEF stores, ghosts
    <2> QED BY <1>1, <1>2, <2>1, <2>2 DEF Moves
  <1>3. ASSUME NEW r \in Request,
               ReadCode(r) \/ Consume(r) \/ Approve(r) \/ ReadForVerify(r)
               \/ Check(r)
        PROVE  HistoryInv'
    <2>1. \/ pc'[r] = "idle"
          \/ /\ pc'[r] \in {"consume", "approve", "store", "check", "granted"}
             /\ local'[r] = local[r]
             /\ \/ pc[r] \in {"code", "consume", "approve", "check"}
                \/ pc[r] = "family" /\ local[r].op = "verify"
      <3>1. CASE ReadCode(r)
        BY <3>1, LeaverIsIdle DEF TypeOK, ReadCode, Proceed, Goto
      <3>2. CASE Consume(r)
        BY <3>2, LeaverIsIdle DEF TypeOK, Consume, Proceed, Goto
      <3>3. CASE Approve(r)
        BY <3>3, LeaverIsIdle DEF TypeOK, Approve, Proceed, Goto
      <3>4. CASE ReadForVerify(r)
        BY <3>4, LeaverIsIdle DEF TypeOK, ReadForVerify, Proceed, Goto
      <3>5. CASE Check(r)
        BY <3>5, LeaverIsIdle DEF TypeOK, Check, Proceed, Goto
      <3> QED BY <1>3, <3>1, <3>2, <3>3, <3>4, <3>5
    <2>2. Placed(r)'
      BY <2>1
         DEF HistoryInv, Placed, RotatorIsCurrent, RotatorHasRoom,
             RotatedIsPast, ReplayIsKnown, RetryIsTooLate, PlaceFitsOperation
    <2>3. Same
      BY <1>3 DEF ReadCode, Consume, Approve, ReadForVerify, Check, stores
    <2> QED BY <1>1, <1>3, <2>2, <2>3 DEF Moves, Step
  <1>4. ASSUME NEW r \in Request, StoreFamily(r) PROVE HistoryInv'
    <2>1. pc[r] = "store" /\ family = NoFamily
      BY <1>4 DEF StoreFamily, CodeInv, HistoryInv, Chain
    <2>2. /\ family' = [NoFamily EXCEPT !.made = TRUE]
          /\ UNCHANGED <<familyLive, given>>
      BY <1>4 DEF StoreFamily
    <2>3. Grows /\ Chain'
      BY <2>1, <2>2 DEF TypeOK, NoFamily, Grows, HistoryInv, Chain
    <2>4. pc'[r] = "granted" /\ local'[r] = local[r] /\ local[r].op # "refresh"
      BY <1>4, <2>1
         DEF TypeOK, StoreFamily, Proceed, Goto, HistoryInv, Placed,
             PlaceFitsOperation
    <2>5. Placed(r)'
      BY <2>4
         DEF Placed, RotatorIsCurrent, RotatorHasRoom, RotatedIsPast,
             ReplayIsKnown, RetryIsTooLate, PlaceFitsOperation
    <2> QED BY <1>0, <1>4, <2>3, <2>5 DEF Moves, Step
  <1>5. ASSUME NEW r \in Request, ReadForRefresh(r) PROVE HistoryInv'
    <2>1. Same
      BY <1>5 DEF ReadForRefresh, stores
    <2>2. pc[r] = "family" /\ local[r].op = "refresh" /\ local[r] \in Locals
          /\ family \in FamilyRow
      BY <1>5 DEF TypeOK, ReadForRefresh
    <2>3. CASE pc'[r] = "idle"
      <3>1. Placed(r)'
        BY <2>3
           DEF Placed, RotatorIsCurrent, RotatorHasRoom, RotatedIsPast,
               ReplayIsKnown, RetryIsTooLate, PlaceFitsOperation
      <3> QED BY <1>1, <1>5, <2>1, <3>1 DEF Moves, Step
    <2>4. CASE pc'[r] = "owner"
      <3>1. /\ local[r].token \in family.used /\ family.made
            /\ local'[r].token = local[r].token
        <4>1. /\ local[r].token \in family.used /\ Readable
              /\ local' = [local EXCEPT ![r] =
                   [[local[r] EXCEPT !.f = family] EXCEPT !.ending = TRUE]]
          BY <1>5, <2>2, <2>4, LeaverIsIdle DEF TypeOK, ReadForRefresh, Goto
        <4> QED BY <2>2, <4>1 DEF TypeOK, Locals, Readable
      <3>2. Placed(r)'
        BY <2>1, <2>4, <3>1
           DEF Placed, RotatorIsCurrent, RotatorHasRoom, RotatedIsPast,
               ReplayIsKnown, RetryIsTooLate, PlaceFitsOperation
      <3> QED BY <1>1, <1>5, <2>1, <3>2 DEF Moves, Step
    <2>5. CASE pc'[r] = "reapprove"
      <3>1. /\ Readable /\ ~family.revoked
            /\ local[r].token \notin family.used
            /\ local[r].token = family.pair
            /\ local'[r] = [local[r] EXCEPT !.f = family]
        BY <1>5, <2>2, <2>5, LeaverIsIdle DEF TypeOK, ReadForRefresh, Goto
      <3>2. local[r].attempt = 1
        BY <2>2, <3>1 DEF Readable, HistoryInv, Placed, RetryIsTooLate
      <3>3. /\ local'[r].f = family /\ local'[r].op = "refresh"
            /\ local'[r].attempt = 1 /\ local'[r].token = family.pair
        BY <2>2, <3>1, <3>2 DEF Locals
      <3>4. family'.pair = family.pair /\ family.pair \in Nat /\ family'.made
        BY <2>1, <2>2, <3>1 DEF FamilyRow, Readable
      <3>5. RotatorIsCurrent(r)'
        BY <2>1, <3>1, <3>3, <3>4 DEF RotatorIsCurrent, Readable, HistoryInv, Chain
      <3>6. Placed(r)'
        BY <2>5, <3>5
           DEF Placed, RotatorHasRoom, RotatedIsPast, ReplayIsKnown,
               RetryIsTooLate, PlaceFitsOperation
      <3> QED BY <1>1, <1>5, <2>1, <3>6 DEF Moves, Step
    <2>6. pc'[r] \in {"idle", "owner", "reapprove"}
      BY <1>5, LeaverIsIdle DEF TypeOK, ReadForRefresh, Goto
    <2> QED BY <2>3, <2>4, <2>5, <2>6
  <1>6. ASSUME NEW r \in Request, ReadForRevoke(r) PROVE HistoryInv'
    <2>1. Same
      BY <1>6 DEF ReadForRevoke, stores
    <2>2. \/ pc'[r] = "idle"
          \/ pc'[r] = "owner" /\ local'[r].op # "refresh" /\ family.made
      BY <1>6, LeaverIsIdle DEF TypeOK, ReadForRevoke, Goto, Locals, Readable
    <2>3. Placed(r)'
      BY <2>1, <2>2
         DEF Placed, RotatorIsCurrent, RotatorHasRoom, RotatedIsPast,
             ReplayIsKnown, RetryIsTooLate, PlaceFitsOperation
    <2> QED BY <1>1, <1>6, <2>1, <2>3 DEF Moves, Step
  <1>7. ASSUME NEW r \in Request, Reapprove(r) PROVE HistoryInv'
    <2>1. Same
      BY <1>7 DEF Reapprove, stores
    <2>2. CASE pc'[r] = "idle"
      <3>1. Placed(r)'
        BY <2>2
           DEF Placed, RotatorIsCurrent, RotatorHasRoom, RotatedIsPast,
               ReplayIsKnown, RetryIsTooLate, PlaceFitsOperation
      <3> QED BY <1>1, <1>7, <2>1, <3>1 DEF Moves, Step
    <2>3. CASE pc'[r] = "rotate" /\ local'[r] = local[r] /\ ~Full(local[r].f)
      <3>1. pc[r] = "reapprove" /\ RotatorIsCurrent(r)
        BY <1>7 DEF Reapprove, HistoryInv, Placed
      <3>2. local[r].f.pair < MaxUsed
        <4>1. local[r].f.used = 0 .. (local[r].f.pair - 1)
              /\ local[r].f.pair \in Nat
          BY <3>1 DEF RotatorIsCurrent, TypeOK, Locals, FamilyRow
        <4>2. Cardinality(local[r].f.used) = local[r].f.pair
          <5> DEFINE n == local[r].f.pair
          <5>1. 0 \in Int /\ n - 1 \in Int /\ n \in Nat
            BY <4>1
          <5>2. Cardinality(0 .. (n - 1)) =
                  IF 0 > n - 1 THEN 0 ELSE (n - 1) - 0 + 1
            BY <5>1, FS_Interval
          <5> QED BY <4>1, <5>1, <5>2
        <4> QED BY <2>3, <4>1, <4>2, ConstantsOK DEF Full
      <3>3. Placed(r)'
        BY <2>1, <2>3, <3>1, <3>2
           DEF Placed, RotatorIsCurrent, RotatorHasRoom, RotatedIsPast,
               ReplayIsKnown, RetryIsTooLate, PlaceFitsOperation
      <3> QED BY <1>1, <1>7, <2>1, <3>3 DEF Moves, Step
    <2> QED BY <1>7, <2>2, <2>3, LeaverIsIdle DEF TypeOK, Reapprove, Proceed, Goto
  <1>8. ASSUME NEW r \in Request, Rotate(r) PROVE HistoryInv'
    <2>1. /\ pc[r] = "rotate" /\ RotatorIsCurrent(r) /\ RotatorHasRoom(r)
          /\ UNCHANGED given
      BY <1>8 DEF Rotate, HistoryInv, Placed
    <2>2. /\ local[r].op = "refresh" /\ local[r].attempt = 1
          /\ local[r].token = local[r].f.pair
      BY <2>1 DEF RotatorIsCurrent
    <2>3. CASE FamilyUnchanged(r)
      <3>1. /\ family' = Rotated(family) /\ local[r].f = family /\ familyLive
            /\ UNCHANGED <<familyLive, local>> /\ pc'[r] = "granted"
        BY <1>8, <2>3 DEF TypeOK, Rotate, FamilyUnchanged, Proceed, Goto
      <3>2. family \in FamilyRow /\ family.pair \in Nat
        BY DEF TypeOK, FamilyRow
      <3>3. /\ family'.pair = family.pair + 1
            /\ family'.used = family.used \union {family.pair}
            /\ family'.made = family.made /\ family'.revoked = family.revoked
        BY <3>1, <3>2 DEF Rotated, FamilyRow
      <3>4. family.made /\ family.pair < MaxUsed
        BY <2>1, <3>1 DEF RotatorIsCurrent, RotatorHasRoom
      <3>5. family'.used = 0 .. (family'.pair - 1)
        BY <3>2, <3>3 DEF HistoryInv, Chain
      <3>6. Grows /\ Chain'
        BY <2>1, <3>1, <3>2, <3>3, <3>4, <3>5, ConstantsOK
           DEF Grows, HistoryInv, Chain
      <3>7. RotatedIsPast(r)'
        BY <2>2, <3>1, <3>2, <3>3 DEF RotatedIsPast
      <3>8. Placed(r)'
        BY <3>1, <3>7
           DEF Placed, RotatorIsCurrent, RotatorHasRoom, ReplayIsKnown,
               RetryIsTooLate, PlaceFitsOperation
      <3> QED BY <1>0, <1>8, <3>6, <3>8 DEF Moves, Step
    <2>4. CASE ~FamilyUnchanged(r)
      <3>1. Same /\ Retry(r)
        BY <1>8, <2>4 DEF Rotate
      <3>2. \/ ~familyLive
            \/ family.revoked
            \/ local[r].token \in family.used
        BY <2>1, <2>4, LoserIsTooLate
      <3>3. local[r] \in Locals
        BY DEF TypeOK
      <3>4. pc'[r] = "family" /\ local'[r].token = local[r].token
        BY <2>2, <3>1, <3>3, ConstantsOK DEF TypeOK, Retry, Goto, Locals
      <3>5. Placed(r)'
        BY <3>1, <3>2, <3>4
           DEF Placed, RotatorIsCurrent, RotatorHasRoom, RotatedIsPast,
               ReplayIsKnown, RetryIsTooLate, PlaceFitsOperation
      <3> QED BY <1>1, <1>8, <3>1, <3>5 DEF Moves, Step
    <2> QED BY <2>3, <2>4
  <1>9. ASSUME NEW r \in Request, Owner(r) \/ Punish(r) PROVE HistoryInv'
    <2>1. Same /\ pc[r] \in Ending /\ Placed(r)
      BY <1>9 DEF Owner, Punish, stores, HistoryInv
    <2>2. \/ pc'[r] = "idle"
          \/ pc'[r] \in Ending /\ local'[r] = local[r]
      BY <1>9, LeaverIsIdle DEF TypeOK, Owner, Punish, ToMark, Proceed, Goto
    <2>3. Placed(r)'
      BY <2>1, <2>2
         DEF Placed, RotatorIsCurrent, RotatorHasRoom, RotatedIsPast,
             ReplayIsKnown, RetryIsTooLate, PlaceFitsOperation
    <2> QED BY <1>1, <1>9, <2>1, <2>3 DEF Moves, Step
  <1>10. ASSUME NEW r \in Request, Mark(r) PROVE HistoryInv'
    <2>1. pc[r] = "mark" /\ Placed(r) /\ UNCHANGED <<familyLive, given>>
      BY <1>10 DEF Mark, HistoryInv
    <2>2. CASE pc'[r] = "idle"
      <3>1. family' = family \/ family' = [family EXCEPT !.revoked = TRUE]
        BY <1>10 DEF Mark
      <3>2. family \in FamilyRow /\ family.pair \in Nat
        BY DEF TypeOK, FamilyRow
      <3>3. /\ family'.pair = family.pair /\ family'.used = family.used
            /\ family'.made = family.made
            /\ family.revoked => family'.revoked
        BY <3>1, <3>2 DEF FamilyRow
      <3>4. family.made
        BY <2>1 DEF Placed, ReplayIsKnown
      <3>5. Grows /\ Chain'
        BY <2>1, <3>2, <3>3, <3>4 DEF Grows, HistoryInv, Chain
      <3>6. Placed(r)'
        BY <2>2
           DEF Placed, RotatorIsCurrent, RotatorHasRoom, RotatedIsPast,
               ReplayIsKnown, RetryIsTooLate, PlaceFitsOperation
      <3> QED BY <1>0, <1>10, <3>5, <3>6 DEF Moves, Step
    <2>3. CASE pc'[r] # "idle"
      <3>1. Same /\ Retry(r) /\ ~Conclude(r)
        BY <1>10, <2>3, LeaverIsIdle DEF Mark
      <3>2. local[r] \in Locals
        BY DEF TypeOK
      <3>3. /\ pc'[r] = "family" /\ local'[r].token = local[r].token
            /\ local'[r].op = local[r].op
        BY <3>1, <3>2 DEF TypeOK, Retry, Goto, Locals
      <3>4. Placed(r)'
        BY <2>1, <3>1, <3>3
           DEF Placed, RotatorIsCurrent, RotatorHasRoom, RotatedIsPast,
               ReplayIsKnown, RetryIsTooLate, PlaceFitsOperation
      <3> QED BY <1>1, <1>10, <3>1, <3>4 DEF Moves, Step
    <2> QED BY <2>2, <2>3
  <1>11. ASSUME NEW r \in Request, Answer(r) PROVE HistoryInv'
    <2>1. /\ pc[r] = "granted" /\ Placed(r) /\ pc'[r] = "idle"
          /\ UNCHANGED <<family, familyLive>>
      BY <1>11, LeaverIsIdle DEF Answer, HistoryInv, stores
    <2>2. family.pair \in Nat /\ local[r].f.pair \in Nat
      BY DEF TypeOK, Locals, FamilyRow
    <2>3. given' \subseteq 0 .. family.pair
      BY <1>11, <2>1, <2>2
         DEF Answer, Placed, RotatedIsPast, HistoryInv, Chain
    <2>4. Grows /\ Chain'
      BY <2>1, <2>2, <2>3 DEF Grows, HistoryInv, Chain
    <2>5. Placed(r)'
      BY <2>1
         DEF Placed, RotatorIsCurrent, RotatorHasRoom, RotatedIsPast,
             ReplayIsKnown, RetryIsTooLate, PlaceFitsOperation
    <2> QED BY <1>0, <1>11, <2>4, <2>5 DEF Moves, Step
  <1>12. ASSUME NEW r \in Request, Fail(r) PROVE HistoryInv'
    <2>1. Same /\ pc'[r] = "idle"
      BY <1>12, LeaverIsIdle DEF Fail, stores, ghosts
    <2>2. Placed(r)'
      BY <2>1
         DEF Placed, RotatorIsCurrent, RotatorHasRoom, RotatedIsPast,
             ReplayIsKnown, RetryIsTooLate, PlaceFitsOperation
    <2> QED BY <1>1, <1>12, <2>1, <2>2 DEF Moves
  <1>13. CASE Environment
    <2>1. UNCHANGED <<family, pc, local, given>>
      BY <1>13, TimeMovesNobody
         DEF ghosts, Environment, CodeExpires, GrantExpires, FamilyExpires,
             AccessExpires
    <2>2. familyLive' => familyLive
      BY <1>13 DEF Environment, CodeExpires, GrantExpires, FamilyExpires,
                   AccessExpires
    <2>3. Grows /\ Chain'
      BY <2>1, <2>2 DEF TypeOK, FamilyRow, Grows, HistoryInv, Chain
    <2> QED BY <2>1, <2>3, StillPlaced DEF HistoryInv
  <1>14. CASE UNCHANGED vars
    <2>1. UNCHANGED <<family, familyLive, pc, local, given>>
      BY <1>14 DEF vars, stores, ghosts
    <2>2. Grows /\ Chain'
      BY <1>00, <2>1
    <2> QED BY <2>1, <2>2, StillPlaced DEF HistoryInv
  <1> QED
    BY <1>2, <1>3, <1>4, <1>5, <1>6, <1>7, <1>8, <1>9, <1>10, <1>11, <1>12,
       <1>13, <1>14 DEF Next, Step

\* The first three layers hold in every reachable state.
LEMMA HistoryHolds == Spec => [](TypeOK /\ CodeInv /\ HistoryInv)
  <1>1. ASSUME Init PROVE CodeInv /\ HistoryInv
    <2>1. CodeInv
      BY <1>1 DEF Init, CodeInv, NoFamily
    <2>2. Chain
      BY <1>1, ConstantsOK DEF Init, Chain, NoFamily
    <2>3. ASSUME NEW r \in Request PROVE Placed(r)
      BY <1>1
         DEF Init, Placed, RotatorIsCurrent, RotatorHasRoom, RotatedIsPast,
             ReplayIsKnown, RetryIsTooLate, PlaceFitsOperation
    <2> QED BY <2>1, <2>2, <2>3 DEF HistoryInv
  <1> QED BY <1>1, TypeCorrect, TypeStep, CodeStep, HistoryStep, PTL DEF Spec

\* Every refresh token that was handed out and is not the current one is
\* known as used.
THEOREM HistoryIsComplete == Spec => []OldTokensAreKnown
  <1>1. TypeOK /\ HistoryInv => OldTokensAreKnown
    <2> SUFFICES ASSUME TypeOK, HistoryInv, NEW t \in given, t # family.pair
                 PROVE  t \in family.used
      BY DEF OldTokensAreKnown
    <2>1. family.pair \in Nat /\ t \in 0 .. family.pair
      BY DEF TypeOK, FamilyRow, HistoryInv, Chain
    <2> QED BY <2>1 DEF HistoryInv, Chain
  <1> QED BY <1>1, HistoryHolds, PTL

\* The history never outgrows what parse accepts.
THEOREM HistoryIsBounded == Spec => []FamilyStaysReadable
  <1>1. TypeOK /\ HistoryInv => FamilyStaysReadable
    <2> SUFFICES ASSUME TypeOK, HistoryInv PROVE FamilyStaysReadable
      OBVIOUS
    <2> DEFINE n == family.pair
    <2>1. 0 \in Int /\ n - 1 \in Int /\ n \in Nat
      BY DEF TypeOK, FamilyRow
    <2>2. Cardinality(0 .. (n - 1)) = IF 0 > n - 1 THEN 0 ELSE (n - 1) - 0 + 1
      BY <2>1, FS_Interval
    <2>3. Cardinality(0 .. (n - 1)) = n
      BY <2>1, <2>2
    <2> QED BY <2>3 DEF FamilyStaysReadable, HistoryInv, Chain
  <1> QED BY <1>1, HistoryHolds, PTL

-----------------------------------------------------------------------------
(***************************************************************************)
(* The end of a grant.                                                     *)
(***************************************************************************)

\* No step brings a grant back.
LEMMA GrantEndsOnce == TypeOK /\ [Next]_vars => (grantActive' => grantActive)
  <1> SUFFICES ASSUME TypeOK, [Next]_vars, grantActive' PROVE grantActive
    OBVIOUS
  <1>1. ASSUME NEW r \in Request, Arrive(r) PROVE grantActive
    BY <1>1, Arrival DEF stores
  <1>2. ASSUME NEW r \in Request,
               ReadCode(r) \/ Consume(r) \/ Approve(r) \/ StoreFamily(r)
        PROVE  grantActive
    BY <1>2 DEF ReadCode, Consume, Approve, StoreFamily, stores
  <1>3. ASSUME NEW r \in Request,
               ReadForRefresh(r) \/ ReadForVerify(r) \/ ReadForRevoke(r)
        PROVE  grantActive
    BY <1>3 DEF ReadForRefresh, ReadForVerify, ReadForRevoke, stores
  <1>4. ASSUME NEW r \in Request,
               Check(r) \/ Reapprove(r) \/ Rotate(r) \/ Owner(r)
        PROVE  grantActive
    BY <1>4 DEF Check, Reapprove, Rotate, Owner, stores
  <1>5. ASSUME NEW r \in Request, Punish(r) \/ Mark(r) \/ Answer(r) \/ Fail(r)
        PROVE  grantActive
    BY <1>5 DEF Punish, Mark, Answer, Fail, stores
  <1>6. CASE Environment
    BY <1>6 DEF Environment, CodeExpires, GrantExpires, FamilyExpires,
                AccessExpires
  <1>7. CASE UNCHANGED vars
    BY <1>7 DEF vars, stores
  <1> QED BY <1>1, <1>2, <1>3, <1>4, <1>5, <1>6, <1>7 DEF Next, Step

\* What a step does while the grant lasts: nothing is marked or doomed, and
\* whoever starts to end the grant stops before the decision.
LEMMA WhileGranted ==
  ASSUME TypeOK, CodeInv, HistoryInv, DoomInv, NEW r \in Request,
         Step(r) \/ Fail(r), grantActive, grantActive'
  PROVE  /\ ~doomed'
         /\ ~family'.revoked
         /\ pc'[r] # "mark"
         /\ local'[r].ending => pc'[r] \in {"owner", "punish"}
         /\ ~local'[r].late
         /\ Answer(r) \/ UNCHANGED <<answered, repeated>>
  <1> DEFINE Quiet ==
        /\ ~doomed'
        /\ ~family'.revoked
        /\ pc'[r] # "mark"
        /\ local'[r].ending => pc'[r] \in {"owner", "punish"}
        /\ ~local'[r].late
        /\ Answer(r) \/ UNCHANGED <<answered, repeated>>
  <1> SUFFICES Quiet
    OBVIOUS
  <1>1. /\ ~doomed /\ ~family.revoked /\ pc[r] # "mark" /\ ~local[r].late
        /\ pc[r] \in {"owner", "punish"} \/ ~local[r].ending
    BY DEF DoomInv, MarkFollowsGrant, DoomedAt
  <1>2. local[r] \in Locals /\ ~NoLocals.ending /\ ~NoLocals.late
    BY DEF TypeOK, NoLocals
  <1>3. ASSUME Refuse(r),
               pc[r] \notin {"owner", "punish"}, family' = family
        PROVE  Quiet
    BY <1>1, <1>2, <1>3, LeaverIsIdle DEF Refuse, End
  <1>4. ASSUME pc'[r] # "mark", local'[r].late = local[r].late,
               local'[r].ending => pc'[r] \in {"owner", "punish"},
               ~doomed', UNCHANGED <<answered, repeated>>,
               ~family'.revoked
        PROVE  Quiet
    BY <1>1, <1>4
  <1> HIDE DEF Quiet
  <1>5. ASSUME pc[r] \notin {"owner", "punish"}, UNCHANGED local,
               pc'[r] \notin {"owner", "punish", "mark"},
               ~doomed', UNCHANGED <<answered, repeated>>,
               ~family'.revoked
        PROVE  Quiet
    BY <1>1, <1>4, <1>5
  <1>6. CASE ReadCode(r) \/ Consume(r) \/ Approve(r)
    <2>1. pc[r] \notin {"owner", "punish"} /\ family' = family
      BY <1>6 DEF ReadCode, Consume, Approve, stores
    <2>2. \/ Refuse(r)
          \/ /\ UNCHANGED <<local, doomed, answered, repeated>>
             /\ pc'[r] \in {"consume", "approve", "store"}
      BY <1>6 DEF TypeOK, ReadCode, Consume, Approve, Proceed, Goto
    <2> QED BY <1>1, <1>3, <1>5, <2>1, <2>2
  <1>7. CASE StoreFamily(r)
    <2>1. /\ pc[r] = "store" /\ pc'[r] = "granted"
          /\ UNCHANGED <<local, doomed, answered, repeated>>
          /\ ~family'.revoked
      BY <1>7 DEF TypeOK, StoreFamily, NoFamily, Proceed, Goto
    <2> QED BY <1>1, <1>5, <2>1
  <1>8. CASE ReadForRefresh(r)
    <2>1. pc[r] = "family" /\ family' = family
      BY <1>8 DEF ReadForRefresh, stores
    <2>2. CASE Refuse(r)
      BY <1>1, <1>3, <2>1, <2>2
    <2>3. CASE ~Refuse(r)
      <3>1. /\ UNCHANGED <<doomed, answered, repeated>>
            /\ \/ /\ pc'[r] = "owner"
                  /\ local'[r] =
                       [[local[r] EXCEPT !.f = family] EXCEPT !.ending = TRUE]
               \/ /\ pc'[r] = "reapprove"
                  /\ local'[r] = [local[r] EXCEPT !.f = family]
        BY <1>1, <1>8, <2>3 DEF TypeOK, ReadForRefresh, Goto
      <3>2. /\ local'[r].late = local[r].late
            /\ local'[r].ending = local[r].ending \/ pc'[r] = "owner"
        BY <1>2, <3>1 DEF Locals
      <3> QED BY <1>1, <1>4, <2>1, <3>1, <3>2
    <2> QED BY <2>2, <2>3
  <1>9. CASE ReadForVerify(r) \/ Check(r) \/ Reapprove(r)
    <2>1. pc[r] \notin {"owner", "punish"} /\ family' = family
      BY <1>9 DEF ReadForVerify, Check, Reapprove, stores
    <2>2. \/ Refuse(r)
          \/ /\ UNCHANGED <<local, doomed, answered, repeated>>
             /\ pc'[r] \in {"check", "granted", "rotate"}
      BY <1>9 DEF TypeOK, ReadForVerify, Check, Reapprove, Proceed, Goto
    <2> QED BY <1>1, <1>3, <1>5, <2>1, <2>2
  <1>10. CASE ReadForRevoke(r)
    <2>1. pc[r] = "family" /\ family' = family
      BY <1>10 DEF ReadForRevoke, stores
    <2>2. CASE Refuse(r)
      BY <1>1, <1>3, <2>1, <2>2
    <2>3. CASE ~Refuse(r)
      <3>1. /\ UNCHANGED <<doomed, answered, repeated>> /\ pc'[r] = "owner"
            /\ local'[r] = [local[r] EXCEPT !.f = family, !.ending = TRUE]
        BY <1>10, <2>3 DEF TypeOK, ReadForRevoke, Goto
      <3>2. local'[r].late = local[r].late
        BY <1>2, <3>1 DEF Locals
      <3> QED BY <1>1, <1>4, <2>1, <3>1, <3>2
    <2> QED BY <2>2, <2>3
  <1>11. CASE Rotate(r)
    <2>1. pc[r] = "rotate" /\ local[r].attempt = 1
      BY <1>11 DEF Rotate, HistoryInv, Placed, RotatorIsCurrent
    <2>2. CASE FamilyUnchanged(r)
      <3>1. /\ UNCHANGED <<local, doomed, answered, repeated>>
            /\ pc'[r] = "granted" /\ family' = Rotated(family)
        BY <1>11, <2>2 DEF TypeOK, Rotate, FamilyUnchanged, Proceed, Goto
      <3>2. family'.revoked = family.revoked
        BY <3>1 DEF TypeOK, FamilyRow, Rotated
      <3> QED BY <1>1, <1>5, <2>1, <3>1, <3>2
    <2>3. CASE ~FamilyUnchanged(r)
      <3>1. /\ UNCHANGED <<family, doomed, answered, repeated>>
            /\ pc'[r] = "family"
            /\ local'[r] = [local[r] EXCEPT !.attempt = local[r].attempt + 1]
        BY <1>11, <2>1, <2>3, ConstantsOK DEF TypeOK, Rotate, Retry, Goto
      <3>2. /\ local'[r].late = local[r].late
            /\ local'[r].ending = local[r].ending
        BY <1>2, <3>1 DEF Locals
      <3> QED BY <1>1, <1>4, <2>1, <3>1, <3>2
    <2> QED BY <2>2, <2>3
  <1>12. CASE Owner(r) \/ Punish(r)
    <2>1. /\ UNCHANGED <<local, family, doomed, answered, repeated>>
          /\ pc'[r] = "punish"
      BY <1>12 DEF TypeOK, Owner, Punish, Proceed, Goto, stores
    <2> QED BY <1>1, <1>4, <2>1
  <1>13. CASE Mark(r)
    BY <1>1, <1>13 DEF Mark
  <1>14. CASE Answer(r)
    <2>1. /\ pc[r] = "granted" /\ family' = family
          /\ pc'[r] = "idle" /\ local'[r] = NoLocals
          /\ doomed' = (doomed \/ local[r].ending)
      BY <1>14, LeaverIsIdle DEF Answer, Conclude, End, stores
    <2> QED BY <1>1, <1>2, <1>14, <2>1 DEF Quiet
  <1>15. CASE Fail(r)
    <2>1. /\ UNCHANGED <<family, doomed, answered, repeated>>
          /\ pc'[r] = "idle" /\ local'[r] = NoLocals
      BY <1>15, LeaverIsIdle DEF Fail, stores, ghosts
    <2> QED BY <1>1, <1>2, <2>1 DEF Quiet
  <1> QED
    BY <1>6, <1>7, <1>8, <1>9, <1>10, <1>11, <1>12, <1>13, <1>14, <1>15 DEF Step

\* A request that began too late is refused wherever the grant is asked.
LEMMA LateStep ==
  ASSUME TypeOK, DoomInv, NEW r \in Request, Step(r) \/ Fail(r)
  PROVE  LateGetsNothing(r)'
  <1> USE DEF LateGetsNothing
  <1>1. CASE pc'[r] \notin {"store", "rotate", "granted"}
    BY <1>1
  <1>3. local[r].late => ~grantActive /\ pc[r] \notin {"store", "rotate", "granted"}
    BY DEF DoomInv, DoomedAt, LateGetsNothing
  <1>4. CASE ReadCode(r) \/ Consume(r)
    BY <1>1, <1>4, LeaverIsIdle DEF TypeOK, ReadCode, Consume, Proceed, Goto
  <1>5. CASE Approve(r) \/ Check(r) \/ Reapprove(r)
    BY <1>1, <1>3, <1>5, LeaverIsIdle
       DEF TypeOK, Approve, Check, Reapprove, Proceed, Goto
  <1>6. CASE StoreFamily(r)
    BY <1>3, <1>6 DEF StoreFamily, Proceed
  <1>7. CASE ReadForRefresh(r)
    BY <1>1, <1>7, LeaverIsIdle DEF TypeOK, ReadForRefresh, Goto
  <1>8. CASE ReadForVerify(r) \/ ReadForRevoke(r)
    BY <1>1, <1>8, LeaverIsIdle
       DEF TypeOK, ReadForVerify, ReadForRevoke, Proceed, Goto
  <1>9. CASE Rotate(r)
    <2>1. CASE FamilyUnchanged(r)
      BY <1>3, <1>9, <2>1 DEF Rotate, Proceed
    <2>2. CASE ~FamilyUnchanged(r)
      BY <1>1, <1>9, <2>2, LeaverIsIdle DEF TypeOK, Rotate, Retry, Goto
    <2> QED BY <2>1, <2>2
  <1>10. CASE Owner(r) \/ Punish(r)
    BY <1>1, <1>10, LeaverIsIdle DEF TypeOK, Owner, Punish, ToMark, Proceed, Goto
  <1>11. CASE Mark(r)
    BY <1>1, <1>11, LeaverIsIdle DEF TypeOK, Mark, Retry, Goto
  <1>12. CASE Answer(r) \/ Fail(r)
    BY <1>1, <1>12, LeaverIsIdle DEF Answer, Fail
  <1> QED BY <1>4, <1>5, <1>6, <1>7, <1>8, <1>9, <1>10, <1>11, <1>12 DEF Step

\* Every step keeps DoomInv.
LEMMA DoomStep ==
  TypeOK /\ TypeOK' /\ CodeInv /\ HistoryInv /\ DoomInv /\ [Next]_vars
  => DoomInv'
  <1> SUFFICES ASSUME TypeOK, CodeInv, HistoryInv, DoomInv, [Next]_vars
               PROVE  DoomInv'
    OBVIOUS
  <1>1. grantActive' => grantActive
    BY GrantEndsOnce
  <1>2. ASSUME NEW r \in Request, Arrive(r) PROVE DoomInv'
    <2>1. ASSUME NEW q \in Request PROVE DoomedAt(q)' /\ LateGetsNothing(q)'
      <3>1. UNCHANGED <<grantActive, doomed>>
        BY <1>2, Arrival DEF stores, ghosts
      <3>2. CASE q = r
        BY <1>2, <3>1, <3>2, Arrival DEF DoomInv, DoomedAt, LateGetsNothing
      <3>3. CASE q # r
        BY <1>2, <3>1, <3>3, Arrival DEF DoomInv, DoomedAt, LateGetsNothing
      <3> QED BY <3>2, <3>3
    <2> QED BY <1>2, <2>1, Arrival DEF DoomInv, MarkFollowsGrant, stores, ghosts
  <1>3. ASSUME NEW r \in Request, Step(r) \/ Fail(r) PROVE DoomInv'
    <2>1. ASSUME NEW q \in Request PROVE LateGetsNothing(q)'
      <3>1. CASE q = r
        BY <1>3, <3>1, LateStep
      <3>2. CASE q # r
        BY <1>3, <3>2, OneMoves DEF DoomInv, LateGetsNothing
      <3> QED BY <3>1, <3>2
    <2>2. CASE ~grantActive'
      BY <2>1, <2>2 DEF DoomInv, MarkFollowsGrant, DoomedAt
    <2>3. CASE grantActive'
      <3>1. ASSUME NEW q \in Request PROVE DoomedAt(q)'
        <4>1. CASE q = r
          BY <1>1, <1>3, <2>3, <4>1, WhileGranted DEF DoomedAt
        <4>2. CASE q # r
          BY <1>1, <1>3, <2>3, <4>2, OneMoves DEF DoomInv, DoomedAt
        <4> QED BY <4>1, <4>2
      <3> QED
        BY <1>1, <1>3, <2>1, <2>3, <3>1, WhileGranted DEF DoomInv, MarkFollowsGrant
    <2> QED BY <2>2, <2>3
  <1>4. CASE Environment
    BY <1>1, <1>4, TimeMovesNobody
       DEF DoomInv, MarkFollowsGrant, DoomedAt, LateGetsNothing, ghosts,
           Environment, CodeExpires, GrantExpires, FamilyExpires, AccessExpires
  <1>5. CASE UNCHANGED vars
    BY <1>5 DEF DoomInv, MarkFollowsGrant, DoomedAt, LateGetsNothing, vars,
                stores, ghosts
  <1> QED BY <1>2, <1>3, <1>4, <1>5 DEF Next
\* The first four layers hold in every reachable state.
LEMMA DoomHolds == Spec => [](TypeOK /\ CodeInv /\ HistoryInv /\ DoomInv)
  <1>1. ASSUME Init PROVE DoomInv
    BY <1>1
       DEF Init, DoomInv, MarkFollowsGrant, DoomedAt, LateGetsNothing,
           NoFamily, NoLocals
  <1> QED BY <1>1, TypeCorrect, HistoryHolds, DoomStep, PTL DEF Spec

\* A family is marked in Redis only after its grant has ended in PostgreSQL.
THEOREM MarkFollowsGrantCorrect == Spec => []MarkFollowsGrant
  <1>1. DoomInv => MarkFollowsGrant
    BY DEF DoomInv
  <1> QED BY <1>1, DoomHolds, PTL

\* No request that begins after a replay or a revocation was answered is
\* granted anything.
THEOREM DoomIsFinalCorrect == Spec => []DoomIsFinal
  <1>1. DoomInv => DoomIsFinal
    BY DEF DoomInv, DoomIsFinal, LateGetsNothing
  <1> QED BY <1>1, DoomHolds, PTL

-----------------------------------------------------------------------------
(***************************************************************************)
(* A token that was answered for twice.                                    *)
(***************************************************************************)

\* Only a rotation lets a refresh through, and it takes the current token.
LEMMA RotationGrants ==
  ASSUME TypeOK, HistoryInv, NEW r \in Request, Step(r) \/ Fail(r),
         HasRotated(r)'
  PROVE  local'[r].token = family.pair
  <1> USE DEF HasRotated
  <1>1. local[r] \in Locals
    BY DEF TypeOK
  <1>2. CASE ReadCode(r) \/ Consume(r) \/ Approve(r)
    BY <1>2, LeaverIsIdle DEF TypeOK, ReadCode, Consume, Approve, Proceed, Goto
  <1>3. CASE StoreFamily(r) \/ Check(r)
    <2>1. \/ pc'[r] = "idle"
          \/ pc[r] \in Redeeming \union {"check"} /\ UNCHANGED local
      BY <1>3, LeaverIsIdle DEF StoreFamily, Check, Proceed
    <2> QED BY <2>1 DEF HistoryInv, Placed, PlaceFitsOperation
  <1>4. CASE ReadForRefresh(r) \/ ReadForVerify(r) \/ ReadForRevoke(r)
    BY <1>4, LeaverIsIdle
       DEF TypeOK, ReadForRefresh, ReadForVerify, ReadForRevoke, Proceed, Goto
  <1>5. CASE Reapprove(r)
    BY <1>5, LeaverIsIdle DEF TypeOK, Reapprove, Proceed, Goto
  <1>6. CASE Rotate(r)
    <2>1. CASE FamilyUnchanged(r)
      BY <1>6, <2>1
         DEF Rotate, FamilyUnchanged, Proceed, HistoryInv, Placed,
             RotatorIsCurrent
    <2>2. CASE ~FamilyUnchanged(r)
      BY <1>6, <2>2, LeaverIsIdle DEF TypeOK, Rotate, Retry, Goto
    <2> QED BY <2>1, <2>2
  <1>7. CASE Owner(r) \/ Punish(r)
    BY <1>7, LeaverIsIdle DEF TypeOK, Owner, Punish, ToMark, Proceed, Goto
  <1>8. CASE Mark(r)
    BY <1>8, LeaverIsIdle DEF TypeOK, Mark, Retry, Goto
  <1>9. CASE Answer(r) \/ Fail(r)
    BY <1>9, LeaverIsIdle DEF Answer, Fail
  <1> QED BY <1>2, <1>3, <1>4, <1>5, <1>6, <1>7, <1>8, <1>9 DEF Step

\* The number of the current pair never falls.
LEMMA PairNeverFalls ==
  ASSUME TypeOK, CodeInv, HistoryInv, NEW r \in Request, Step(r) \/ Fail(r)
  PROVE  family'.pair >= family.pair
  <1>1. family \in FamilyRow /\ family.pair \in Nat
    BY DEF TypeOK, FamilyRow
  <1>2. CASE StoreFamily(r)
    <2>1. family = NoFamily
      BY <1>2 DEF StoreFamily, CodeInv, HistoryInv, Chain
    <2> QED BY <1>2, <2>1 DEF StoreFamily, NoFamily
  <1>3. CASE Rotate(r)
    <2>1. Rotated(family).pair = family.pair + 1
      BY <1>1 DEF Rotated, FamilyRow
    <2>2. family' = Rotated(family) \/ family' = family
      BY <1>3 DEF Rotate, FamilyUnchanged
    <2> QED BY <1>1, <2>1, <2>2
  <1>4. CASE Mark(r)
    BY <1>1, <1>4 DEF Mark, FamilyRow
  <1>5. CASE UNCHANGED family
    BY <1>1, <1>5
  <1>6. Step(r) \/ Fail(r)
        => StoreFamily(r) \/ Rotate(r) \/ Mark(r) \/ UNCHANGED family
    BY DEF Step, ReadCode, Consume, Approve, ReadForRefresh, ReadForVerify,
           ReadForRevoke, Check, Reapprove, Owner, Punish, Answer, Fail, stores
  <1> QED BY <1>2, <1>3, <1>4, <1>5, <1>6

\* Every step keeps ReuseInv.
LEMMA ReuseStep ==
  TypeOK /\ TypeOK' /\ CodeInv /\ HistoryInv /\ DoomInv /\ ReuseInv /\ [Next]_vars
  => ReuseInv'
  <1> SUFFICES ASSUME TypeOK, CodeInv, HistoryInv, DoomInv, ReuseInv, [Next]_vars
               PROVE  ReuseInv'
    OBVIOUS
  <1>1. grantActive' => grantActive
    BY GrantEndsOnce
  <1>2. family.pair \in Nat /\ answered \in SUBSET Nat
    BY DEF TypeOK, FamilyRow
  <1>3. ASSUME NEW r \in Request, HasRotated(r)
        PROVE  local[r].token \in Nat /\ local[r].token < family.pair
    BY <1>3 DEF TypeOK, Locals, HasRotated, HistoryInv, Placed, RotatedIsPast
  <1>4. ASSUME UNCHANGED <<family, answered, repeated>>,
               \A q \in Request : HasRotated(q)' =>
                 HasRotated(q) /\ local'[q] = local[q]
        PROVE  ReuseInv'
    BY <1>1, <1>4 DEF ReuseInv, AnsweredOnce, RotationsDiffer
  <1>5. ASSUME NEW r \in Request, Arrive(r) PROVE ReuseInv'
    BY <1>4, <1>5, Arrival DEF HasRotated, stores, ghosts
  <1>6. ASSUME NEW r \in Request, Step(r) \/ Fail(r) PROVE ReuseInv'
    <2>1. ASSUME NEW q \in Request, HasRotated(q)'
          PROVE  \/ q = r /\ local'[q].token = family.pair
                 \/ q # r /\ HasRotated(q) /\ local'[q] = local[q]
      <3>1. CASE q = r
        BY <1>6, <2>1, <3>1, RotationGrants
      <3>2. CASE q # r
        BY <1>6, <2>1, <3>2, OneMoves DEF HasRotated
      <3> QED BY <3>1, <3>2
    <2>2. RotationsDiffer'
      <3> SUFFICES ASSUME NEW p \in Request, NEW q \in Request,
                          HasRotated(p)', HasRotated(q)',
                          local'[p].token = local'[q].token
                   PROVE  p = q
        BY DEF RotationsDiffer
      <3> QED BY <1>2, <1>3, <2>1 DEF ReuseInv, RotationsDiffer
    <2>3. ASSUME grantActive' PROVE AnsweredOnce'
      <3>1. AnsweredOnce
        BY <1>1, <2>3 DEF ReuseInv
      <3>2. family'.pair \in Nat /\ family'.pair >= family.pair
        BY <1>6, PairNeverFalls, TypeStep DEF TypeOK, FamilyRow
      <3>3. CASE UNCHANGED <<answered, repeated>>
        <4>1. \A t \in answered : t \in Nat /\ t < family.pair
          BY <1>2, <3>1 DEF AnsweredOnce
        <4>2. \A t \in answered' : t < family'.pair
          BY <1>2, <3>2, <3>3, <4>1
        <4>3. ASSUME NEW q \in Request, HasRotated(q)'
              PROVE  local'[q].token \notin answered'
          BY <1>2, <2>1, <3>1, <3>3, <4>1, <4>3 DEF AnsweredOnce
        <4> QED BY <3>1, <3>3, <4>2, <4>3 DEF AnsweredOnce
      <3>4. CASE Answer(r) /\ ~UNCHANGED <<answered, repeated>>
        <4> DEFINE t == local[r].token
        <4>1. HasRotated(r) /\ Tell(r) /\ ~HasRotated(r)' /\ family' = family
          BY <3>4, LeaverIsIdle DEF Answer, Conclude, Tell, HasRotated, stores
        <4>2. answered' = answered \union {t} /\ t < family.pair
          BY <1>3, <3>4, <4>1 DEF Tell
        <4>3. repeated' = {}
          BY <3>1, <3>4, <4>1 DEF Tell, AnsweredOnce
        <4>4. ASSUME NEW q \in Request, HasRotated(q)'
              PROVE  local'[q].token \notin answered'
          BY <2>1, <3>1, <4>1, <4>2, <4>4
             DEF AnsweredOnce, ReuseInv, RotationsDiffer
        <4> QED BY <3>1, <4>1, <4>2, <4>3, <4>4 DEF AnsweredOnce
      <3> QED BY <1>1, <1>6, <2>3, <3>3, <3>4, WhileGranted
    <2> QED BY <2>2, <2>3 DEF ReuseInv
  <1>7. CASE Environment
    <2>1. UNCHANGED <<pc, local, family, answered, repeated>>
      BY <1>7, TimeMovesNobody
         DEF ghosts, Environment, CodeExpires, GrantExpires, FamilyExpires,
             AccessExpires
    <2> QED BY <1>4, <2>1 DEF HasRotated
  <1>8. CASE UNCHANGED vars
    BY <1>4, <1>8 DEF HasRotated, vars, stores, ghosts
  <1> QED BY <1>5, <1>6, <1>7, <1>8 DEF Next

\* Once two requests have been answered for one refresh token, the grant has
\* ended.
THEOREM ReuseIsReplayCorrect == Spec => []ReuseIsReplay
  <1>1. ASSUME Init PROVE ReuseInv
    BY <1>1 DEF Init, ReuseInv, AnsweredOnce, RotationsDiffer, HasRotated
  <1>2. ReuseInv => ReuseIsReplay
    BY DEF ReuseInv, AnsweredOnce, ReuseIsReplay
  <1> QED BY <1>1, <1>2, TypeCorrect, DoomHolds, ReuseStep, PTL DEF Spec

-----------------------------------------------------------------------------
(***************************************************************************)
(* The record in Redis is a chain.                                         *)
(***************************************************************************)

\* Whoever is granted a first pair has made the family, and nothing expires
\* that was not made.
ChainInv ==
  /\ ~family.made => familyLive
  /\ \A r \in Request :
       /\ pc[r] = "check" => local[r].op = "verify"
       /\ pc[r] = "granted" /\ local[r].op = "redeem" => family.made

\* A family that was made stays made.
LEMMA MadeStays ==
  ASSUME TypeOK, CodeInv, HistoryInv, NEW r \in Request, Step(r) \/ Fail(r),
         family.made
  PROVE  family'.made
  <1>1. family \in FamilyRow
    BY DEF TypeOK
  <1>2. CASE StoreFamily(r)
    BY <1>2 DEF StoreFamily, CodeInv
  <1>3. CASE Rotate(r)
    <2>1. Rotated(family).made = family.made
      BY <1>1 DEF Rotated, FamilyRow
    <2> QED BY <1>3, <2>1 DEF Rotate, FamilyUnchanged
  <1>4. CASE Mark(r)
    BY <1>1, <1>4 DEF Mark, FamilyRow
  <1>5. CASE UNCHANGED family
    BY <1>5
  <1>6. Step(r) \/ Fail(r)
        => StoreFamily(r) \/ Rotate(r) \/ Mark(r) \/ UNCHANGED family
    BY DEF Step, ReadCode, Consume, Approve, ReadForRefresh, ReadForVerify,
           ReadForRevoke, Check, Reapprove, Owner, Punish, Answer, Fail, stores
  <1> QED BY <1>2, <1>3, <1>4, <1>5, <1>6

\* Where a step puts a request that is to be granted something.
LEMMA GrantedBy ==
  ASSUME TypeOK, HistoryInv, ChainInv, NEW r \in Request, Step(r) \/ Fail(r)
  PROVE  /\ pc'[r] = "check" => local'[r].op = "verify"
         /\ pc'[r] = "granted" /\ local'[r].op = "redeem" => family'.made
  <1>1. CASE ReadCode(r) \/ Consume(r) \/ Approve(r)
    BY <1>1, LeaverIsIdle DEF TypeOK, ReadCode, Consume, Approve, Proceed, Goto
  <1>2. CASE StoreFamily(r)
    <2>1. family'.made
      BY <1>2 DEF StoreFamily, NoFamily
    <2>2. pc'[r] = "granted"
      BY <1>2 DEF TypeOK, StoreFamily, Proceed, Goto
    <2> QED BY <2>1, <2>2
  <1>3. CASE ReadForRefresh(r) \/ ReadForRevoke(r)
    BY <1>3, LeaverIsIdle DEF TypeOK, ReadForRefresh, ReadForRevoke, Goto
  <1>4. CASE ReadForVerify(r)
    BY <1>4, LeaverIsIdle DEF TypeOK, ReadForVerify, Proceed, Goto
  <1>5. CASE Check(r)
    <2>1. local[r].op = "verify"
      BY <1>5 DEF Check, ChainInv
    <2>2. pc'[r] = "idle" \/ (UNCHANGED local /\ pc'[r] = "granted")
      BY <1>5, LeaverIsIdle DEF TypeOK, Check, Proceed, Goto
    <2> QED BY <2>1, <2>2
  <1>6. CASE Reapprove(r)
    BY <1>6, LeaverIsIdle DEF TypeOK, Reapprove, Proceed, Goto
  <1>7. CASE Rotate(r)
    <2>1. local[r].op = "refresh"
      BY <1>7 DEF Rotate, HistoryInv, Placed, RotatorIsCurrent
    <2>2. CASE FamilyUnchanged(r)
      BY <1>7, <2>1, <2>2 DEF TypeOK, Rotate, Proceed, Goto
    <2>3. CASE ~FamilyUnchanged(r)
      BY <1>7, <2>3, LeaverIsIdle DEF TypeOK, Rotate, Retry, Goto
    <2> QED BY <2>2, <2>3
  <1>8. CASE Owner(r) \/ Punish(r)
    BY <1>8, LeaverIsIdle DEF TypeOK, Owner, Punish, ToMark, Proceed, Goto
  <1>9. CASE Mark(r)
    BY <1>9, LeaverIsIdle DEF TypeOK, Mark, Retry, Goto
  <1>10. CASE Answer(r) \/ Fail(r)
    BY <1>10, LeaverIsIdle DEF Answer, Fail
  <1> QED
    BY <1>1, <1>2, <1>3, <1>4, <1>5, <1>6, <1>7, <1>8, <1>9, <1>10 DEF Step

\* Every step keeps ChainInv.
LEMMA ChainInvStep ==
  TypeOK /\ CodeInv /\ HistoryInv /\ ChainInv /\ [Next]_vars => ChainInv'
  <1> SUFFICES ASSUME TypeOK, CodeInv, HistoryInv, ChainInv, [Next]_vars
               PROVE  ChainInv'
    OBVIOUS
  <1>1. ASSUME NEW r \in Request, Arrive(r) PROVE ChainInv'
    BY <1>1, Arrival DEF ChainInv, stores
  <1>2. ASSUME NEW r \in Request, Step(r) \/ Fail(r) PROVE ChainInv'
    <2>1. familyLive' = familyLive
      BY <1>2
         DEF Step, ReadCode, Consume, Approve, StoreFamily, ReadForRefresh,
             ReadForVerify, ReadForRevoke, Check, Reapprove, Rotate, Owner,
             Punish, Mark, Answer, Fail, stores
    <2>2. family.made => family'.made
      BY <1>2, MadeStays
    <2>3. ASSUME NEW q \in Request
          PROVE  /\ pc'[q] = "check" => local'[q].op = "verify"
                 /\ pc'[q] = "granted" /\ local'[q].op = "redeem" => family'.made
      <3>1. CASE q = r
        BY <1>2, <3>1, GrantedBy
      <3>2. CASE q # r
        BY <1>2, <2>2, <3>2, OneMoves DEF ChainInv
      <3> QED BY <3>1, <3>2
    <2> QED BY <2>1, <2>2, <2>3 DEF ChainInv
  <1>3. CASE Environment
    BY <1>3, TimeMovesNobody
       DEF ChainInv, ghosts, Environment, CodeExpires, GrantExpires,
           FamilyExpires, AccessExpires
  <1>4. CASE UNCHANGED vars
    BY <1>4 DEF ChainInv, vars, stores
  <1> QED BY <1>1, <1>2, <1>3, <1>4 DEF Next

\* A step that leaves the record, its life, the grant and the clients alone
\* does not move the chain.
LEMMA ChainStutters ==
  ASSUME UNCHANGED <<family, familyLive, given, grantActive>>
  PROVE  UNCHANGED Chained!chainVars
  BY DEF Chained!chainVars, ChainState, PairsMade

\* Making the family opens the chain.
LEMMA StoreOpens ==
  ASSUME CodeInv, HistoryInv, ChainInv, NEW r \in Request, StoreFamily(r)
  PROVE  Chained!Open
  <1>1. family = NoFamily /\ familyLive
    BY DEF StoreFamily, CodeInv, HistoryInv, Chain, ChainInv
  <1>2. /\ family' = [NoFamily EXCEPT !.made = TRUE]
        /\ UNCHANGED <<familyLive, given, grantActive>>
    BY DEF StoreFamily
  <1>3. /\ family'.made /\ family'.pair = 0 /\ ~family'.revoked
        /\ family'.used = family.used /\ ~family.made
    BY <1>1, <1>2 DEF NoFamily
  <1> QED BY <1>1, <1>2, <1>3 DEF Chained!Open, ChainState, PairsMade

\* A rotation exchanges the current pair, or fails and changes nothing.
LEMMA RotateExchanges ==
  ASSUME TypeOK, HistoryInv, NEW r \in Request, Rotate(r)
  PROVE  Chained!Exchange \/ UNCHANGED Chained!chainVars
  <1>1. UNCHANGED <<familyLive, given, grantActive>>
    BY DEF Rotate
  <1>2. CASE FamilyUnchanged(r)
    <2> DEFINE f == local[r].f
    <2>1. family \in FamilyRow /\ f = family /\ familyLive
      BY <1>2 DEF TypeOK, FamilyUnchanged
    <2>2. f.made /\ ~f.revoked /\ f.pair < MaxUsed
      BY DEF Rotate, HistoryInv, Placed, RotatorIsCurrent, RotatorHasRoom
    <2>3. family' = Rotated(family)
      BY <1>2 DEF Rotate, FamilyUnchanged
    <2>4. /\ family'.made = family.made /\ family'.revoked = family.revoked
          /\ family'.pair = family.pair + 1
          /\ family'.used = family.used \union {family.pair}
      BY <2>1, <2>3 DEF FamilyRow, Rotated
    <2>5. family.pair \in Nat /\ family.pair < MaxUsed /\ family.made
          /\ ~family.revoked
      BY <2>1, <2>2 DEF FamilyRow
    <2>6. ChainState = "open" /\ ChainState' = "open"
      BY <1>1, <2>1, <2>4, <2>5 DEF ChainState
    <2>7. /\ PairsMade = family.pair + 1 /\ PairsMade' = PairsMade + 1
          /\ PairsMade <= MaxUsed /\ PairsMade - 1 = family.pair
      BY <2>4, <2>5, ConstantsOK DEF PairsMade
    <2> QED BY <1>1, <2>4, <2>6, <2>7 DEF Chained!Exchange
  <1>3. CASE ~FamilyUnchanged(r)
    BY <1>1, <1>3, ChainStutters DEF Rotate
  <1> QED BY <1>2, <1>3

\* Marking closes a chain whose grant has ended, or changes nothing.
LEMMA MarkCloses ==
  ASSUME TypeOK, HistoryInv, DoomInv, NEW r \in Request, Mark(r)
  PROVE  Chained!Close \/ UNCHANGED Chained!chainVars
  <1>1. UNCHANGED <<familyLive, given, grantActive>> /\ pc[r] = "mark"
    BY DEF Mark
  <1>2. family \in FamilyRow /\ family.made /\ ~grantActive
    BY <1>1 DEF TypeOK, HistoryInv, Placed, ReplayIsKnown, DoomInv, DoomedAt
  <1>3. CASE FamilyUnchanged(r)
    <2>1. familyLive /\ family' = [family EXCEPT !.revoked = TRUE]
      BY <1>3 DEF Mark, FamilyUnchanged
    <2>2. /\ family'.made = family.made /\ family'.revoked
          /\ family'.pair = family.pair /\ family'.used = family.used
      BY <1>2, <2>1 DEF FamilyRow
    <2>3. PairsMade' = PairsMade
      BY <2>2 DEF PairsMade
    <2>4. ChainState' = "closed"
      BY <1>1, <1>2, <2>1, <2>2 DEF ChainState
    <2>5. ChainState = "open" \/ ChainState = "closed"
      BY <1>2, <2>1 DEF ChainState
    <2>6. CASE ChainState = "open"
      BY <1>1, <1>2, <2>2, <2>3, <2>4, <2>6 DEF Chained!Close
    <2>7. CASE ChainState = "closed"
      BY <1>1, <2>2, <2>3, <2>4, <2>7 DEF Chained!chainVars
    <2> QED BY <2>5, <2>6, <2>7
  <1>4. CASE ~FamilyUnchanged(r)
    BY <1>1, <1>4, ChainStutters DEF Mark
  <1> QED BY <1>3, <1>4

\* An answer hands out a pair that is there, or none.
LEMMA AnswerHands ==
  ASSUME TypeOK, HistoryInv, ChainInv, NEW r \in Request, Answer(r)
  PROVE  Chained!Hand \/ UNCHANGED Chained!chainVars
  <1>1. UNCHANGED <<family, familyLive, grantActive>> /\ pc[r] = "granted"
    BY DEF Answer, stores
  <1>2. family.pair \in Nat /\ local[r].f.pair \in Nat
    BY DEF TypeOK, Locals, FamilyRow
  <1>3. UNCHANGED <<ChainState, PairsMade>>
    BY <1>1 DEF ChainState, PairsMade
  <1>4. ASSUME NEW t \in 0 .. (PairsMade - 1), given' = given \union {t}
        PROVE  Chained!Hand
    BY <1>1, <1>3, <1>4 DEF Chained!Hand
  <1>5. CASE local[r].op = "redeem"
    <2>1. PairsMade = family.pair + 1
      BY <1>1, <1>5 DEF ChainInv, PairsMade
    <2>2. 0 \in 0 .. (PairsMade - 1)
      BY <1>2, <2>1
    <2> QED BY <1>4, <1>5, <2>2 DEF Answer
  <1>6. CASE local[r].op = "refresh"
    <2> DEFINE t == local[r].f.pair + 1
    <2>1. local[r].f.pair < family.pair
      BY <1>1, <1>6 DEF HistoryInv, Placed, RotatedIsPast
    <2>2. family.made
      BY <1>2, <2>1 DEF HistoryInv, Chain, NoFamily
    <2>3. t \in 0 .. (PairsMade - 1)
      BY <1>2, <2>1, <2>2 DEF PairsMade
    <2>4. given' = given \union {t}
      BY <1>6 DEF Answer
    <2> QED BY <1>4, <2>3, <2>4
  <1>7. CASE local[r].op \notin {"redeem", "refresh"}
    BY <1>1, <1>7, ChainStutters DEF Answer
  <1> QED BY <1>5, <1>6, <1>7

\* Every step is a step of the chain, or none.
LEMMA StepMapsToChain ==
  TypeOK /\ CodeInv /\ HistoryInv /\ DoomInv /\ ChainInv /\ [Next]_vars
  => [Chained!Next]_Chained!chainVars
  <1> SUFFICES ASSUME TypeOK, CodeInv, HistoryInv, DoomInv, ChainInv, [Next]_vars
               PROVE  Chained!Next \/ UNCHANGED Chained!chainVars
    OBVIOUS
  <1>1. ASSUME NEW r \in Request,
               \/ Arrive(r) \/ Fail(r) \/ ReadCode(r) \/ Consume(r) \/ Approve(r)
               \/ ReadForRefresh(r) \/ ReadForVerify(r) \/ ReadForRevoke(r)
               \/ Check(r) \/ Reapprove(r) \/ Owner(r)
        PROVE  UNCHANGED Chained!chainVars
    <2>1. UNCHANGED <<family, familyLive, given, grantActive>>
      BY <1>1, Arrival
         DEF Fail, ReadCode, Consume, Approve, ReadForRefresh, ReadForVerify,
             ReadForRevoke, Check, Reapprove, Owner, stores, ghosts
    <2> QED BY <2>1, ChainStutters
  <1>2. ASSUME NEW r \in Request, Punish(r)
        PROVE  Chained!End \/ UNCHANGED Chained!chainVars
    <2>1. UNCHANGED <<family, familyLive, given>> /\ grantActive' = FALSE
      BY <1>2 DEF Punish
    <2>2. UNCHANGED <<ChainState, PairsMade>>
      BY <2>1 DEF ChainState, PairsMade
    <2>3. grantActive \in BOOLEAN
      BY DEF TypeOK
    <2> QED BY <2>1, <2>2, <2>3 DEF Chained!End, Chained!chainVars
  <1>3. CASE Environment
    <2>1. CASE CodeExpires \/ AccessExpires
      BY <2>1, ChainStutters DEF CodeExpires, AccessExpires, ghosts
    <2>2. CASE GrantExpires
      <3>1. Chained!End
        BY <2>2 DEF GrantExpires, Chained!End, ChainState, PairsMade, ghosts
      <3> QED BY <3>1 DEF Chained!Next
    <2>3. CASE FamilyExpires
      <3>1. Chained!Lapse
        BY <2>3 DEF FamilyExpires, Chained!Lapse, ChainState, PairsMade, ghosts
      <3> QED BY <3>1 DEF Chained!Next
    <2> QED BY <1>3, <2>1, <2>2, <2>3 DEF Environment
  <1>4. CASE UNCHANGED vars
    BY <1>4, ChainStutters DEF vars, stores, ghosts
  <1>5. ASSUME NEW r \in Request, Arrive(r) \/ Step(r) \/ Fail(r)
        PROVE  Chained!Next \/ UNCHANGED Chained!chainVars
    <2>1. CASE StoreFamily(r)
      BY <2>1, StoreOpens DEF Chained!Next
    <2>2. CASE Rotate(r)
      BY <2>2, RotateExchanges DEF Chained!Next
    <2>3. CASE Mark(r)
      BY <2>3, MarkCloses DEF Chained!Next
    <2>4. CASE Answer(r)
      BY <2>4, AnswerHands DEF Chained!Next
    <2>5. CASE Punish(r)
      BY <1>2, <2>5 DEF Chained!Next
    <2> QED BY <1>1, <1>5, <2>1, <2>2, <2>3, <2>4, <2>5 DEF Step
  <1> QED BY <1>3, <1>4, <1>5 DEF Next

\* The record in Redis moves on as a chain of pairs: TokenFamily implements
\* TokenChain.
THEOREM RecordIsAChain == Spec => ImplementsChain
  <1>1. ASSUME Init PROVE ChainInv
    BY <1>1 DEF Init, ChainInv
  <1>2. ASSUME Init PROVE Chained!Init
    BY <1>2 DEF Init, Chained!Init, ChainState, PairsMade, NoFamily
  <1>3. Spec => []ChainInv
    BY <1>1, ChainInvStep, HistoryHolds, PTL DEF Spec
  <1>4. Spec => [][Chained!Next]_Chained!chainVars
    BY <1>3, DoomHolds, StepMapsToChain, PTL DEF Spec
  <1> QED BY <1>2, <1>4, PTL DEF Spec, ImplementsChain, Chained!Spec
=============================================================================
