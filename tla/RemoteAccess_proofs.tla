-------------------------- MODULE RemoteAccess_proofs -------------------------
(***************************************************************************)
(* Once access has ended at the OAuth endpoints no call writes, for every  *)
(* number of requests and calls and all rows, digests and grants.          *)
(*                                                                         *)
(* Every step of the composition is one of RemoteWrites and one of         *)
(* TokenFamily, or leaves it alone.  So what RemoteWrites_proofs shows     *)
(* holds here, RevocationStopsWrites among it.  What remains is that the   *)
(* grant has ended when it is said to have (EndedInv), and that a call     *)
(* which came too late has seen it (LateInv).  The types of the requests   *)
(* are shown again: theorems cannot be cited through an INSTANCE.          *)
(***************************************************************************)
EXTENDS RemoteAccess, RemoteWrites_proofs

Ended == HomeGrant \in revoked

-----------------------------------------------------------------------------
\* Past the decision over a replayed or revoked token the grant has ended.
PastDecision(r) ==
  /\ rpc[r] = "mark" => Ended
  /\ rlocal[r].ending /\ rpc[r] \notin {"owner", "punish"} => Ended
  /\ rlocal[r].f.revoked => Ended

EndedInv ==
  /\ doomed => Ended
  /\ family.revoked => Ended
  /\ \A r \in Request : PastDecision(r)

\* A late call that found a preview saw the grant revoked.
LateInv ==
  \A c \in Call :
    c \in late /\ pc[c] \in Confirming => HomeGrant \in local[c].stale

-----------------------------------------------------------------------------
(***************************************************************************)
(* The composition, seen by its parts.                                     *)
(***************************************************************************)

\* To the calls it is the protocol of RemoteWrites.
LEMMA SeenByCalls == AccessSpec => Spec
  <1>1. [AccessNext]_accessVars => [Next]_vars
    <2> SUFFICES ASSUME [AccessNext]_accessVars  PROVE [Next]_vars
      OBVIOUS
    <2>1. ASSUME NEW r \in Request, OAuth(r)  PROVE [Next]_vars
      <3>1. CASE revoked' = revoked
        BY <2>1, <3>1 DEF OAuth, callVars, vars
      <3>2. CASE revoked' # revoked
        <4>1. Revoke(HomeGrant)
          BY <2>1, <3>2 DEF OAuth, callVars, Revoke
        <4> QED BY <4>1, ConstantsOK DEF Next, Environment
      <3> QED BY <3>1, <3>2
    <2>2. ASSUME NEW r \in Request, NEW c \in Call, Admit(r, c)
          PROVE  [Next]_vars
      BY <2>2 DEF Admit, callVars, vars
    <2>3. ASSUME NEW c \in Call, Begin(c) \/ Continue(c)  PROVE [Next]_vars
      BY <2>3 DEF Begin, Continue, Next
    <2>4. CASE Outside
      BY <2>4 DEF Outside, callVars, vars, Next
    <2>5. CASE UNCHANGED accessVars
      BY <2>5 DEF accessVars, callVars, vars
    <2> QED BY <2>1, <2>2, <2>3, <2>4, <2>5 DEF AccessNext
  <1>2. AccessInit => Init
    BY DEF AccessInit
  <1> QED BY <1>1, <1>2, PTL DEF AccessSpec, Spec

\* Only the grant's owners and the requests touch what the requests see.
LEMMA SeenByRequests ==
  [AccessNext]_accessVars => [Tokens!Next]_Tokens!vars
  <1> SUFFICES ASSUME [AccessNext]_accessVars
               PROVE  [Tokens!Next]_Tokens!vars
    OBVIOUS
  <1> USE DEF Tokens!vars, Tokens!stores, Tokens!ghosts, tokenVars
  <1>1. ASSUME NEW r \in Request, OAuth(r)  PROVE Tokens!Next
    BY <1>1 DEF OAuth, Tokens!Next
  <1>2. ASSUME NEW r \in Request, NEW c \in Call, Admit(r, c)
        PROVE  Tokens!Next
    BY <1>2 DEF Admit, Tokens!Next, Tokens!Step
  <1>3. ASSUME UNCHANGED <<tokenVars, revoked>>  PROVE UNCHANGED Tokens!vars
    BY <1>3
  <1>4. ASSUME NEW c \in Call, Begin(c) \/ Continue(c)
        PROVE  UNCHANGED Tokens!vars
    <2>1. UNCHANGED revoked
      BY <1>4 DEF Begin, Continue, Arrive, OpenSession, ReadSession, Step,
                  Lock,
                  Switch, Status, Authorize, CheckBlocked, Purge, Insert,
                  LookUp,
                  Recheck, CheckGrants, Claim, Send, Answer, Record, Release,
                  Failure, Crash, QueryFails, LockReplyLost, ClaimReplyLost
    <2>2. UNCHANGED tokenVars
      BY <1>4 DEF Begin, Continue
    <2> QED BY <1>3, <2>1, <2>2
  <1>5. ASSUME NEW g \in Grant, Revoke(g), UNCHANGED tokenVars
        PROVE  [Tokens!Next]_Tokens!vars
    <2>1. CASE g = HomeGrant
      <3>1. Tokens!GrantExpires
        BY <1>5, <2>1 DEF Revoke, Tokens!GrantExpires
      <3> QED BY <3>1 DEF Tokens!Next, Tokens!Environment
    <2>2. CASE g # HomeGrant
      BY <1>5, <2>2 DEF Revoke
    <2> QED BY <2>1, <2>2
  <1>6. CASE Outside
    <2>1. ASSUME Environment, UNCHANGED tokenVars
          PROVE  [Tokens!Next]_Tokens!vars
      <3>1. CASE \E g \in Grant : Revoke(g)
        BY <1>5, <2>1, <3>1
      <3>2. CASE ~\E g \in Grant : Revoke(g)
        BY <1>3, <2>1, <3>2 DEF Environment, ExpireSession, ExpireWork,
                                RejectAfterReview
      <3> QED BY <3>1, <3>2
    <2>2. ASSUME \/ Tokens!CodeExpires \/ Tokens!FamilyExpires
                 \/ Tokens!AccessExpires
          PROVE  Tokens!Next
      BY <2>2 DEF Tokens!Next, Tokens!Environment
    <2> QED BY <1>6, <2>1, <2>2 DEF Outside
  <1>7. CASE UNCHANGED accessVars
    BY <1>3, <1>7 DEF accessVars
  <1> QED BY <1>1, <1>2, <1>4, <1>6, <1>7 DEF AccessNext

-----------------------------------------------------------------------------
(***************************************************************************)
(* The types of the requests.                                              *)
(***************************************************************************)

\* The sets of pc values, for leaves that compare them.
USE DEF Tokens!Redeeming, Tokens!Rotating, Tokens!Ending

\* The idle values have their type.
LEMMA IdleRequestType == Tokens!NoLocals \in Tokens!Locals
  BY DEF Tokens!NoLocals, Tokens!Locals, Tokens!NoFamily, Tokens!FamilyRow,
         Tokens!Operations

\* So has the record that does not exist.
LEMMA NoFamilyType == Tokens!NoFamily \in Tokens!FamilyRow
  BY DEF Tokens!NoFamily, Tokens!FamilyRow

\* Rotating and marking keep the record's type, and so does making it.
LEMMA FamilyUpdate ==
  ASSUME NEW f \in Tokens!FamilyRow
  PROVE  /\ Tokens!Rotated(f) \in Tokens!FamilyRow
         /\ [f EXCEPT !.revoked = TRUE] \in Tokens!FamilyRow
         /\ [f EXCEPT !.made = TRUE] \in Tokens!FamilyRow
  <1>1. Tokens!Rotated(f) \in Tokens!FamilyRow
    <2>1. f.pair + 1 \in Nat /\ f.used \union {f.pair} \in SUBSET Nat
      BY DEF Tokens!FamilyRow
    <2> QED BY <2>1 DEF Tokens!Rotated, Tokens!FamilyRow
  <1>2. [f EXCEPT !.revoked = TRUE] \in Tokens!FamilyRow
    BY DEF Tokens!FamilyRow
  <1>3. [f EXCEPT !.made = TRUE] \in Tokens!FamilyRow
    BY DEF Tokens!FamilyRow
  <1> QED BY <1>1, <1>2, <1>3

\* Leaving, telling and retrying keep the types of what they change.
LEMMA LeaverType ==
  ASSUME Tokens!TypeOK, NEW r \in Request, Tokens!Leave(r)
  PROVE  /\ rpc' \in [Request -> Tokens!Pc]
         /\ rlocal' \in [Request -> Tokens!Locals]
  BY IdleRequestType DEF Tokens!TypeOK, Tokens!Leave, Tokens!Goto, Tokens!Pc

\* Ending a request keeps the types.
LEMMA EnderType ==
  ASSUME Tokens!TypeOK, NEW r \in Request,
  Tokens!Refuse(r) \/ Tokens!Conclude(r)
  PROVE  /\ rpc' \in [Request -> Tokens!Pc]
         /\ rlocal' \in [Request -> Tokens!Locals]
         /\ answered' \in SUBSET Nat /\ repeated' \in SUBSET Nat
         /\ doomed' \in BOOLEAN
  <1>1. /\ rpc' \in [Request -> Tokens!Pc]
        /\ rlocal' \in [Request -> Tokens!Locals]
    BY LeaverType DEF Tokens!Refuse, Tokens!Conclude, Tokens!End
  <1>2. rlocal[r] \in Tokens!Locals
    BY DEF Tokens!TypeOK
  <1>3. doomed' \in BOOLEAN
    BY DEF Tokens!Refuse, Tokens!Conclude, Tokens!End
  <1>4. answered' \in SUBSET Nat /\ repeated' \in SUBSET Nat
    BY <1>2 DEF Tokens!TypeOK, Tokens!Refuse, Tokens!Conclude, Tokens!Tell,
                Tokens!Locals
  <1> QED BY <1>1, <1>3, <1>4

\* So does another attempt.
LEMMA RetrierType ==
  ASSUME Tokens!TypeOK, NEW r \in Request, Tokens!Retry(r)
  PROVE  /\ rpc' \in [Request -> Tokens!Pc]
         /\ rlocal' \in [Request -> Tokens!Locals]
         /\ answered' \in SUBSET Nat /\ repeated' \in SUBSET Nat
         /\ doomed' \in BOOLEAN
  <1>1. CASE Tokens!Conclude(r)
    BY <1>1, EnderType
  <1>2. CASE ~Tokens!Conclude(r)
    <2>1. rlocal[r] \in Tokens!Locals /\ Tokens!NoFamily \in Tokens!FamilyRow
      BY NoFamilyType DEF Tokens!TypeOK
    <2>2. [rlocal[r] EXCEPT !.attempt = rlocal[r].attempt + 1]
          \in Tokens!Locals
      BY <2>1 DEF Tokens!Locals
    <2> QED BY <1>2, <2>2 DEF Tokens!TypeOK, Tokens!Retry, Tokens!Goto,
                              Tokens!Pc
  <1> QED BY <1>1, <1>2

\* Every step keeps the types.
LEMMA RequestTypeStep ==
  Tokens!TypeOK /\ [Tokens!Next]_Tokens!vars => Tokens!TypeOK'
  <1> SUFFICES ASSUME Tokens!TypeOK,
  [Tokens!Next]_Tokens!vars PROVE Tokens!TypeOK'
    OBVIOUS
  <1> USE IdleRequestType, EnderType DEF Tokens!Goto, Tokens!Proceed,
                                         Tokens!stores, Tokens!ghosts
  <1>1. ASSUME NEW r \in Request, Tokens!Arrive(r) PROVE Tokens!TypeOK'
    <2>1. ASSUME NEW op \in Tokens!Operations, NEW kind \in {"at", "rt"},
                 NEW t \in Nat, NEW p \in {"code", "family"},
                 Tokens!Begin(r, op, kind, t, p)
          PROVE  Tokens!TypeOK'
      <3>1. [Tokens!NoLocals EXCEPT !.op = op, !.kind = kind, !.token = t,
               !.attempt = 1, !.late = doomed] \in Tokens!Locals
        BY DEF Tokens!TypeOK, Tokens!Locals
      <3> QED BY <2>1, <3>1 DEF Tokens!TypeOK, Tokens!Begin, Tokens!Pc
    <2>2. given \subseteq Nat
      BY DEF Tokens!TypeOK
    <2> QED BY <1>1, <2>1, <2>2 DEF Tokens!Arrive, Tokens!Operations
  <1>2. ASSUME NEW r \in Request, Tokens!ReadCode(r) PROVE Tokens!TypeOK'
    BY <1>2 DEF Tokens!TypeOK, Tokens!ReadCode, Tokens!Pc
  <1>3. ASSUME NEW r \in Request, Tokens!Consume(r) PROVE Tokens!TypeOK'
    BY <1>3 DEF Tokens!TypeOK, Tokens!Consume, Tokens!Pc
  <1>4. ASSUME NEW r \in Request, Tokens!Approve(r) PROVE Tokens!TypeOK'
    BY <1>4 DEF Tokens!TypeOK, Tokens!Approve, Tokens!Pc
  <1>5. ASSUME NEW r \in Request, Tokens!StoreFamily(r) PROVE Tokens!TypeOK'
    <2>1. [Tokens!NoFamily EXCEPT !.made = TRUE] \in Tokens!FamilyRow
      BY NoFamilyType, FamilyUpdate
    <2> QED BY <1>5, <2>1 DEF Tokens!TypeOK, Tokens!StoreFamily, Tokens!Pc
  <1>6. ASSUME NEW r \in Request, Tokens!ReadForRefresh(r) PROVE Tokens!TypeOK'
    <2>1. rlocal[r] \in Tokens!Locals /\ family \in Tokens!FamilyRow
      BY DEF Tokens!TypeOK
    <2>2. [rlocal[r] EXCEPT !.f = family] \in Tokens!Locals
      BY <2>1 DEF Tokens!Locals
    <2>3. [[rlocal[r] EXCEPT !.f = family] EXCEPT !.ending = TRUE]
          \in Tokens!Locals
      BY <2>1 DEF Tokens!Locals
    <2>4. /\ rpc' \in [Request -> Tokens!Pc]
          /\ rlocal' \in [Request -> Tokens!Locals]
          /\ answered' \in SUBSET Nat /\ repeated' \in SUBSET Nat
          /\ doomed' \in BOOLEAN
      BY <1>6, <2>2, <2>3 DEF Tokens!TypeOK, Tokens!ReadForRefresh, Tokens!Pc
    <2> QED BY <1>6, <2>4 DEF Tokens!TypeOK, Tokens!ReadForRefresh
  <1>7. ASSUME NEW r \in Request, Tokens!ReadForVerify(r) PROVE Tokens!TypeOK'
    BY <1>7 DEF Tokens!TypeOK, Tokens!ReadForVerify, Tokens!Pc
  <1>8. ASSUME NEW r \in Request, Tokens!ReadForRevoke(r) PROVE Tokens!TypeOK'
    <2>1. rlocal[r] \in Tokens!Locals /\ family \in Tokens!FamilyRow
      BY DEF Tokens!TypeOK
    <2>2. [rlocal[r] EXCEPT !.f = family, !.ending = TRUE] \in Tokens!Locals
      BY <2>1 DEF Tokens!Locals
    <2>3. /\ rpc' \in [Request -> Tokens!Pc]
          /\ rlocal' \in [Request -> Tokens!Locals]
          /\ answered' \in SUBSET Nat /\ repeated' \in SUBSET Nat
          /\ doomed' \in BOOLEAN
      BY <1>8, <2>2 DEF Tokens!TypeOK, Tokens!ReadForRevoke, Tokens!Pc
    <2> QED BY <1>8, <2>3 DEF Tokens!TypeOK, Tokens!ReadForRevoke
  <1>9. ASSUME NEW r \in Request, Tokens!Check(r) PROVE Tokens!TypeOK'
    BY <1>9 DEF Tokens!TypeOK, Tokens!Check, Tokens!Pc
  <1>10. ASSUME NEW r \in Request, Tokens!Reapprove(r) PROVE Tokens!TypeOK'
    BY <1>10 DEF Tokens!TypeOK, Tokens!Reapprove, Tokens!Pc
  <1>11. ASSUME NEW r \in Request, Tokens!Rotate(r) PROVE Tokens!TypeOK'
    <2>1. rlocal[r] \in Tokens!Locals /\ rlocal[r].f \in Tokens!FamilyRow
      BY DEF Tokens!TypeOK, Tokens!Locals
    <2>2. Tokens!Rotated(rlocal[r].f) \in Tokens!FamilyRow
      BY <2>1, FamilyUpdate
    <2>3. CASE Tokens!FamilyUnchanged(r)
      BY <1>11, <2>2, <2>3 DEF Tokens!TypeOK, Tokens!Rotate, Tokens!Pc
    <2>4. CASE ~Tokens!FamilyUnchanged(r)
      BY <1>11, <2>4, RetrierType DEF Tokens!TypeOK, Tokens!Rotate
    <2> QED BY <2>3, <2>4
  <1>12. ASSUME NEW r \in Request, Tokens!Owner(r) PROVE Tokens!TypeOK'
    BY <1>12 DEF Tokens!TypeOK, Tokens!Owner, Tokens!ToMark, Tokens!Pc
  <1>13. ASSUME NEW r \in Request, Tokens!Punish(r) PROVE Tokens!TypeOK'
    BY <1>13 DEF Tokens!TypeOK, Tokens!Punish, Tokens!ToMark, Tokens!Pc
  <1>14. ASSUME NEW r \in Request, Tokens!Mark(r) PROVE Tokens!TypeOK'
    <2>1. CASE Tokens!FamilyUnchanged(r)
      <3>1. [family EXCEPT !.revoked = TRUE] \in Tokens!FamilyRow
        BY FamilyUpdate DEF Tokens!TypeOK
      <3> QED BY <1>14, <2>1, <3>1 DEF Tokens!TypeOK, Tokens!Mark
    <2>2. CASE ~Tokens!FamilyUnchanged(r)
      BY <1>14, <2>2, RetrierType DEF Tokens!TypeOK, Tokens!Mark
    <2> QED BY <2>1, <2>2
  <1>15. ASSUME NEW r \in Request, Tokens!Answer(r) PROVE Tokens!TypeOK'
    <2>1. rlocal[r].f.pair + 1 \in Nat
      BY DEF Tokens!TypeOK, Tokens!Locals, Tokens!FamilyRow
    <2>2. given' \in SUBSET Nat
      BY <1>15, <2>1 DEF Tokens!TypeOK, Tokens!Answer
    <2> QED BY <1>15, <2>2 DEF Tokens!TypeOK, Tokens!Answer
  <1>16. ASSUME NEW r \in Request, Tokens!Fail(r) PROVE Tokens!TypeOK'
    BY <1>16, LeaverType DEF Tokens!TypeOK, Tokens!Fail
  <1>17. CASE Tokens!Environment
    BY <1>17 DEF Tokens!TypeOK, Tokens!Environment, Tokens!CodeExpires,
                 Tokens!GrantExpires, Tokens!FamilyExpires,
                 Tokens!AccessExpires
  <1>18. CASE UNCHANGED Tokens!vars
    BY <1>18 DEF Tokens!TypeOK, Tokens!vars
  <1> QED
    BY <1>1, <1>2, <1>3, <1>4, <1>5, <1>6, <1>7, <1>8, <1>9, <1>10, <1>11,
       <1>12, <1>13, <1>14, <1>15, <1>16, <1>17, <1>18 DEF Tokens!Next,
                                                           Tokens!Step

-----------------------------------------------------------------------------
(***************************************************************************)
(* Where access has ended, the grant has.                                  *)
(***************************************************************************)

\* Whoever leaves with an answer has seen the grant end if the token was to
\* end it.
LEMMA LeaverIsDone ==
  ASSUME Tokens!TypeOK, EndedInv, Ended => Ended', NEW r \in Request,
         rpc[r] \notin {"owner", "punish"} \/ Ended',
         Tokens!Refuse(r) \/ Tokens!Conclude(r)
  PROVE  (doomed' => Ended') /\ \A q \in Request : PastDecision(q)'
  <1>1. doomed' => Ended'
    BY DEF EndedInv, PastDecision, Tokens!Refuse, Tokens!Conclude, Tokens!End
  <1>2. ASSUME NEW q \in Request  PROVE PastDecision(q)'
    <2>1. CASE q = r
      <3>1. rpc'[q] = "idle" /\ rlocal'[q] = Tokens!NoLocals
        BY <2>1 DEF Tokens!Refuse, Tokens!Conclude, Tokens!End, Tokens!Leave,
                    Tokens!Goto, Tokens!TypeOK
      <3> QED BY <3>1 DEF PastDecision, Tokens!NoLocals, Tokens!NoFamily
    <2>2. CASE q # r
      <3>1. rpc'[q] = rpc[q] /\ rlocal'[q] = rlocal[q]
        BY <2>2 DEF Tokens!Refuse, Tokens!Conclude, Tokens!End, Tokens!Leave,
                    Tokens!Goto, Tokens!TypeOK
      <3> QED BY <3>1 DEF EndedInv, PastDecision
    <2> QED BY <2>1, <2>2
  <1> QED BY <1>1, <1>2

\* A request that goes on with what it had read keeps its promise.
LEMMA GoerIsFine ==
  ASSUME Tokens!TypeOK, EndedInv, Ended => Ended', NEW r \in Request,
         UNCHANGED doomed,
         \A q \in Request \ {r} : rpc'[q] = rpc[q] /\ rlocal'[q] = rlocal[q],
         PastDecision(r)'
  PROVE  (doomed' => Ended') /\ \A q \in Request : PastDecision(q)'
  BY DEF EndedInv, PastDecision

\* A failed compare-and-set sends the request back or lets it go.
LEMMA RetrierIsFine ==
  ASSUME Tokens!TypeOK, EndedInv, Ended => Ended', NEW r \in Request,
         rpc[r] \in {"rotate", "mark"}, Tokens!Retry(r)
  PROVE  (doomed' => Ended') /\ \A q \in Request : PastDecision(q)'
  <1>1. CASE Tokens!Conclude(r)
    BY <1>1, LeaverIsDone
  <1>2. CASE ~Tokens!Conclude(r)
    <2>1. /\ rpc' = [rpc EXCEPT ![r] = "family"]
          /\ rlocal' = [rlocal EXCEPT ![r].attempt = @ + 1]
          /\ UNCHANGED doomed
      BY <1>2 DEF Tokens!Retry, Tokens!Goto
    <2>2. rlocal[r] \in Tokens!Locals
      BY DEF Tokens!TypeOK
    <2>3. /\ rpc'[r] = "family" /\ rlocal'[r].ending = rlocal[r].ending
          /\ rlocal'[r].f = rlocal[r].f
      BY <2>1, <2>2 DEF Tokens!TypeOK, Tokens!Locals
    <2>4. PastDecision(r)'
      BY <2>3 DEF EndedInv, PastDecision
    <2>5. \A q \in Request \ {r} : rpc'[q] = rpc[q] /\ rlocal'[q] = rlocal[q]
      BY <2>1 DEF Tokens!TypeOK
    <2> QED BY <2>1, <2>4, <2>5, GoerIsFine
  <1> QED BY <1>1, <1>2

\* One statement of a request, when it goes on and only its place changes.
LEMMA MoverIsFine ==
  ASSUME Tokens!TypeOK, EndedInv, Ended => Ended', NEW r \in Request,
         NEW p, Tokens!Proceed(r, p), UNCHANGED doomed,
         p = "mark" => Ended',
         rpc[r] \in {"owner", "punish"} => p \in {"owner", "punish"} \/ Ended'
  PROVE  (doomed' => Ended') /\ \A q \in Request : PastDecision(q)'
  <1>1. rpc'[r] = p /\ rlocal' = rlocal
    BY DEF Tokens!Proceed, Tokens!Goto, Tokens!TypeOK
  <1>2. PastDecision(r)'
    BY <1>1 DEF EndedInv, PastDecision
  <1>3. \A q \in Request \ {r} : rpc'[q] = rpc[q] /\ rlocal'[q] = rlocal[q]
    BY DEF Tokens!Proceed, Tokens!Goto, Tokens!TypeOK
  <1> QED BY <1>2, <1>3, GoerIsFine

\* After PostgreSQL the grant has ended.
LEMMA MarkerIsFine ==
  ASSUME Tokens!TypeOK, EndedInv, Ended => Ended', Ended', NEW r \in Request,
         Tokens!ToMark(r)
  PROVE  (doomed' => Ended') /\ \A q \in Request : PastDecision(q)'
  <1>1. CASE rlocal[r].f.revoked
    BY <1>1, LeaverIsDone DEF Tokens!ToMark
  <1>2. CASE ~rlocal[r].f.revoked
    BY <1>2, MoverIsFine DEF Tokens!ToMark
  <1> QED BY <1>1, <1>2

\* Every step of a request keeps EndedInv.
LEMMA EndedStep ==
  Tokens!TypeOK /\ EndedInv /\ [Tokens!Next]_Tokens!vars => EndedInv'
  <1> SUFFICES ASSUME Tokens!TypeOK, EndedInv, [Tokens!Next]_Tokens!vars
               PROVE  EndedInv'
    OBVIOUS
  <1> DEFINE Fine == (doomed' => Ended') /\ \A q \in Request : PastDecision(q)'
  <1> USE DEF Tokens!stores, Tokens!ghosts, Ended
  <1>0. ASSUME Ended => Ended', family'.revoked => family.revoked, Fine
        PROVE  EndedInv'
    BY <1>0 DEF EndedInv
  <1>1. ASSUME NEW r \in Request, Tokens!Arrive(r)  PROVE EndedInv'
    <2>1. PICK op \in Tokens!Operations, kind \in {"at", "rt"} :
            \E t \in Nat, p \in {"code", "family"} :
              Tokens!Begin(r, op, kind, t, p)
      BY <1>1 DEF Tokens!Arrive, Tokens!Operations, Tokens!TypeOK
    <2>2. PICK t \in Nat, p \in {"code", "family"} :
            Tokens!Begin(r, op, kind, t, p)
      BY <2>1
    <2>3. /\ rpc' = [rpc EXCEPT ![r] = p] /\ p \in {"code", "family"}
          /\ rlocal' = [rlocal EXCEPT ![r] =
               [Tokens!NoLocals EXCEPT !.op = op, !.kind = kind, !.token = t,
                                       !.attempt = 1, !.late = doomed]]
          /\ UNCHANGED <<doomed, family>> /\ (Ended => Ended')
      BY <2>2 DEF Tokens!Begin, Tokens!Goto
    <2>4. rpc'[r] = p /\ ~rlocal'[r].ending /\ ~rlocal'[r].f.revoked
      BY <2>3 DEF Tokens!TypeOK, Tokens!NoLocals, Tokens!NoFamily
    <2>5. PastDecision(r)'
      BY <2>3, <2>4 DEF PastDecision
    <2>6. \A q \in Request \ {r} : rpc'[q] = rpc[q] /\ rlocal'[q] = rlocal[q]
      BY <2>3 DEF Tokens!TypeOK
    <2>7. Fine
      BY <2>3, <2>5, <2>6, GoerIsFine
    <2> QED BY <1>0, <2>3, <2>7
  <1>2. ASSUME NEW r \in Request, Tokens!Fail(r)  PROVE EndedInv'
    <2>1. /\ rpc' = [rpc EXCEPT ![r] = "idle"]
          /\ rlocal' = [rlocal EXCEPT ![r] = Tokens!NoLocals]
          /\ UNCHANGED <<doomed, family>> /\ (Ended => Ended')
      BY <1>2 DEF Tokens!Fail, Tokens!Leave, Tokens!Goto
    <2>2. PastDecision(r)'
      BY <2>1 DEF PastDecision, Tokens!NoLocals, Tokens!NoFamily, Tokens!TypeOK
    <2>3. \A q \in Request \ {r} : rpc'[q] = rpc[q] /\ rlocal'[q] = rlocal[q]
      BY <2>1 DEF Tokens!TypeOK
    <2>4. Fine
      BY <2>1, <2>2, <2>3, GoerIsFine
    <2> QED BY <1>0, <2>1, <2>4
  <1>3. ASSUME NEW r \in Request,
               Tokens!ReadCode(r) \/ Tokens!Approve(r) \/ Tokens!Check(r)
               \/ Tokens!ReadForVerify(r) \/ Tokens!Reapprove(r)
               \/ Tokens!Consume(r)
        PROVE  EndedInv'
    <2>1. /\ rpc[r] \notin {"owner", "punish"}
          /\ UNCHANGED family /\ (Ended => Ended')
      BY <1>3 DEF Tokens!ReadCode, Tokens!Approve, Tokens!Check,
                  Tokens!ReadForVerify, Tokens!Reapprove, Tokens!Consume
    <2>2. \/ Tokens!Refuse(r) \/ Tokens!Conclude(r)
          \/ \E p \in {"consume", "approve", "store", "check", "granted",
                       "rotate"} :
               Tokens!Proceed(r, p) /\ UNCHANGED doomed
      BY <1>3 DEF Tokens!ReadCode, Tokens!Approve, Tokens!Check,
                  Tokens!ReadForVerify, Tokens!Reapprove, Tokens!Consume
    <2>3. CASE Tokens!Refuse(r) \/ Tokens!Conclude(r)
      <3>1. Fine
        BY <2>1, <2>3, LeaverIsDone
      <3> QED BY <1>0, <2>1, <3>1
    <2>4. ASSUME NEW p \in {"consume", "approve", "store", "check", "granted",
                            "rotate"},
                 Tokens!Proceed(r, p), UNCHANGED doomed
          PROVE  EndedInv'
      <3>1. Fine
        BY <2>1, <2>4, MoverIsFine
      <3> QED BY <1>0, <2>1, <3>1
    <2> QED BY <2>2, <2>3, <2>4
  <1>4. ASSUME NEW r \in Request, Tokens!StoreFamily(r)  PROVE EndedInv'
    <2>1. Tokens!Proceed(r, "granted") /\ UNCHANGED doomed /\ (Ended => Ended')
      BY <1>4 DEF Tokens!StoreFamily
    <2>2. Fine
      BY <1>4, <2>1, MoverIsFine DEF Tokens!StoreFamily
    <2>3. ~family'.revoked
      BY <1>4 DEF Tokens!StoreFamily, Tokens!NoFamily
    <2> QED BY <1>0, <2>1, <2>2, <2>3
  <1>5. ASSUME NEW r \in Request,
  Tokens!ReadForRefresh(r) \/ Tokens!ReadForRevoke(r)
        PROVE  EndedInv'
    <2>1. /\ rpc[r] = "family" /\ UNCHANGED family /\ (Ended => Ended')
      BY <1>5 DEF Tokens!ReadForRefresh, Tokens!ReadForRevoke
    <2>2. CASE Tokens!Refuse(r) \/ Tokens!Conclude(r)
      <3>1. Fine
        BY <2>1, <2>2, LeaverIsDone
      <3> QED BY <1>0, <2>1, <3>1
    <2>3. CASE ~(Tokens!Refuse(r) \/ Tokens!Conclude(r))
      <3>1. rlocal[r] \in Tokens!Locals
        BY DEF Tokens!TypeOK
      <3>2. \/ /\ rlocal' = [rlocal EXCEPT ![r] =
                    [[rlocal[r] EXCEPT !.f = family] EXCEPT !.ending = TRUE]]
               /\ rpc' = [rpc EXCEPT ![r] = "owner"]
            \/ /\ rlocal' = [rlocal EXCEPT ![r].f = family, ![r].ending = TRUE]
               /\ rpc' = [rpc EXCEPT ![r] = "owner"]
            \/ /\ rlocal' = [rlocal EXCEPT ![r] =
                    [rlocal[r] EXCEPT !.f = family]]
               /\ rpc' = [rpc EXCEPT ![r] = "reapprove"]
        BY <1>5, <2>3 DEF Tokens!ReadForRefresh, Tokens!ReadForRevoke,
                          Tokens!Goto
      <3>3. \/ /\ rlocal'[r] = [[rlocal[r] EXCEPT !.f = family]
                                                EXCEPT !.ending = TRUE]
               /\ rpc'[r] = "owner"
            \/ /\ rlocal'[r] = [rlocal[r] EXCEPT !.f = family, !.ending = TRUE]
               /\ rpc'[r] = "owner"
            \/ /\ rlocal'[r] = [rlocal[r] EXCEPT !.f = family]
               /\ rpc'[r] = "reapprove"
        BY <3>2 DEF Tokens!TypeOK
      <3>4. /\ rlocal'[r].f = family /\ rpc'[r] \in {"owner", "reapprove"}
            /\ rpc'[r] = "reapprove" => rlocal'[r].ending = rlocal[r].ending
        BY <3>1, <3>3 DEF Tokens!Locals
      <3>5. PastDecision(r)'
        BY <2>1, <3>4 DEF EndedInv, PastDecision
      <3>6. \A q \in Request \ {r} : rpc'[q] = rpc[q] /\ rlocal'[q] = rlocal[q]
        BY <3>2 DEF Tokens!TypeOK
      <3>7. UNCHANGED doomed
        BY <1>5, <2>3 DEF Tokens!ReadForRefresh, Tokens!ReadForRevoke
      <3>8. Fine
        BY <2>1, <3>5, <3>6, <3>7, GoerIsFine
      <3> QED BY <1>0, <2>1, <3>8
    <2> QED BY <2>2, <2>3
  <1>6. ASSUME NEW r \in Request, Tokens!Rotate(r)  PROVE EndedInv'
    <2>1. rpc[r] = "rotate" /\ (Ended => Ended')
      BY <1>6 DEF Tokens!Rotate
    <2>2. CASE Tokens!FamilyUnchanged(r)
      <3>1. Fine
        BY <1>6, <2>1, <2>2, MoverIsFine DEF Tokens!Rotate
      <3>2. rlocal[r].f = family /\ family' = Tokens!Rotated(family)
        BY <1>6, <2>2 DEF Tokens!Rotate, Tokens!FamilyUnchanged
      <3>3. family'.revoked = family.revoked
        BY <3>2 DEF Tokens!Rotated, Tokens!TypeOK, Tokens!FamilyRow
      <3> QED BY <1>0, <2>1, <3>1, <3>3
    <2>3. CASE ~Tokens!FamilyUnchanged(r)
      <3>1. Tokens!Retry(r) /\ UNCHANGED family
        BY <1>6, <2>3 DEF Tokens!Rotate
      <3>2. Fine
        BY <2>1, <3>1, RetrierIsFine
      <3> QED BY <1>0, <2>1, <3>1, <3>2
    <2> QED BY <2>2, <2>3
  <1>7. ASSUME NEW r \in Request, Tokens!Owner(r)  PROVE EndedInv'
    <2>1. UNCHANGED family /\ (Ended => Ended')
      BY <1>7 DEF Tokens!Owner
    <2>2. CASE Ended
      <3>1. Fine
        BY <1>7, <2>1, <2>2, MarkerIsFine DEF Tokens!Owner
      <3> QED BY <1>0, <2>1, <3>1
    <2>3. CASE ~Ended
      <3>1. Fine
        BY <1>7, <2>1, <2>3, MoverIsFine DEF Tokens!Owner
      <3> QED BY <1>0, <2>1, <3>1
    <2> QED BY <2>2, <2>3
  <1>8. ASSUME NEW r \in Request, Tokens!Punish(r)  PROVE EndedInv'
    <2>1. UNCHANGED family /\ Ended'
      BY <1>8 DEF Tokens!Punish
    <2>2. Fine
      BY <1>8, <2>1, MarkerIsFine DEF Tokens!Punish
    <2> QED BY <1>0, <2>1, <2>2
  <1>9. ASSUME NEW r \in Request, Tokens!Mark(r)  PROVE EndedInv'
    <2>1. rpc[r] = "mark" /\ Ended /\ Ended'
      BY <1>9 DEF Tokens!Mark, EndedInv, PastDecision
    <2>2. Fine
      BY <1>9, <2>1, LeaverIsDone, RetrierIsFine DEF Tokens!Mark
    <2> QED BY <2>1, <2>2 DEF EndedInv
  <1>10. ASSUME NEW r \in Request, Tokens!Answer(r)  PROVE EndedInv'
    <2>1. /\ rpc[r] = "granted" /\ UNCHANGED family /\ (Ended => Ended')
          /\ Tokens!Conclude(r)
      BY <1>10 DEF Tokens!Answer
    <2>2. Fine
      BY <2>1, LeaverIsDone
    <2> QED BY <1>0, <2>1, <2>2
  <1>11. CASE Tokens!Environment
    BY <1>11 DEF Tokens!Environment, Tokens!CodeExpires, Tokens!GrantExpires,
                 Tokens!FamilyExpires, Tokens!AccessExpires, EndedInv,
                 PastDecision
  <1>12. CASE UNCHANGED Tokens!vars
    BY <1>12 DEF Tokens!vars, EndedInv, PastDecision
  <1> QED
    BY <1>1, <1>2, <1>3, <1>4, <1>5, <1>6, <1>7, <1>8, <1>9, <1>10, <1>11,
       <1>12 DEF Tokens!Next, Tokens!Step

-----------------------------------------------------------------------------
(***************************************************************************)
(* A late call has seen the grant end.                                     *)
(***************************************************************************)

\* A call is confirming because it looked its preview up, or was before.
LEMMA StaysConfirming ==
  ASSUME TypeOK, NEW c \in Call, Step(c) \/ Failure(c), pc[c] # "lookup",
         pc'[c] \in Confirming
  PROVE  pc[c] \in Confirming /\ local'[c].stale = local[c].stale
  <1>1. ASSUME NEW p, p \notin Confirming, Goto(c, p)  PROVE FALSE
    BY <1>1 DEF Goto, TypeOK
  <1>2. ~Return(c) /\ ~Throw(c)
    BY <1>1 DEF Return, Throw, Proceed, Confirming, Claimed
  <1>3. ~Failure(c)
    BY <1>2 DEF Failure, Crash, QueryFails, LockReplyLost, ClaimReplyLost
  <1>4. ~Switch(c)
    BY <1>1, SwitchOnly DEF Confirming, Claimed
  <1>5. \A w \in WorkId : ~LookUp(c, w)
    BY Zenon DEF LookUp
  <1>6. ~Lock(c) /\ ~Status(c) /\ ~Authorize(c) /\ ~CheckBlocked(c)
    BY <1>1, <1>2 DEF Lock, Status, Authorize, CheckBlocked, FirstStep,
                      Proceed, Confirming, Claimed
  <1>7. ~Purge(c) /\ ~Insert(c) /\ ~Release(c) /\ ~Record(c)
    BY <1>1, <1>2 DEF Purge, Insert, Release, Record, Proceed, Confirming,
                      Claimed
  <1>8. CASE Recheck(c) \/ CheckGrants(c) \/ Claim(c)
    BY <1>2, <1>8 DEF Recheck, CheckGrants, Claim, Proceed, Confirming
  <1>9. CASE Send(c) \/ Answer(c)
    <2>1. local[c] \in Locals
      BY DEF TypeOK
    <2>2. \/ local' = local
          \/ \E o \in Outcome : local' = [local EXCEPT ![c].outcome = o]
      BY <1>9 DEF Send, Answer, Proceed, Outcome
    <2>3. local'[c].stale = local[c].stale
      BY <2>1, <2>2 DEF TypeOK, Locals
    <2>4. pc[c] \in {"send", "await"}
      BY <1>9 DEF Send, Answer
    <2> QED BY <2>3, <2>4 DEF Confirming, Claimed
  <1> QED BY <1>3, <1>4, <1>5, <1>6, <1>7, <1>8, <1>9 DEF Step

\* Looking a preview up notes what was revoked.
LEMMA LookUpNotes ==
  ASSUME TypeOK, NEW c \in Call, Step(c) \/ Failure(c), pc[c] = "lookup",
         pc'[c] \in Confirming
  PROVE  local'[c].stale = revoked
  <1>1. ~Failure(c)
    BY DEF Failure, Crash, QueryFails, LockReplyLost, ClaimReplyLost, Return,
           Throw, Proceed, Goto, TypeOK, Confirming, Claimed
  <1>2. PICK w \in WorkId : LookUp(c, w)
    BY <1>1 DEF Step, Lock, Switch, Status, Authorize, CheckBlocked, Purge,
                Insert, Recheck, CheckGrants, Claim, Send, Answer, Record,
                Release
  <1>3. Confirmable(w, c)
    BY <1>2 DEF LookUp, Proceed, Goto, TypeOK, Confirming, Claimed
  <1>4. local'[c] = [local[c] EXCEPT !.wid = w, !.wver = work[w].ver,
                       !.wstatus = work[w].status, !.stale = revoked]
    BY <1>2, <1>3 DEF LookUp, TypeOK
  <1>5. local[c] \in Locals
    BY DEF TypeOK
  <1> QED BY <1>4, <1>5 DEF Locals

\* Every step keeps LateInv.
LEMMA LateStep ==
  TypeOK /\ EndedInv /\ LateInv /\ [AccessNext]_accessVars => LateInv'
  <1> SUFFICES ASSUME TypeOK, EndedInv, LateInv, [AccessNext]_accessVars,
                      NEW c \in Call, c \in late', pc'[c] \in Confirming
               PROVE  HomeGrant \in local'[c].stale
    BY DEF LateInv
  <1>1. CASE UNCHANGED <<pc, local, late>>
    BY <1>1 DEF LateInv
  <1>2. ASSUME NEW d \in Call, d # c, Begin(d) \/ Continue(d)
        PROVE  HomeGrant \in local'[c].stale
    <2>1. Arrive(d) \/ Step(d) \/ Failure(d)
      BY <1>2 DEF Begin, Continue
    <2>2. c \in late
      BY <1>2 DEF Begin, Continue
    <2>3. pc'[c] = pc[c] /\ local'[c] = local[c]
      BY <1>2, <2>1, OthersAlone
    <2> QED BY <2>2, <2>3 DEF LateInv
  <1>3. ~Begin(c)
    BY DEF Begin, Arrive, OpenSession, ReadSession, Return, Goto, TypeOK,
           Confirming, Claimed
  <1>4. CASE Continue(c)
    <2>1. CASE pc[c] = "lookup"
      <3>1. doomed
        BY <1>4, <2>1 DEF Continue
      <3>2. local'[c].stale = revoked
        BY <1>4, <2>1, LookUpNotes DEF Continue
      <3> QED BY <3>1, <3>2 DEF EndedInv, Ended
    <2>2. CASE pc[c] # "lookup"
      <3>1. c \in late
        BY <1>4, <2>2 DEF Continue
      <3>2. pc[c] \in Confirming /\ local'[c].stale = local[c].stale
        BY <1>4, <2>2, StaysConfirming DEF Continue
      <3> QED BY <3>1, <3>2 DEF LateInv
    <2> QED BY <2>1, <2>2
  <1>5. ASSUME NEW r \in Request, OAuth(r) \/ \E d \in Call : Admit(r, d)
        PROVE  UNCHANGED <<pc, local, late>>
    BY <1>5 DEF OAuth, Admit, callVars
  <1>6. CASE Outside
    <2>1. Environment => UNCHANGED <<pc, local>>
      BY DEF Environment, ExpireSession, ExpireWork, RejectAfterReview, Revoke
    <2> QED BY <1>1, <1>6, <2>1 DEF Outside, callVars
  <1>7. CASE UNCHANGED accessVars
    BY <1>1, <1>7 DEF accessVars, callVars
  <1> QED BY <1>1, <1>2, <1>3, <1>4, <1>5, <1>6, <1>7 DEF AccessNext

\* Once a replay or a revocation was answered at the OAuth endpoints, no call
\* that reads its preview afterwards writes.
THEOREM EndedAccessIsHeeded == AccessSpec => []EndedAccessWritesNothing
  <1>1. AccessInit => Tokens!TypeOK /\ EndedInv /\ LateInv
    <2> SUFFICES ASSUME AccessInit
                 PROVE  Tokens!TypeOK /\ EndedInv /\ LateInv
      OBVIOUS
    <2>1. /\ rpc \in [Request -> Tokens!Pc]
          /\ rlocal \in [Request -> Tokens!Locals]
      BY IdleRequestType DEF AccessInit, Tokens!Init, Tokens!Pc
    <2>2. Tokens!TypeOK
      BY <2>1, NoFamilyType DEF AccessInit, Tokens!Init, Tokens!TypeOK
    <2>3. EndedInv
      BY DEF AccessInit, Tokens!Init, Tokens!NoLocals, Tokens!NoFamily,
             EndedInv, PastDecision
    <2>4. LateInv
      BY DEF AccessInit, LateInv
    <2> QED BY <2>2, <2>3, <2>4
  <1>2. Tokens!TypeOK /\ [AccessNext]_accessVars => Tokens!TypeOK'
    BY SeenByRequests, RequestTypeStep
  <1>3. Tokens!TypeOK /\ EndedInv /\ [AccessNext]_accessVars => EndedInv'
    BY SeenByRequests, EndedStep
  <1>4. AccessSpec => [](TypeOK /\ RevocationStopsWrites)
    BY SeenByCalls, TypeCorrect, RevocationIsHeeded, PTL
  <1>5. AccessSpec => []LateInv
    BY <1>1, <1>2, <1>3, <1>4, LateStep, PTL DEF AccessSpec
  <1>6. RevocationStopsWrites /\ LateInv => EndedAccessWritesNothing
    BY DEF RevocationStopsWrites, LateInv, EndedAccessWritesNothing, Confirming
  <1> QED BY <1>4, <1>5, <1>6, PTL

\* The composition implements both of its parts around the one grant row: a
\* request that ends the grant is a revocation to the calls, and the end of the
\* grant by other means is its expiry to the requests (runtimeServer.ts).
THEOREM PartsKeepTheirPromises == AccessSpec => Spec /\ Tokens!Spec
  <1>1. AccessInit => Tokens!Init
    BY DEF AccessInit
  <1> QED BY <1>1, SeenByCalls, SeenByRequests, PTL DEF AccessSpec, Tokens!Spec
=============================================================================
