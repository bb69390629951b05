------------------------- MODULE RemoteWrites_proofs -------------------------
(***************************************************************************)
(* The safety invariants of RemoteWrites hold for every set of sessions,   *)
(* calls, rows, digests and grants, with and without faults.               *)
(*                                                                         *)
(* The argument has layers, each inductive given the ones before it:       *)
(*   TypeOK      the types;                                                *)
(*   LockInv     what holding a session means: the row is busy at the      *)
(*               version after the one the holder read, so a second CAS    *)
(*               cannot succeed;                                           *)
(*   WriteInv    what a claim means: the claimed row is running in the     *)
(*               holder's scope and nothing else there is unresolved;      *)
(*   EraInv      epochs only grow, so a row of the current epoch was made  *)
(*               since the last switch;                                    *)
(*   StaleInv    what a call saw revoked stays revoked, on its own.        *)
(***************************************************************************)
EXTENDS RemoteWrites, TLAPS

-----------------------------------------------------------------------------
\* A call past Lock owns the busy row, as read except for one version.
HolderOwnsRow ==
  \A c \in Call : pc[c] \in Holding =>
    LET row == session[local[c].sid] IN
    /\ row.status = "busy"
    /\ row.ver = local[c].ver + 1
    /\ row.epoch = local[c].epoch
    /\ row.grant = local[c].grant

\* A call about to lock has read a version that is still current or past.
ReadIsPast ==
  \A c \in Call : pc[c] = "lock" =>
    LET row == session[local[c].sid] IN
    /\ row.status # "absent"
    /\ local[c].ver <= row.ver
    /\ local[c].ver = row.ver => /\ row.epoch = local[c].epoch
                                /\ row.grant = local[c].grant

LockInv == HolderOwnsRow /\ ReadIsPast /\ SessionExclusive

-----------------------------------------------------------------------------
\* A confirming call works on a row of its own scope, still there.
ConfirmsOwnScope ==
  \A c \in Call : pc[c] \in Confirming =>
    /\ work[local[c].wid].scope = Scope(c)
    /\ work[local[c].wid].status # "absent"
    /\ local[c].wstatus = "pending"

ClaimIsRunning ==
  \A c \in Call : pc[c] \in Claimed =>
    /\ work[local[c].wid].status = "running"
    /\ work[local[c].wid].ver = local[c].wver + 1

\* Between the second hasUncertain and the claim the scope stays clear.
ScopeClear ==
  \A c \in Call : pc[c] \in {"grants", "claim"} => ~HasUncertain(Scope(c))

\* Requests are counted from the claim on.
UnsentBeforeClaim ==
  /\ \A w \in WorkId : work[w].status \in {"absent", "pending"} => sent[w] = 0
  /\ \A c \in Call : pc[c] = "send" => sent[local[c].wid] = 0

AckedOutcome ==
  \A c \in Call : pc[c] = "record" /\ local[c].outcome = "submitted" =>
    local[c].wid \in acked

\* UNIQUE(owner_hash, kind, dedup).
KeyUnique ==
  \A v, w \in WorkId :
    /\ Stored(v) /\ Stored(w)
    /\ work[v].scope = work[w].scope
    /\ work[v].digest = work[w].digest
    => v = w

WriteInv ==
  /\ ConfirmsOwnScope
  /\ ClaimIsRunning
  /\ ScopeClear
  /\ UnsentBeforeClaim
  /\ AckedOutcome
  /\ KeyUnique
  /\ AtMostOneRequest
  /\ OneUnresolvedPerScope
  /\ NothingForgotten
  /\ SubmittedWasAcked

-----------------------------------------------------------------------------
\* A call stores the epoch it read, or the one after it when it switched.
NextIsRead ==
  \A c \in Call : pc[c] # "idle" =>
    local[c].nextEpoch = IF local[c].switched THEN local[c].epoch + 1
                                              ELSE local[c].epoch

\* Rows carry past epochs of their session; those of the current epoch were
\* made in the current era.
EpochsArePast ==
  \A w \in WorkId : work[w].status # "absent" =>
    LET s == work[w].scope[1] IN
    /\ session[s].status # "absent"
    /\ work[w].scope[2] <= session[s].epoch
    /\ work[w].scope[2] = session[s].epoch => work[w].era = era[s]

EraInv == NextIsRead /\ EpochsArePast

\* What a call has seen revoked is still revoked, and once its grants were
\* read again none of them is among it.
StaleInv ==
  \A c \in Call :
    /\ local[c].stale \subseteq revoked
    /\ pc[c] \in {"claim"} \union Claimed =>
         {local[c].grant, HomeGrant} \cap local[c].stale = {}

-----------------------------------------------------------------------------
\* The sets of pc values, for leaves that compare them.
USE DEF BeforeLock, Claimed, Confirming, Holding

\* The idle values have their type.
LEMMA NoLocalsType == NoLocals \in Locals
  BY ConstantsOK DEF NoLocals, Locals, Tools, WorkStatus, Kept, Unresolved,
                     Outcome

\* Moving pc keeps its type.
LEMMA GotoType ==
  ASSUME pc \in [Call -> Pc], NEW c \in Call, NEW p \in Pc, Goto(c, p)
  PROVE  pc' \in [Call -> Pc]
  BY DEF Goto

\* What the CAS of replace() writes over a row is a row.
LEMMA RowUpdate ==
  ASSUME NEW n \in Nat
  PROVE  /\ \A r \in SessionRow, st \in {"absent", "pending", "busy"} :
              [r EXCEPT !.status = st, !.ver = n] \in SessionRow
         /\ \A r \in WorkRow, st \in WorkStatus :
              [r EXCEPT !.status = st, !.ver = n] \in WorkRow
         /\ \A r \in Locals, g \in Grant :
              [r EXCEPT !.nextGrant = g, !.nextEpoch = n, !.switched = TRUE]
                \in Locals
  BY DEF SessionRow, WorkRow, Locals

\* Every step keeps the types.
LEMMA TypeStep == TypeOK /\ [Next]_vars => TypeOK'
  <1> SUFFICES ASSUME TypeOK, [Next]_vars PROVE TypeOK'
    OBVIOUS
  <1> USE ConstantsOK, NoLocalsType DEF TypeOK, Goto, Proceed, Return, Throw
  <1>1. ASSUME NEW c \in Call, NEW s \in Session, OpenSession(c, s)
        PROVE  TypeOK'
    BY <1>1 DEF OpenSession, SessionRow, Pc
  <1>2. ASSUME NEW c \in Call, NEW s \in Session, NEW t \in Tools,
               ReadSession(c, t, s)
        PROVE  TypeOK'
    <2>1. session[s] \in SessionRow
      OBVIOUS
    <2>2. [NoLocals EXCEPT
             !.tool = t, !.sid = s, !.ver = session[s].ver,
             !.epoch = session[s].epoch, !.grant = session[s].grant,
             !.nextEpoch = session[s].epoch,
             !.nextGrant = session[s].grant] \in Locals
      BY <2>1 DEF Locals, SessionRow
    <2>3. pc' \in [Call -> Pc]
      BY <1>2 DEF ReadSession, Pc
    <2>4. local' \in [Call -> Locals]
      BY <1>2, <2>2 DEF ReadSession
    <2> QED BY <1>2, <2>3, <2>4 DEF ReadSession
  <1>3. ASSUME NEW c \in Call, Lock(c) PROVE TypeOK'
    <2>1. local[c] \in Locals
      OBVIOUS
    <2>2. FirstStep(local[c].tool) \in Pc
      BY <2>1 DEF FirstStep, Pc, Locals
    <2>3. session' \in [Session -> SessionRow]
      <3> DEFINE s == local[c].sid
                 row == [session[s] EXCEPT !.status = "busy",
                                           !.ver = session[s].ver + 1]
      <3>1. s \in Session
        BY <2>1 DEF Locals
      <3>2. row \in SessionRow
        <4>1. session[s] \in SessionRow /\ session[s].ver + 1 \in Nat
          BY <3>1 DEF SessionRow
        <4> QED BY <4>1, RowUpdate
      <3>3. session' = [session EXCEPT ![s] = row] \/ session' = session
        BY <1>3, <3>1 DEF Lock
      <3> QED BY <3>1, <3>2, <3>3
    <2>4. pc' \in [Call -> Pc]
      BY <1>3, <2>2 DEF Lock, Pc
    <2>5. local' \in [Call -> Locals]
      BY <1>3 DEF Lock
    <2> QED BY <1>3, <2>3, <2>4, <2>5 DEF Lock
  <1>4. ASSUME NEW c \in Call, Switch(c) PROVE TypeOK'
    <2>1. local[c] \in Locals /\ "release" \in Pc
      BY DEF Pc
    <2>2. ASSUME NEW g \in Grant
          PROVE  [local[c] EXCEPT !.nextGrant = g, !.nextEpoch = NextEpoch(c),
                                  !.switched = TRUE] \in Locals
      <3>1. NextEpoch(c) \in Nat
        BY <2>1 DEF Locals, NextEpoch
      <3> QED BY <2>1, <3>1, RowUpdate
    <2>3. local' \in [Call -> Locals]
      <3>1. CASE UNCHANGED local
        BY <3>1
      <3>2. CASE \E g \in Grant : local' = [local EXCEPT ![c] =
                   [@ EXCEPT !.nextGrant = g, !.nextEpoch = NextEpoch(c),
                             !.switched = TRUE]]
        BY <2>2, <3>2
      <3> QED BY <1>4, <3>1, <3>2 DEF Switch
    <2> QED BY <1>4, <2>1, <2>3 DEF Switch
  <1>5. ASSUME NEW c \in Call, Status(c) PROVE TypeOK'
    BY <1>5 DEF Status, Pc
  <1>6. ASSUME NEW c \in Call, Authorize(c) PROVE TypeOK'
    <2>1. {"release", "lookup", "blocked"} \subseteq Pc
      BY DEF Pc
    <2>2. ASSUME NEW d \in Digest
          PROVE  [local EXCEPT ![c].digest = d] \in [Call -> Locals]
      BY DEF Locals
    <2>3. local' \in [Call -> Locals]
      BY <1>6, <2>2 DEF Authorize
    <2>4. pc' \in [Call -> Pc]
      BY <1>6, <2>1 DEF Authorize
    <2> QED BY <1>6, <2>3, <2>4 DEF Authorize
  <1>7. ASSUME NEW c \in Call, CheckBlocked(c) PROVE TypeOK'
    BY <1>7 DEF CheckBlocked, Pc
  <1>8. ASSUME NEW c \in Call, Purge(c) PROVE TypeOK'
    BY <1>8 DEF Purge, Pc, WorkRow, WorkStatus
  <1>9. ASSUME NEW c \in Call, Insert(c) PROVE TypeOK'
    <2>1. local[c] \in Locals /\ "release" \in Pc
      BY DEF Pc
    <2>2. Scope(c) \in Scopes /\ local[c].digest \in Digest
          /\ era[local[c].sid] \in Nat
      BY <2>1 DEF Scope, Scopes, Locals
    <2>3. [status |-> "pending", ver |-> 0, scope |-> Scope(c),
           digest |-> local[c].digest, live |-> TRUE, nack |-> FALSE,
           era |-> era[local[c].sid]] \in WorkRow
      BY <2>2 DEF WorkRow, WorkStatus
    <2>4. work' \in [WorkId -> WorkRow]
      BY <1>9, <2>3 DEF Insert
    <2> QED BY <1>9, <2>1, <2>4 DEF Insert
  <1>10. ASSUME NEW c \in Call, NEW w \in WorkId, LookUp(c, w)
         PROVE  TypeOK'
    <2>1. local[c] \in Locals /\ work[w] \in WorkRow
          /\ {"release", "recheck"} \subseteq Pc
      BY DEF Pc
    <2>2. [local[c] EXCEPT !.wid = w, !.wver = work[w].ver,
             !.wstatus = work[w].status, !.stale = revoked] \in Locals
      BY <2>1 DEF Locals, WorkRow
    <2>3. local' \in [Call -> Locals]
      BY <1>10, <2>2 DEF LookUp
    <2>4. pc' \in [Call -> Pc]
      BY <1>10, <2>1 DEF LookUp
    <2> QED BY <1>10, <2>3, <2>4 DEF LookUp
  <1>11. ASSUME NEW c \in Call, Recheck(c) PROVE TypeOK'
    BY <1>11 DEF Recheck, Pc
  <1>12. ASSUME NEW c \in Call, CheckGrants(c) PROVE TypeOK'
    BY <1>12 DEF CheckGrants, Pc
  <1>13. ASSUME NEW c \in Call, Claim(c) PROVE TypeOK'
    BY <1>13 DEF Claim, Pc, WorkRow, WorkStatus, Kept, Unresolved
  <1>14. ASSUME NEW c \in Call, Send(c) PROVE TypeOK'
    <2>1. local[c] \in Locals /\ {"await", "record"} \subseteq Pc
          /\ "response_unavailable" \in Outcome
      BY DEF Pc, Outcome
    <2>2. sent' \in [WorkId -> Nat]
      BY <1>14, <2>1 DEF Send, Locals
    <2>3. local' \in [Call -> Locals]
      BY <1>14, <2>1 DEF Send, Locals
    <2>4. pc' \in [Call -> Pc]
      BY <1>14, <2>1 DEF Send
    <2> QED BY <1>14, <2>2, <2>3, <2>4 DEF Send
  <1>15. ASSUME NEW c \in Call, Answer(c) PROVE TypeOK'
    BY <1>15 DEF Answer, Locals, Pc, AfterAnswer
  <1>16. ASSUME NEW c \in Call, Record(c) PROVE TypeOK'
    BY <1>16 DEF Record, Pc, WorkRow, WorkStatus, Kept, Unresolved,
                 RecordedStatus
  <1>17. ASSUME NEW c \in Call, Release(c) PROVE TypeOK'
    BY <1>17 DEF Release, SessionRow, Locals, Pc
  <1>18. ASSUME NEW c \in Call, Failure(c) PROVE TypeOK'
    <2>1. CASE Crash(c)
      BY <2>1 DEF Crash, Pc
    <2>2. CASE QueryFails(c)
      BY <2>2 DEF QueryFails, Pc
    <2>3. CASE LockReplyLost(c)
      BY <2>3 DEF LockReplyLost, SessionRow, Locals, Pc
    <2>4. CASE ClaimReplyLost(c)
      <3>1. "release" \in Pc /\ "running" \in WorkStatus
        BY DEF Pc, WorkStatus, Kept, Unresolved
      <3>2. work' \in [WorkId -> WorkRow]
        <4> DEFINE w == local[c].wid
                   row == [work[w] EXCEPT !.status = "running",
                                          !.ver = work[w].ver + 1]
        <4>1. w \in WorkId
          BY DEF Locals
        <4>2. row \in WorkRow
          <5>1. work[w] \in WorkRow /\ work[w].ver + 1 \in Nat
            BY <4>1 DEF WorkRow
          <5> QED BY <3>1, <5>1, RowUpdate
        <4>3. work' = [work EXCEPT ![w] = row]
          BY <2>4, <4>1 DEF ClaimReplyLost
        <4> QED BY <4>1, <4>2, <4>3
      <3> QED BY <2>4, <3>1, <3>2 DEF ClaimReplyLost
    <2> QED BY <1>18, <2>1, <2>2, <2>3, <2>4 DEF Failure
  <1>19. ASSUME Environment PROVE TypeOK'
    <2>1. ASSUME NEW s \in Session, ExpireSession(s) PROVE TypeOK'
      BY <2>1 DEF ExpireSession, SessionRow
    <2>2. ASSUME NEW w \in WorkId, ExpireWork(w) PROVE TypeOK'
      BY <2>2 DEF ExpireWork, WorkRow
    <2>3. ASSUME NEW w \in WorkId, RejectAfterReview(w) PROVE TypeOK'
      BY <2>3 DEF RejectAfterReview, WorkRow, WorkStatus, Kept,
                  ReviewedStatus
    <2>4. ASSUME NEW g \in Grant, Revoke(g) PROVE TypeOK'
      BY <2>4 DEF Revoke
    <2> QED BY <1>19, <2>1, <2>2, <2>3, <2>4 DEF Environment
  <1>20. CASE UNCHANGED vars
    BY <1>20 DEF vars
  <1> QED
    BY <1>1, <1>2, <1>3, <1>4, <1>5, <1>6, <1>7, <1>8, <1>9, <1>10, <1>11,
       <1>12, <1>13, <1>14, <1>15, <1>16, <1>17, <1>18, <1>19, <1>20
       DEF Next, Arrive, Step

\* Every variable keeps its type, for all values of the constants.
THEOREM TypeCorrect == Spec => []TypeOK
  <1>1. Init => TypeOK
    BY ConstantsOK, NoLocalsType
       DEF Init, TypeOK, SessionRow, AbsentSession, WorkRow, AbsentWork,
           Scopes, WorkStatus, Pc
  <1> QED BY <1>1, TypeStep, PTL DEF Spec

-----------------------------------------------------------------------------
(***************************************************************************)
(* The session lock.                                                       *)
(***************************************************************************)

\* What the lock is about in a call's locals: nothing between Lock and
\* Release rewrites it.
SameReading ==
  \A d \in Call : /\ local'[d].sid = local[d].sid
                  /\ local'[d].ver = local[d].ver
                  /\ local'[d].epoch = local[d].epoch
                  /\ local'[d].grant = local[d].grant

\* A step inside the try block leaves the lock as it is.
LEMMA InsideStep ==
  ASSUME TypeOK, LockInv, NEW c \in Call, NEW p \in Holding,
         pc[c] \in Holding, Goto(c, p), SameReading, UNCHANGED session
  PROVE  LockInv'
  BY DEF TypeOK, LockInv, HolderOwnsRow, ReadIsPast, SessionExclusive,
         SameReading, Goto

\* A call that ends without touching the session row.
LEMMA LeaveStep ==
  ASSUME TypeOK, LockInv, NEW c \in Call, Return(c), UNCHANGED session
  PROVE  LockInv'
  BY DEF TypeOK, LockInv, HolderOwnsRow, ReadIsPast, SessionExclusive,
         Return, Goto

\* A query that gives the call its place in the try block, or sends it home.
LEMMA ProceedInside ==
  ASSUME TypeOK, LockInv, NEW c \in Call, NEW p \in Holding,
         pc[c] \in Holding, Proceed(c, p), UNCHANGED session
  PROVE  LockInv'
  <1>1. SameReading
    BY DEF Proceed, SameReading
  <1> QED BY <1>1, InsideStep DEF Proceed

\* Writing other locals leaves the reading alone.
LEMMA EditKeepsReading ==
  ASSUME NEW r \in Locals, NEW n, NEW g, NEW w, NEW v, NEW st, NEW R
  PROVE  /\ LET q == [r EXCEPT !.nextGrant = g, !.nextEpoch = n,
                               !.switched = TRUE]
            IN  /\ q.sid = r.sid /\ q.ver = r.ver
                /\ q.epoch = r.epoch /\ q.grant = r.grant
         /\ LET q == [r EXCEPT !.wid = w, !.wver = v, !.wstatus = st,
                               !.stale = R]
            IN  /\ q.sid = r.sid /\ q.ver = r.ver
                /\ q.epoch = r.epoch /\ q.grant = r.grant
  BY DEF Locals

\* Another statement's effect on the locals keeps the reading.
LEMMA KeepsReading ==
  ASSUME TypeOK, NEW c \in Call
  PROVE  /\ Switch(c) => SameReading
         /\ Authorize(c) => SameReading
         /\ \A w \in WorkId : LookUp(c, w) => SameReading
         /\ Send(c) => SameReading
         /\ Answer(c) => SameReading
  <1> USE DEF TypeOK, Locals, SameReading, Throw, Proceed
  <1>1. ASSUME Switch(c) PROVE SameReading
    <2>1. CASE UNCHANGED local
      BY <2>1
    <2>2. ASSUME NEW g \in Grant, local' = [local EXCEPT ![c] =
                   [@ EXCEPT !.nextGrant = g, !.nextEpoch = NextEpoch(c),
                             !.switched = TRUE]]
          PROVE  SameReading
      <3>1. local'[c] = [local[c] EXCEPT !.nextGrant = g,
                           !.nextEpoch = NextEpoch(c), !.switched = TRUE]
        BY <2>2
      <3>2. \A d \in Call \ {c} : local'[d] = local[d]
        BY <2>2
      <3>3. local[c] \in Locals
        OBVIOUS
      <3>4. /\ local'[c].sid = local[c].sid
            /\ local'[c].ver = local[c].ver
            /\ local'[c].epoch = local[c].epoch
            /\ local'[c].grant = local[c].grant
        BY <3>1, <3>3, EditKeepsReading
      <3> QED BY <3>2, <3>4
    <2> QED BY <1>1, <2>1, <2>2 DEF Switch
  <1>2. ASSUME Authorize(c) PROVE SameReading
    BY <1>2 DEF Authorize
  <1>3. ASSUME NEW w \in WorkId, LookUp(c, w) PROVE SameReading
    <2>1. CASE UNCHANGED local
      BY <2>1
    <2>2. CASE local' = [local EXCEPT ![c] =
                 [@ EXCEPT !.wid = w, !.wver = work[w].ver,
                           !.wstatus = work[w].status, !.stale = revoked]]
      <3>1. local'[c] = [local[c] EXCEPT !.wid = w, !.wver = work[w].ver,
                           !.wstatus = work[w].status, !.stale = revoked]
        BY <2>2
      <3>2. \A d \in Call \ {c} : local'[d] = local[d]
        BY <2>2
      <3>3. local[c] \in Locals
        OBVIOUS
      <3>4. /\ local'[c].sid = local[c].sid
            /\ local'[c].ver = local[c].ver
            /\ local'[c].epoch = local[c].epoch
            /\ local'[c].grant = local[c].grant
        BY <3>1, <3>3, EditKeepsReading
      <3> QED BY <3>2, <3>4
    <2> QED BY <1>3, <2>1, <2>2 DEF LookUp
  <1>4. ASSUME Send(c) PROVE SameReading
    BY <1>4 DEF Send
  <1>5. ASSUME Answer(c) PROVE SameReading
    BY <1>5 DEF Answer
  <1> QED BY <1>1, <1>2, <1>3, <1>4, <1>5

\* The CAS to 'busy' takes effect.
LEMMA LockTaken ==
  ASSUME TypeOK, LockInv, NEW c \in Call, NEW s, s = local[c].sid,
         pc[c] = "lock",
         SessionUnchanged(s, local[c].ver, "pending"),
         session' = [session EXCEPT ![s].status = "busy", ![s].ver = @ + 1],
         \/ \E p \in Holding : Proceed(c, p)
         \/ Return(c)
  PROVE  LockInv'
  <1> USE DEF TypeOK
  <1>1. s \in Session /\ session[s] \in SessionRow /\ local[c].ver \in Nat
    BY DEF Locals
  <1>2. /\ session'[s].status = "busy"
        /\ session'[s].ver = local[c].ver + 1
        /\ session'[s].epoch = session[s].epoch
        /\ session'[s].grant = session[s].grant
        /\ \A t \in Session \ {s} : session'[t] = session[t]
    BY <1>1 DEF SessionUnchanged, SessionRow
  <1>3. session[s].epoch = local[c].epoch /\ session[s].grant = local[c].grant
    BY DEF LockInv, ReadIsPast, SessionUnchanged
  <1>4. \A d \in Call \ {c} : pc'[d] = pc[d] /\ local'[d] = local[d]
    <2>1. CASE \E p \in Holding : Proceed(c, p)
      BY <2>1 DEF Proceed, Goto
    <2>2. CASE Return(c)
      BY <2>2 DEF Return, Goto
    <2> QED BY <2>1, <2>2
  <1>5. \A d \in Call \ {c} : pc[d] \in Holding => local[d].sid # s
    BY DEF LockInv, HolderOwnsRow, SessionUnchanged
  <1>6. \/ pc'[c] = "idle"
        \/ local'[c] = local[c] /\ pc'[c] \in Holding
    BY DEF Proceed, Return, Goto
  <1>7. \A d \in Call : local[d].sid \in Session /\ local[d].ver \in Nat
    BY DEF Locals
  <1>8. HolderOwnsRow'
    BY <1>1, <1>2, <1>3, <1>4, <1>5, <1>6, <1>7 DEF LockInv, HolderOwnsRow
  <1>9. ReadIsPast'
    <2>1. session[s].ver = local[c].ver /\ session'[s].status # "absent"
      BY <1>2 DEF SessionUnchanged
    <2> SUFFICES ASSUME NEW d \in Call, pc'[d] = "lock"
                 PROVE  LET row == session'[local'[d].sid] IN
                        /\ row.status # "absent"
                        /\ local'[d].ver <= row.ver
                        /\ local'[d].ver = row.ver =>
                             /\ row.epoch = local'[d].epoch
                             /\ row.grant = local'[d].grant
      BY DEF ReadIsPast
    <2>2. d # c /\ local'[d] = local[d] /\ pc[d] = "lock"
      BY <1>4, <1>6
    <2>3. CASE local[d].sid = s
      BY <1>1, <1>2, <1>7, <2>1, <2>2, <2>3 DEF LockInv, ReadIsPast
    <2>4. CASE local[d].sid # s
      BY <1>2, <1>7, <2>2, <2>4 DEF LockInv, ReadIsPast
    <2> QED BY <2>3, <2>4
  <1>10. SessionExclusive'
    BY <1>4, <1>5, <1>6 DEF LockInv, SessionExclusive
  <1> QED BY <1>8, <1>9, <1>10 DEF LockInv

\* The CAS back to 'pending' takes effect.
LEMMA LockReleased ==
  ASSUME TypeOK, LockInv, NEW c \in Call, Release(c)
  PROVE  LockInv'
  <1> DEFINE s == local[c].sid
  <1> USE DEF TypeOK
  <1>1. s \in Session /\ session[s] \in SessionRow /\ local[c].ver \in Nat
    BY DEF Locals
  <1>2. CASE UNCHANGED session
    BY <1>2, LeaveStep DEF Release
  <1>3. CASE ~UNCHANGED session
    <2>1. /\ session'[s].status = "pending"
          /\ session'[s].ver = session[s].ver + 1
          /\ \A t \in Session \ {s} : session'[t] = session[t]
      BY <1>1, <1>3 DEF Release, SessionRow
    <2>2. \A d \in Call \ {c} : pc'[d] = pc[d] /\ local'[d] = local[d]
      BY DEF Release, Return, Goto
    <2>3. pc'[c] = "idle" /\ pc[c] \in Holding
      BY DEF Release, Return, Goto
    <2>4. \A d \in Call \ {c} : pc[d] \in Holding => local[d].sid # s
      BY <2>3 DEF LockInv, SessionExclusive
    <2>5. \A d \in Call : local[d].sid \in Session /\ local[d].ver \in Nat
      BY DEF Locals
    <2>6. HolderOwnsRow'
      BY <2>1, <2>2, <2>3, <2>4, <2>5 DEF LockInv, HolderOwnsRow
    <2>7. ReadIsPast'
      <3> SUFFICES ASSUME NEW d \in Call, pc'[d] = "lock"
                   PROVE  LET row == session'[local'[d].sid] IN
                          /\ row.status # "absent"
                          /\ local'[d].ver <= row.ver
                          /\ local'[d].ver = row.ver =>
                               /\ row.epoch = local'[d].epoch
                               /\ row.grant = local'[d].grant
        BY DEF ReadIsPast
      <3>1. d # c /\ local'[d] = local[d] /\ pc[d] = "lock"
        BY <2>2, <2>3
      <3>2. CASE local[d].sid = s
        <4>1. session[s].ver \in Nat /\ local[d].ver <= session[s].ver
          BY <1>1, <3>1, <3>2 DEF LockInv, ReadIsPast, SessionRow
        <4> QED BY <2>1, <2>5, <3>1, <3>2, <4>1
      <3>3. CASE local[d].sid # s
        BY <2>1, <2>5, <3>1, <3>3 DEF LockInv, ReadIsPast
      <3> QED BY <3>2, <3>3
    <2>8. SessionExclusive'
      BY <2>2, <2>3 DEF LockInv, SessionExclusive
    <2> QED BY <2>6, <2>7, <2>8 DEF LockInv
  <1> QED BY <1>2, <1>3

\* Every step keeps LockInv.
LEMMA LockStep == TypeOK /\ LockInv /\ [Next]_vars => LockInv'
  <1> SUFFICES ASSUME TypeOK, LockInv, [Next]_vars PROVE LockInv'
    OBVIOUS
  <1>1. ASSUME NEW c \in Call, NEW s \in Session, OpenSession(c, s)
        PROVE  LockInv'
    BY <1>1 DEF OpenSession, Return, Goto, TypeOK, LockInv, HolderOwnsRow,
                ReadIsPast, SessionExclusive
  <1>2. ASSUME NEW c \in Call, NEW s \in Session, NEW t \in Tools,
               ReadSession(c, t, s)
        PROVE  LockInv'
    <2>1. CASE Return(c) /\ UNCHANGED session
      BY <2>1, LeaveStep
    <2>2. CASE ~Return(c)
      <3>1. /\ pc'[c] = "lock" /\ session' = session
            /\ local'[c].sid = s
            /\ local'[c].ver = session[s].ver
            /\ local'[c].epoch = session[s].epoch
            /\ local'[c].grant = session[s].grant
            /\ session[s].status # "absent"
        <4>1. local'[c] = [NoLocals EXCEPT
                 !.tool = t, !.sid = s, !.ver = session[s].ver,
                 !.epoch = session[s].epoch, !.grant = session[s].grant,
                 !.nextEpoch = session[s].epoch,
                 !.nextGrant = session[s].grant]
          BY <1>2, <2>2 DEF ReadSession, TypeOK
        <4>2. /\ local'[c].sid = s
              /\ local'[c].ver = session[s].ver
              /\ local'[c].epoch = session[s].epoch
              /\ local'[c].grant = session[s].grant
          BY <4>1, NoLocalsType DEF Locals
        <4> QED BY <1>2, <2>2, <4>2 DEF ReadSession, Goto, TypeOK
      <3>2. \A d \in Call \ {c} : pc'[d] = pc[d] /\ local'[d] = local[d]
        BY <1>2 DEF ReadSession, Return, Goto, TypeOK
      <3>3. session[s].ver \in Nat
        BY DEF TypeOK, SessionRow
      <3> QED BY <3>1, <3>2, <3>3
              DEF LockInv, HolderOwnsRow, ReadIsPast, SessionExclusive
    <2> QED BY <1>2, <2>1, <2>2 DEF ReadSession
  <1>3. ASSUME NEW c \in Call, Lock(c) PROVE LockInv'
    <2>1. FirstStep(local[c].tool) \in Holding
      BY DEF FirstStep, TypeOK, Locals, Tools
    <2>2. CASE SessionUnchanged(local[c].sid, local[c].ver, "pending")
      BY <1>3, <2>1, <2>2, LockTaken DEF Lock
    <2>3. CASE ~SessionUnchanged(local[c].sid, local[c].ver, "pending")
      BY <1>3, <2>3, LeaveStep DEF Lock
    <2> QED BY <2>2, <2>3
  <1>4. ASSUME NEW c \in Call, Switch(c) PROVE LockInv'
    BY <1>4, KeepsReading, InsideStep DEF Switch, Throw, Proceed
  <1>5. ASSUME NEW c \in Call, Status(c) PROVE LockInv'
    BY <1>5, ProceedInside DEF Status
  <1>6. ASSUME NEW c \in Call, Authorize(c) PROVE LockInv'
    <2>1. \E p \in {"lookup", "blocked", "release"} : Goto(c, p)
      BY <1>6 DEF Authorize, Throw, Proceed
    <2> QED BY <1>6, <2>1, KeepsReading, InsideStep DEF Authorize
  <1>7. ASSUME NEW c \in Call, CheckBlocked(c) PROVE LockInv'
    BY <1>7, ProceedInside DEF CheckBlocked
  <1>8. ASSUME NEW c \in Call, Purge(c) PROVE LockInv'
    BY <1>8, ProceedInside DEF Purge
  <1>9. ASSUME NEW c \in Call, Insert(c) PROVE LockInv'
    BY <1>9, ProceedInside DEF Insert
  <1>10. ASSUME NEW c \in Call, NEW w \in WorkId, LookUp(c, w)
         PROVE  LockInv'
    <2>1. \E p \in {"recheck", "release"} : Goto(c, p)
      BY <1>10 DEF LookUp, Proceed
    <2> QED BY <1>10, <2>1, KeepsReading, InsideStep DEF LookUp
  <1>11. ASSUME NEW c \in Call, Recheck(c) PROVE LockInv'
    BY <1>11, ProceedInside DEF Recheck, Throw
  <1>12. ASSUME NEW c \in Call, CheckGrants(c) PROVE LockInv'
    BY <1>12, ProceedInside DEF CheckGrants, Throw
  <1>13. ASSUME NEW c \in Call, Claim(c) PROVE LockInv'
    BY <1>13, ProceedInside DEF Claim, Throw
  <1>14. ASSUME NEW c \in Call, Send(c) PROVE LockInv'
    <2>1. \E p \in {"await", "record"} : Goto(c, p)
      BY <1>14 DEF Send, Proceed
    <2> QED BY <1>14, <2>1, KeepsReading, InsideStep DEF Send
  <1>15. ASSUME NEW c \in Call, Answer(c) PROVE LockInv'
    BY <1>15, KeepsReading, InsideStep DEF Answer, AfterAnswer
  <1>16. ASSUME NEW c \in Call, Record(c) PROVE LockInv'
    BY <1>16, ProceedInside DEF Record
  <1>17. ASSUME NEW c \in Call, Release(c) PROVE LockInv'
    BY <1>17, LockReleased
  <1>18. ASSUME NEW c \in Call, Failure(c) PROVE LockInv'
    <2>1. CASE Crash(c)
      BY <2>1, LeaveStep DEF Crash
    <2>2. CASE QueryFails(c)
      BY <2>2, ProceedInside DEF QueryFails, Throw
    <2>3. CASE LockReplyLost(c)
      BY <2>3, LockTaken DEF LockReplyLost
    <2>4. CASE ClaimReplyLost(c)
      BY <2>4, ProceedInside DEF ClaimReplyLost, Throw
    <2> QED BY <1>18, <2>1, <2>2, <2>3, <2>4 DEF Failure
  <1>19. ASSUME Environment PROVE LockInv'
    <2>1. UNCHANGED <<pc, local>>
      BY <1>19 DEF Environment, ExpireSession, ExpireWork, RejectAfterReview,
                   Revoke
    <2>2. \A s \in Session : /\ session'[s].status = session[s].status
                             /\ session'[s].ver = session[s].ver
                             /\ session'[s].epoch = session[s].epoch
                             /\ session'[s].grant = session[s].grant
      <3>1. ASSUME NEW t \in Session, ExpireSession(t), NEW s \in Session
            PROVE  /\ session'[s].status = session[s].status
                   /\ session'[s].ver = session[s].ver
                   /\ session'[s].epoch = session[s].epoch
                   /\ session'[s].grant = session[s].grant
        BY <3>1 DEF ExpireSession, TypeOK, SessionRow
      <3>2. CASE UNCHANGED session
        BY <3>2
      <3> QED BY <1>19, <3>1, <3>2
              DEF Environment, ExpireWork, RejectAfterReview, Revoke
    <2>3. \A d \in Call : local[d].sid \in Session
      BY DEF TypeOK, Locals
    <2> QED BY <2>1, <2>2, <2>3
            DEF LockInv, HolderOwnsRow, ReadIsPast, SessionExclusive
  <1>20. CASE UNCHANGED vars
    BY <1>20 DEF vars, LockInv, HolderOwnsRow, ReadIsPast, SessionExclusive
  <1> QED
    BY <1>1, <1>2, <1>3, <1>4, <1>5, <1>6, <1>7, <1>8, <1>9, <1>10, <1>11,
       <1>12, <1>13, <1>14, <1>15, <1>16, <1>17, <1>18, <1>19, <1>20
       DEF Next, Arrive, Step

\* LockInv holds in every reachable state.
LEMMA LockAlways == Spec => [](TypeOK /\ LockInv)
  <1>1. Init => LockInv
    BY DEF Init, LockInv, HolderOwnsRow, ReadIsPast, SessionExclusive
  <1> QED BY <1>1, TypeCorrect, LockStep, PTL DEF Spec

\* No two calls are past Lock on one session: a property switch, a preview
\* and a write never overlap there.
THEOREM SessionsAreExclusive == Spec => []SessionExclusive
  <1>1. LockInv => SessionExclusive
    BY DEF LockInv
  <1> QED BY <1>1, LockAlways, PTL

-----------------------------------------------------------------------------
(***************************************************************************)
(* Previews, claims and requests.                                          *)
(***************************************************************************)

\* Two calls inside the try block never act in one scope.
LEMMA ScopesApart ==
  ASSUME SessionExclusive, NEW c \in Call, NEW d \in Call, c # d,
         pc[c] \in Holding, pc[d] \in Holding
  PROVE  Scope(c) # Scope(d)
  BY DEF SessionExclusive, Scope

\* A step of a call that changes no row and does not go on confirming.
LEMMA QuietStep ==
  ASSUME TypeOK, WriteInv, NEW c \in Call,
         pc'[c] \notin Confirming,
         \A d \in Call \ {c} : pc'[d] = pc[d] /\ local'[d] = local[d],
         UNCHANGED <<work, sent, acked>>
  PROVE  WriteInv'
  <1> USE DEF WriteInv
  <1>1. \A d \in Call \ {c} : Scope(d)' = Scope(d)
    BY DEF Scope
  <1>2. \A k : HasUncertain(k)' = HasUncertain(k)
    BY DEF HasUncertain
  <1>3. ConfirmsOwnScope'
    BY <1>1 DEF ConfirmsOwnScope
  <1>4. ClaimIsRunning'
    BY DEF ClaimIsRunning
  <1>5. ScopeClear'
    BY <1>1, <1>2 DEF ScopeClear
  <1>6. UnsentBeforeClaim'
    BY DEF UnsentBeforeClaim
  <1>7. AckedOutcome'
    BY DEF AckedOutcome
  <1>8. KeyUnique' /\ AtMostOneRequest' /\ OneUnresolvedPerScope'
        /\ NothingForgotten' /\ SubmittedWasAcked'
    BY DEF KeyUnique, Stored, AtMostOneRequest, OneUnresolvedPerScope,
           NothingForgotten, SubmittedWasAcked
  <1> QED BY <1>3, <1>4, <1>5, <1>6, <1>7, <1>8

\* A call's step leaves the other calls alone.
LEMMA OthersAlone ==
  ASSUME TypeOK, NEW c \in Call, Arrive(c) \/ Step(c) \/ Failure(c)
  PROVE  \A d \in Call \ {c} : pc'[d] = pc[d] /\ local'[d] = local[d]
  BY DEF TypeOK, Arrive, Step, Failure, OpenSession, ReadSession, Lock,
         Switch, Status, Authorize, CheckBlocked, Purge, Insert, LookUp,
         Recheck, CheckGrants, Claim, Send, Answer, Record, Release, Crash,
         QueryFails, LockReplyLost, ClaimReplyLost, Goto, Proceed, Return,
         Throw

\* The scope clears are about the rows that are open; closing some and
\* keeping every scope only helps.
LEMMA StillClear ==
  ASSUME NEW k, ~HasUncertain(k),
         \A w \in WorkId :
           work'[w].scope = k /\ work'[w].status \in Unresolved
             => work[w].scope = k /\ work[w].status \in Unresolved
  PROVE  ~HasUncertain(k)'
  BY DEF HasUncertain

\* Looking an operation up keeps WriteInv.
LEMMA LookUpKeeps ==
  ASSUME TypeOK, LockInv, WriteInv, NEW c \in Call, NEW w \in WorkId,
         LookUp(c, w)
  PROVE  WriteInv'
  <1>1. \A d \in Call \ {c} : pc'[d] = pc[d] /\ local'[d] = local[d]
    BY OthersAlone DEF Step
  <1>2. CASE ~Confirmable(w, c)
    BY <1>1, <1>2, QuietStep DEF LookUp, Proceed, Goto, TypeOK
  <1>3. CASE Confirmable(w, c)
    <2>1. pc'[c] = "recheck"
      BY <1>3 DEF LookUp, Goto, TypeOK
    <2>2. local'[c] = [local[c] EXCEPT !.wid = w, !.wver = work[w].ver,
                         !.wstatus = work[w].status, !.stale = revoked]
      BY <1>3 DEF LookUp, TypeOK
    <2>3. local[c] \in Locals
      BY DEF TypeOK
    <2>4. local'[c].wid = w /\ local'[c].wstatus = work[w].status
      BY <2>2, <2>3 DEF Locals
    <2>5. Scope(c)' = Scope(c)
      BY <2>2, <2>3, EditKeepsReading DEF Scope
    <2>6. /\ work[w].scope = Scope(c)
          /\ work[w].status = "pending"
      BY <1>3 DEF Confirmable, Visible
    <2>7. UNCHANGED <<work, sent, acked>>
      BY DEF LookUp
    <2>8. \A d \in Call \ {c} : Scope(d)' = Scope(d)
      BY <1>1 DEF Scope
    <2>9. ConfirmsOwnScope'
      BY <1>1, <2>1, <2>4, <2>5, <2>6, <2>7, <2>8
         DEF WriteInv, ConfirmsOwnScope
    <2>10. ClaimIsRunning'
      BY <1>1, <2>1, <2>7 DEF WriteInv, ClaimIsRunning
    <2>11. ScopeClear'
      BY <1>1, <2>1, <2>7, <2>8 DEF WriteInv, ScopeClear, HasUncertain
    <2>12. UnsentBeforeClaim' /\ AckedOutcome'
      BY <1>1, <2>1, <2>7 DEF WriteInv, UnsentBeforeClaim, AckedOutcome
    <2>13. KeyUnique' /\ AtMostOneRequest' /\ OneUnresolvedPerScope'
           /\ NothingForgotten' /\ SubmittedWasAcked'
      BY <2>7 DEF WriteInv, KeyUnique, Stored, AtMostOneRequest,
           OneUnresolvedPerScope, NothingForgotten, SubmittedWasAcked
    <2> QED BY <2>9, <2>10, <2>11, <2>12, <2>13 DEF WriteInv
  <1> QED BY <1>2, <1>3

\* The second hasUncertain and the grant check pass.
LEMMA CheckKeeps ==
  ASSUME TypeOK, WriteInv, NEW c \in Call, Recheck(c) \/ CheckGrants(c)
  PROVE  WriteInv'
  <1>1. \A d \in Call \ {c} : pc'[d] = pc[d] /\ local'[d] = local[d]
    BY OthersAlone DEF Step
  <1>2. UNCHANGED <<work, sent, acked>>
    BY DEF Recheck, CheckGrants
  <1>3. CASE pc'[c] = "release"
    BY <1>1, <1>2, <1>3, QuietStep
  <1>4. CASE pc'[c] # "release"
    <2>1. /\ local' = local
          /\ pc[c] \in {"recheck", "grants"} /\ pc'[c] \in {"grants", "claim"}
          /\ ~HasUncertain(Scope(c))
      BY <1>4 DEF TypeOK, Recheck, CheckGrants, Proceed, Throw, Goto,
                  WriteInv, ScopeClear
    <2>2. \A d \in Call : Scope(d)' = Scope(d)
      BY <2>1 DEF Scope
    <2>3. ConfirmsOwnScope' /\ ClaimIsRunning'
      BY <1>1, <1>2, <2>1, <2>2 DEF WriteInv, ConfirmsOwnScope, ClaimIsRunning
    <2>4. ScopeClear'
      BY <1>1, <1>2, <2>1, <2>2 DEF WriteInv, ScopeClear, HasUncertain
    <2>5. UnsentBeforeClaim' /\ AckedOutcome'
      BY <1>1, <1>2, <2>1 DEF WriteInv, UnsentBeforeClaim, AckedOutcome
    <2>6. KeyUnique' /\ AtMostOneRequest' /\ OneUnresolvedPerScope'
          /\ NothingForgotten' /\ SubmittedWasAcked'
      BY <1>2 DEF WriteInv, KeyUnique, Stored, AtMostOneRequest,
           OneUnresolvedPerScope, NothingForgotten, SubmittedWasAcked
    <2> QED BY <2>3, <2>4, <2>5, <2>6 DEF WriteInv
  <1> QED BY <1>3, <1>4

\* Purging touches only rows of the purging call's scope that are closed.
LEMMA PurgeKeeps ==
  ASSUME TypeOK, LockInv, WriteInv, NEW c \in Call, Purge(c)
  PROVE  WriteInv'
  <1>1. \A d \in Call \ {c} : pc'[d] = pc[d] /\ local'[d] = local[d]
    BY OthersAlone DEF Step
  <1>2. pc[c] \in Holding /\ pc'[c] = "insert"
    BY DEF Purge, Proceed, Goto, TypeOK
  <1>3. \A w \in WorkId :
          /\ work'[w].scope = work[w].scope
          /\ work'[w].digest = work[w].digest
          /\ work'[w].ver = work[w].ver
          /\ \/ work'[w].status = work[w].status
             \/ /\ work'[w].status = "deleted"
                /\ work[w].scope = Scope(c)
                /\ work[w].status \notin Kept \union {"absent", "deleted"}
    BY DEF Purge, Purgeable, SameKey, Stored, TypeOK, WorkRow
  <1>4. UNCHANGED <<sent, acked, local>>
    BY DEF Purge, Proceed
  <1>5. \A d \in Call : Scope(d)' = Scope(d) /\ local[d].wid \in WorkId
    BY <1>4 DEF Scope, TypeOK, Locals
  <1>6. \A d \in Call : pc'[d] \in Confirming =>
          /\ pc[d] = pc'[d]
          /\ work'[local[d].wid].status = work[local[d].wid].status
    <2> SUFFICES ASSUME NEW d \in Call, pc'[d] \in Confirming
                 PROVE  /\ pc[d] = pc'[d]
                        /\ work'[local[d].wid].status
                             = work[local[d].wid].status
      OBVIOUS
    <2>1. d # c /\ pc[d] = pc'[d]
      BY <1>1, <1>2
    <2>2. Scope(d) # Scope(c)
      BY <1>2, <2>1, ScopesApart DEF LockInv
    <2>3. work[local[d].wid].scope = Scope(d)
      BY <2>1 DEF WriteInv, ConfirmsOwnScope
    <2> QED BY <1>3, <1>5, <2>1, <2>2, <2>3
  <1>7. ConfirmsOwnScope' /\ ClaimIsRunning'
    BY <1>3, <1>4, <1>5, <1>6 DEF WriteInv, ConfirmsOwnScope, ClaimIsRunning
  <1>8. ScopeClear'
    <2>1. \A d \in Call : pc'[d] \in {"grants", "claim"} =>
            ~HasUncertain(Scope(d))
      BY <1>1, <1>2 DEF WriteInv, ScopeClear
    <2>2. \A k : ~HasUncertain(k) => ~HasUncertain(k)'
      BY <1>3 DEF HasUncertain, Unresolved
    <2> QED BY <1>5, <2>1, <2>2 DEF ScopeClear, HasUncertain
  <1>9. UnsentBeforeClaim'
    BY <1>1, <1>2, <1>3, <1>4 DEF WriteInv, UnsentBeforeClaim
  <1>10. AckedOutcome'
    BY <1>1, <1>2, <1>4 DEF WriteInv, AckedOutcome
  <1>11. KeyUnique'
    BY <1>3 DEF WriteInv, KeyUnique, Stored
  <1>12. AtMostOneRequest' /\ SubmittedWasAcked'
    BY <1>3, <1>4 DEF WriteInv, AtMostOneRequest, SubmittedWasAcked
  <1>13. OneUnresolvedPerScope'
    BY <1>3 DEF WriteInv, OneUnresolvedPerScope, Unresolved
  <1>14. NothingForgotten'
    BY <1>3, <1>4 DEF WriteInv, NothingForgotten
  <1> QED BY <1>7, <1>8, <1>9, <1>10, <1>11, <1>12, <1>13, <1>14
          DEF WriteInv

\* Inserting fills an absent row whose key was free.
LEMMA InsertKeeps ==
  ASSUME TypeOK, LockInv, WriteInv, NEW c \in Call, Insert(c)
  PROVE  WriteInv'
  <1>1. \A d \in Call \ {c} : pc'[d] = pc[d] /\ local'[d] = local[d]
    BY OthersAlone DEF Step
  <1>2. pc'[c] = "release" /\ UNCHANGED <<sent, acked, local>>
    BY DEF Insert, Proceed, Goto, TypeOK
  <1>3. CASE UNCHANGED work
    BY <1>1, <1>2, <1>3, QuietStep
  <1>4. ASSUME NEW w \in WorkId, work[w].status = "absent",
               ~ \E v \in WorkId : SameKey(v, c),
               work' = [work EXCEPT ![w] =
                 [status |-> "pending", ver |-> 0, scope |-> Scope(c),
                  digest |-> local[c].digest, live |-> TRUE, nack |-> FALSE,
                  era |-> era[local[c].sid]]]
        PROVE  WriteInv'
    <2>1. /\ work'[w].status = "pending"
          /\ work'[w].scope = Scope(c)
          /\ work'[w].digest = local[c].digest
          /\ \A v \in WorkId \ {w} : work'[v] = work[v]
      BY <1>4 DEF TypeOK
    <2>2. \A d \in Call : Scope(d)' = Scope(d) /\ local[d].wid \in WorkId
      BY <1>2 DEF Scope, TypeOK, Locals
    <2>3. \A d \in Call : pc'[d] \in Confirming =>
            pc[d] = pc'[d] /\ local[d].wid # w
      BY <1>1, <1>2, <1>4 DEF WriteInv, ConfirmsOwnScope
    <2>4. ConfirmsOwnScope' /\ ClaimIsRunning'
      BY <1>2, <2>1, <2>2, <2>3 DEF WriteInv, ConfirmsOwnScope, ClaimIsRunning
    <2>5. ScopeClear'
      BY <1>2, <2>1, <2>2, <2>3
         DEF WriteInv, ScopeClear, HasUncertain, Unresolved
    <2>6. UnsentBeforeClaim'
      BY <1>2, <1>4, <2>1, <2>3 DEF WriteInv, UnsentBeforeClaim
    <2>7. AckedOutcome'
      BY <1>2, <2>3 DEF WriteInv, AckedOutcome
    <2>8. KeyUnique'
      BY <1>4, <2>1 DEF WriteInv, KeyUnique, Stored, SameKey
    <2>9. AtMostOneRequest' /\ SubmittedWasAcked'
      BY <1>2, <2>1 DEF WriteInv, AtMostOneRequest, SubmittedWasAcked
    <2>10. OneUnresolvedPerScope'
      BY <2>1 DEF WriteInv, OneUnresolvedPerScope, Unresolved
    <2>11. NothingForgotten'
      BY <1>2, <1>4, <2>1 DEF WriteInv, NothingForgotten, Kept, Unresolved,
                              UnsentBeforeClaim, TypeOK
    <2> QED BY <2>4, <2>5, <2>6, <2>7, <2>8, <2>9, <2>10, <2>11 DEF WriteInv
  <1> QED BY <1>3, <1>4 DEF Insert

\* What a CAS of replace() keeps of a mutation row.
LEMMA RowFields ==
  ASSUME NEW r \in WorkRow, NEW st, NEW n, NEW b
  PROVE  /\ LET q == [r EXCEPT !.status = st, !.ver = n]
            IN  /\ q.status = st /\ q.ver = n /\ q.scope = r.scope
                /\ q.digest = r.digest /\ q.era = r.era
         /\ LET q == [r EXCEPT !.status = st, !.ver = n, !.nack = b]
            IN  /\ q.status = st /\ q.ver = n /\ q.scope = r.scope
                /\ q.digest = r.digest /\ q.era = r.era
  BY DEF WorkRow

\* No key is given twice as long as rows keep theirs and none comes back.
LEMMA KeysStay ==
  ASSUME KeyUnique,
         \A w \in WorkId :
           /\ work'[w].scope = work[w].scope
           /\ work'[w].digest = work[w].digest
           /\ work[w].status \in {"absent", "deleted"} =>
                work'[w].status \in {"absent", "deleted"}
  PROVE  KeyUnique'
  BY DEF KeyUnique, Stored

\* Two confirming calls work on different rows.
LEMMA WidsApart ==
  ASSUME LockInv, WriteInv, NEW c \in Call, NEW d \in Call, c # d,
         pc[c] \in Confirming, pc[d] \in Confirming
  PROVE  local[c].wid # local[d].wid
  <1>1. Scope(c) # Scope(d)
    BY ScopesApart DEF LockInv
  <1> QED BY <1>1 DEF WriteInv, ConfirmsOwnScope

\* Storing an outcome leaves the other locals alone.
LEMMA OutcomeOnly ==
  ASSUME NEW l \in Locals, NEW o
  PROVE  LET q == [l EXCEPT !.outcome = o]
         IN  /\ q.wid = l.wid /\ q.wver = l.wver /\ q.wstatus = l.wstatus
             /\ q.sid = l.sid /\ q.epoch = l.epoch /\ q.grant = l.grant
             /\ q.outcome = o
  BY DEF Locals

\* The claim takes effect, and the call goes on to send or is thrown out.
LEMMA ClaimTaken ==
  ASSUME TypeOK, LockInv, WriteInv, NEW c \in Call,
         NEW w \in WorkId, w = local[c].wid, pc[c] = "claim",
         WorkUnchanged(w, local[c].wver, local[c].wstatus),
         work' = [work EXCEPT ![w].status = "running", ![w].ver = @ + 1],
         Proceed(c, "send") \/ Proceed(c, "release"),
         UNCHANGED <<sent, acked>>
  PROVE  WriteInv'
  <1>1. /\ \A d \in Call \ {c} : pc'[d] = pc[d]
        /\ pc'[c] \in {"send", "release"} /\ UNCHANGED local
    BY DEF Proceed, Goto, TypeOK
  <1>2. w \in WorkId /\ work[w] \in WorkRow
    BY DEF TypeOK, Locals
  <1>3. /\ work'[w].status = "running"
        /\ work'[w].ver = local[c].wver + 1
        /\ work'[w].scope = work[w].scope
        /\ work'[w].digest = work[w].digest
        /\ \A v \in WorkId \ {w} : work'[v] = work[v]
    <2>1. work'[w] = [work[w] EXCEPT !.status = "running",
                                     !.ver = work[w].ver + 1]
      BY <1>2 DEF TypeOK
    <2> QED BY <1>2, <2>1, RowFields DEF WorkUnchanged, TypeOK
  <1>4. /\ work[w].scope = Scope(c)
        /\ work[w].status = "pending"
        /\ ~HasUncertain(Scope(c))
    BY DEF WriteInv, ConfirmsOwnScope, ScopeClear, WorkUnchanged
  <1>5. \A d \in Call : Scope(d)' = Scope(d) /\ local[d].wid \in WorkId
    BY <1>1 DEF Scope, TypeOK, Locals
  <1>6. \A d \in Call \ {c} : pc[d] \in Holding => Scope(d) # Scope(c)
    BY ScopesApart DEF LockInv
  <1>7. \A d \in Call \ {c} : pc[d] \in Confirming => local[d].wid # w
    BY <1>4, <1>6 DEF WriteInv, ConfirmsOwnScope
  <1>8. /\ pc'[c] \in Confirming => pc'[c] = "send"
        /\ \A d \in Call \ {c} : pc'[d] = pc[d] /\ Scope(d)' = Scope(d)
    BY <1>1, <1>5
  <1>9. ConfirmsOwnScope'
    <2>1. ASSUME NEW d \in Call \ {c}, pc'[d] \in Confirming
          PROVE  /\ work'[local[d].wid].scope = Scope(d)
                 /\ work'[local[d].wid].status # "absent"
                 /\ local[d].wstatus = "pending"
      <3>1. pc[d] \in Confirming /\ local[d].wid \in WorkId \ {w}
        BY <1>5, <1>7, <1>8, <2>1
      <3>2. work'[local[d].wid] = work[local[d].wid]
        BY <1>3, <3>1
      <3> QED BY <3>1, <3>2 DEF WriteInv, ConfirmsOwnScope
    <2>2. /\ work'[local[c].wid].scope = Scope(c)
          /\ work'[local[c].wid].status # "absent"
          /\ local[c].wstatus = "pending"
      BY <1>3, <1>4 DEF WriteInv, ConfirmsOwnScope
    <2> QED BY <1>1, <1>5, <2>1, <2>2 DEF ConfirmsOwnScope
  <1>10. ClaimIsRunning'
    <2>1. ASSUME NEW d \in Call \ {c}, pc'[d] \in Claimed
          PROVE  /\ work'[local[d].wid].status = "running"
                 /\ work'[local[d].wid].ver = local[d].wver + 1
      <3>1. pc[d] \in Claimed /\ local[d].wid \in WorkId \ {w}
        BY <1>5, <1>7, <1>8, <2>1
      <3>2. work'[local[d].wid] = work[local[d].wid]
        BY <1>3, <3>1
      <3> QED BY <3>1, <3>2 DEF WriteInv, ClaimIsRunning
    <2>2. /\ work'[local[c].wid].status = "running"
          /\ work'[local[c].wid].ver = local[c].wver + 1
      BY <1>3
    <2>3. \A d \in Call : pc'[d] \in Claimed =>
            /\ work'[local[d].wid].status = "running"
            /\ work'[local[d].wid].ver = local[d].wver + 1
      BY <2>1, <2>2
    <2> QED BY <1>1, <2>3 DEF ClaimIsRunning
  <1>11. ScopeClear'
    <2>1. ASSUME NEW d \in Call, pc'[d] \in {"grants", "claim"}
          PROVE  ~HasUncertain(Scope(d))'
      <3>1. d # c /\ pc[d] = pc'[d] /\ pc[d] \in Holding
        BY <1>1, <2>1
      <3>2. Scope(d) # Scope(c) /\ ~HasUncertain(Scope(d))
        BY <1>6, <3>1, <2>1 DEF WriteInv, ScopeClear
      <3>3. \A v \in WorkId : work'[v].scope = Scope(d) => work'[v] = work[v]
        BY <1>3, <1>4, <3>2
      <3> QED BY <1>5, <3>2, <3>3 DEF HasUncertain
    <2> QED BY <2>1 DEF ScopeClear
  <1>12. UnsentBeforeClaim'
    <2>1. \A v \in WorkId : work'[v].status \in {"absent", "pending"}
            => sent[v] = 0
      BY <1>3 DEF WriteInv, UnsentBeforeClaim
    <2>2. sent[w] = 0
      BY <1>4 DEF WriteInv, UnsentBeforeClaim
    <2>3. \A d \in Call : pc'[d] = "send" => sent[local[d].wid] = 0
      <3>1. ASSUME NEW d \in Call \ {c}, pc'[d] = "send"
            PROVE  sent[local[d].wid] = 0
        BY <1>1, <3>1 DEF WriteInv, UnsentBeforeClaim
      <3> QED BY <2>2, <3>1
    <2> QED BY <1>1, <2>1, <2>3 DEF UnsentBeforeClaim
  <1>13. AckedOutcome'
    BY <1>1 DEF WriteInv, AckedOutcome
  <1>14. KeyUnique'
    BY <1>3, <1>4, KeysStay DEF WriteInv
  <1>15. AtMostOneRequest' /\ SubmittedWasAcked'
    BY <1>3 DEF WriteInv, AtMostOneRequest, SubmittedWasAcked
  <1>16. OneUnresolvedPerScope'
    <2>1. \A v \in WorkId : work[v].scope = work[w].scope
            => work[v].status \notin Unresolved
      BY <1>4 DEF HasUncertain
    <2>2. ASSUME NEW u \in WorkId, NEW v \in WorkId,
                 work'[u].status \in Unresolved,
                 work'[v].status \in Unresolved,
                 work'[u].scope = work'[v].scope
          PROVE  u = v
      <3>1. CASE u = w
        BY <1>3, <2>1, <2>2, <3>1
      <3>2. CASE v = w
        BY <1>3, <2>1, <2>2, <3>2
      <3>3. CASE u # w /\ v # w
        BY <1>3, <2>2, <3>3 DEF WriteInv, OneUnresolvedPerScope
      <3> QED BY <3>1, <3>2, <3>3
    <2> QED BY <2>2 DEF OneUnresolvedPerScope
  <1>17. NothingForgotten'
    BY <1>3 DEF WriteInv, NothingForgotten, Kept, Unresolved
  <1> QED BY <1>9, <1>10, <1>11, <1>12, <1>13, <1>14, <1>15, <1>16, <1>17
          DEF WriteInv

\* What holds of rows and claims while a claimed call goes on.
LEMMA ClaimedGoesOn ==
  ASSUME TypeOK, WriteInv, NEW c \in Call,
         pc[c] \in Claimed, pc'[c] \in {"await", "record"},
         \A d \in Call \ {c} : pc'[d] = pc[d] /\ local'[d] = local[d],
         UNCHANGED work, Scope(c)' = Scope(c),
         local'[c].wid = local[c].wid, local'[c].wver = local[c].wver,
         local'[c].wstatus = local[c].wstatus
  PROVE  /\ ConfirmsOwnScope' /\ ClaimIsRunning' /\ ScopeClear'
         /\ KeyUnique' /\ OneUnresolvedPerScope'
  <1>1. \A d \in Call : Scope(d)' = Scope(d)
    BY DEF Scope
  <1>2. ConfirmsOwnScope' /\ ClaimIsRunning'
    BY <1>1 DEF WriteInv, ConfirmsOwnScope, ClaimIsRunning
  <1>3. ScopeClear'
    BY <1>1 DEF WriteInv, ScopeClear, HasUncertain
  <1>4. KeyUnique' /\ OneUnresolvedPerScope'
    BY DEF WriteInv, KeyUnique, Stored, OneUnresolvedPerScope
  <1> QED BY <1>2, <1>3, <1>4

\* The request goes out once, for the claim's own row.
LEMMA SendKeeps ==
  ASSUME TypeOK, LockInv, WriteInv, NEW c \in Call, Send(c)
  PROVE  WriteInv'
  <1>1. \A d \in Call \ {c} : pc'[d] = pc[d] /\ local'[d] = local[d]
    BY OthersAlone DEF Step
  <1>2. /\ pc[c] = "send" /\ UNCHANGED <<work, acked>>
        /\ local[c] \in Locals /\ local[c].wid \in WorkId
    BY DEF Send, TypeOK, Locals
  <1>3. sent[local[c].wid] = 0 /\ work[local[c].wid].status = "running"
    BY <1>2 DEF WriteInv, UnsentBeforeClaim, ClaimIsRunning
  <1>4. CASE Proceed(c, "await")
              /\ sent' = [sent EXCEPT ![local[c].wid] = @ + 1]
    <2>1. pc'[c] = "await" /\ local' = local
      BY <1>4 DEF Proceed, Goto, TypeOK
    <2>2. /\ sent'[local[c].wid] = 1
          /\ \A w \in WorkId \ {local[c].wid} : sent'[w] = sent[w]
      BY <1>2, <1>3, <1>4 DEF TypeOK
    <2>3. Scope(c)' = Scope(c)
      BY <2>1 DEF Scope
    <2>4. ConfirmsOwnScope' /\ ClaimIsRunning' /\ ScopeClear'
          /\ KeyUnique' /\ OneUnresolvedPerScope'
      BY <1>1, <1>2, <2>1, <2>3, ClaimedGoesOn
    <2>5. UnsentBeforeClaim'
      <3>1. \A w \in WorkId : work'[w].status \in {"absent", "pending"}
              => sent'[w] = 0
        BY <1>2, <1>3, <2>2 DEF WriteInv, UnsentBeforeClaim
      <3>2. ASSUME NEW d \in Call, pc'[d] = "send"
            PROVE  sent'[local'[d].wid] = 0
        <4>1. d # c /\ pc[d] = "send" /\ local'[d] = local[d]
          BY <1>1, <2>1, <3>2
        <4>2. local[d].wid # local[c].wid /\ local[d].wid \in WorkId
          BY <1>2, <4>1, WidsApart DEF TypeOK, Locals
        <4> QED BY <2>2, <4>1, <4>2 DEF WriteInv, UnsentBeforeClaim
      <3> QED BY <3>1, <3>2 DEF UnsentBeforeClaim
    <2>6. AckedOutcome'
      BY <1>1, <1>2, <2>1 DEF WriteInv, AckedOutcome
    <2>7. AtMostOneRequest'
      BY <2>2 DEF WriteInv, AtMostOneRequest
    <2>8. NothingForgotten' /\ SubmittedWasAcked'
      BY <1>2, <1>3, <2>2
         DEF WriteInv, NothingForgotten, SubmittedWasAcked, Kept, Unresolved
    <2> QED BY <2>4, <2>5, <2>6, <2>7, <2>8 DEF WriteInv
  <1>5. CASE /\ local' = [local EXCEPT ![c].outcome = "response_unavailable"]
             /\ Goto(c, "record") /\ UNCHANGED sent
    <2>1. pc'[c] = "record"
      BY <1>5 DEF Goto, TypeOK
    <2>2. /\ local'[c].wid = local[c].wid /\ local'[c].wver = local[c].wver
          /\ local'[c].wstatus = local[c].wstatus
          /\ local'[c].outcome = "response_unavailable"
          /\ Scope(c)' = Scope(c)
      BY <1>2, <1>5, OutcomeOnly DEF TypeOK, Scope
    <2>3. ConfirmsOwnScope' /\ ClaimIsRunning' /\ ScopeClear'
          /\ KeyUnique' /\ OneUnresolvedPerScope'
      BY <1>1, <1>2, <2>1, <2>2, ClaimedGoesOn
    <2>4. UnsentBeforeClaim' /\ AckedOutcome'
      BY <1>1, <1>2, <1>5, <2>1, <2>2 DEF WriteInv, UnsentBeforeClaim, AckedOutcome
    <2>5. AtMostOneRequest' /\ NothingForgotten' /\ SubmittedWasAcked'
      BY <1>2, <1>5
         DEF WriteInv, AtMostOneRequest, NothingForgotten, SubmittedWasAcked
    <2> QED BY <2>3, <2>4, <2>5 DEF WriteInv
  <1> QED BY <1>4, <1>5 DEF Send

\* An acknowledgement is remembered before it is recorded.
LEMMA AnswerKeeps ==
  ASSUME TypeOK, WriteInv, NEW c \in Call, Answer(c)
  PROVE  WriteInv'
  <1>1. \A d \in Call \ {c} : pc'[d] = pc[d] /\ local'[d] = local[d]
    BY OthersAlone DEF Step
  <1>2. /\ pc[c] = "await" /\ UNCHANGED <<work, sent>>
        /\ local[c] \in Locals /\ local[c].wid \in WorkId
    BY DEF Answer, TypeOK, Locals
  <1>3. PICK o \in Outcome :
          /\ local' = [local EXCEPT ![c].outcome = o]
          /\ Goto(c, AfterAnswer(o))
          /\ acked' = IF o = "submitted" THEN acked \union {local[c].wid}
                                         ELSE acked
    BY DEF Answer
  <1>4. pc'[c] = "record"
    BY <1>3 DEF Goto, AfterAnswer, TypeOK
  <1>5. /\ local'[c].wid = local[c].wid /\ local'[c].wver = local[c].wver
        /\ local'[c].wstatus = local[c].wstatus /\ local'[c].outcome = o
        /\ Scope(c)' = Scope(c)
    BY <1>2, <1>3, OutcomeOnly DEF TypeOK, Scope
  <1>6. acked \subseteq acked' /\ (o = "submitted" => local[c].wid \in acked')
    BY <1>3
  <1>7. ConfirmsOwnScope' /\ ClaimIsRunning' /\ ScopeClear'
        /\ KeyUnique' /\ OneUnresolvedPerScope'
    BY <1>1, <1>2, <1>4, <1>5, ClaimedGoesOn
  <1>8. UnsentBeforeClaim' /\ AckedOutcome'
    BY <1>1, <1>2, <1>4, <1>5, <1>6 DEF WriteInv, UnsentBeforeClaim, AckedOutcome
  <1>9. AtMostOneRequest' /\ NothingForgotten' /\ SubmittedWasAcked'
    BY <1>2, <1>6
       DEF WriteInv, AtMostOneRequest, NothingForgotten, SubmittedWasAcked
  <1> QED BY <1>7, <1>8, <1>9 DEF WriteInv


\* A row keeps its key and either its status or leaves the open ones for
\* good, while no call moves into a confirm.
LEMMA RowSettles ==
  ASSUME TypeOK, WriteInv, NEW w \in WorkId,
         \A v \in WorkId \ {w} : work'[v] = work[v],
         work'[w].scope = work[w].scope, work'[w].digest = work[w].digest,
         \/ work'[w].status = work[w].status
         \/ /\ work[w].status \in Unresolved
            /\ work'[w].status \in {"submitted", "unknown", "rejected_reviewed"}
            /\ work'[w].status = "submitted" => w \in acked,
         \A d \in Call : pc'[d] \in Confirming =>
           /\ pc'[d] = pc[d] /\ local'[d] = local[d]
           /\ pc[d] \in Claimed /\ local[d].wid = w =>
                /\ work'[w].status = work[w].status
                /\ work'[w].ver = work[w].ver,
         UNCHANGED <<sent, acked>>
  PROVE  WriteInv'
  <1>1. \A d \in Call : local[d].wid \in WorkId
    BY DEF TypeOK, Locals
  <1>2. \A d \in Call : pc'[d] \in Confirming => Scope(d)' = Scope(d)
    BY DEF Scope
  <1>3. \A v \in WorkId :
          /\ work'[v].scope = work[v].scope
          /\ work'[v].digest = work[v].digest
          /\ work'[v].status \in Unresolved => work[v].status \in Unresolved
          /\ work'[v].status \in {"absent", "pending"} =>
               work'[v].status = work[v].status
          /\ work[v].status \in {"absent", "deleted"} =>
               work'[v].status = work[v].status
          /\ work[v].status \notin Unresolved => work'[v].status = work[v].status
          /\ work'[v].status = "submitted" =>
               work[v].status = "submitted" \/ v \in acked
          /\ work[v].status \in Kept =>
               work'[v].status \in Kept \/ v \in acked
    BY DEF Unresolved, Kept
  <1>4. ConfirmsOwnScope'
    <2>1. ASSUME NEW d \in Call, pc'[d] \in Confirming
          PROVE  /\ work'[local'[d].wid].scope = Scope(d)'
                 /\ work'[local'[d].wid].status # "absent"
                 /\ local'[d].wstatus = "pending"
      <3>1. /\ work[local[d].wid].scope = Scope(d)
            /\ work[local[d].wid].status # "absent"
            /\ local[d].wstatus = "pending"
        BY <2>1 DEF WriteInv, ConfirmsOwnScope
      <3>2. local'[d] = local[d] /\ local[d].wid \in WorkId
        BY <1>1, <2>1
      <3> QED BY <1>2, <1>3, <2>1, <3>1, <3>2
    <2> QED BY <2>1 DEF ConfirmsOwnScope
  <1>5. ClaimIsRunning'
    <2>1. ASSUME NEW d \in Call, pc'[d] \in Claimed
          PROVE  /\ work'[local'[d].wid].status = "running"
                 /\ work'[local'[d].wid].ver = local'[d].wver + 1
      <3>1. /\ pc[d] \in Claimed /\ local'[d] = local[d]
            /\ local[d].wid \in WorkId
        BY <1>1, <2>1
      <3>2. /\ work'[local[d].wid].status = work[local[d].wid].status
            /\ work'[local[d].wid].ver = work[local[d].wid].ver
        <4>1. CASE local[d].wid = w
          BY <2>1, <3>1, <4>1
        <4>2. CASE local[d].wid # w
          BY <3>1, <4>2
        <4> QED BY <4>1, <4>2
      <3> QED BY <3>1, <3>2 DEF WriteInv, ClaimIsRunning
    <2> QED BY <2>1 DEF ClaimIsRunning
  <1>6. ScopeClear'
    <2>1. ASSUME NEW d \in Call, pc'[d] \in {"grants", "claim"}
          PROVE  ~HasUncertain(Scope(d))'
      <3>1. Scope(d)' = Scope(d) /\ ~HasUncertain(Scope(d))
        BY <1>2, <2>1 DEF WriteInv, ScopeClear
      <3> QED BY <1>3, <3>1 DEF HasUncertain
    <2> QED BY <2>1 DEF ScopeClear
  <1>7. UnsentBeforeClaim'
    BY <1>3 DEF WriteInv, UnsentBeforeClaim
  <1>8. AckedOutcome'
    BY DEF WriteInv, AckedOutcome
  <1>9. KeyUnique'
    BY <1>3, KeysStay DEF WriteInv
  <1>10. AtMostOneRequest' /\ SubmittedWasAcked'
    BY <1>3 DEF WriteInv, AtMostOneRequest, SubmittedWasAcked
  <1>11. OneUnresolvedPerScope'
    BY <1>3 DEF WriteInv, OneUnresolvedPerScope
  <1>12. NothingForgotten'
    BY <1>3 DEF WriteInv, NothingForgotten
  <1> QED BY <1>4, <1>5, <1>6, <1>7, <1>8, <1>9, <1>10, <1>11, <1>12
          DEF WriteInv

\* The outcome goes to the row this call claimed, or nowhere.
LEMMA RecordKeeps ==
  ASSUME TypeOK, LockInv, WriteInv, NEW c \in Call, Record(c)
  PROVE  WriteInv'
  <1>1. \A d \in Call \ {c} : pc'[d] = pc[d] /\ local'[d] = local[d]
    BY OthersAlone DEF Step
  <1>2. /\ pc[c] = "record" /\ pc'[c] = "release" /\ UNCHANGED <<sent, acked>>
        /\ local[c] \in Locals
    BY DEF Record, Proceed, Goto, TypeOK
  <1>3. PICK w \in WorkId : w = local[c].wid
    BY <1>2 DEF Locals
  <1>4. CASE UNCHANGED work
    BY <1>1, <1>2, <1>4, QuietStep
  <1>5. CASE work' = [work EXCEPT
              ![w].status = RecordedStatus(local[c].outcome), ![w].ver = @ + 1,
              ![w].nack = local[c].outcome = "not_acknowledged"]
    <2>1. /\ work[w] \in WorkRow
          /\ work'[w] = [work[w] EXCEPT
               !.status = RecordedStatus(local[c].outcome),
               !.ver = work[w].ver + 1,
               !.nack = local[c].outcome = "not_acknowledged"]
          /\ \A v \in WorkId \ {w} : work'[v] = work[v]
      BY <1>3, <1>5 DEF TypeOK
    <2>2. /\ work'[w].status = RecordedStatus(local[c].outcome)
          /\ work'[w].scope = work[w].scope
          /\ work'[w].digest = work[w].digest
      BY <2>1, RowFields
    <2>3. work[w].status \in Unresolved
      BY <1>2, <1>3 DEF WriteInv, ClaimIsRunning, Unresolved
    <2>4. work'[w].status \in {"submitted", "unknown"}
      BY <2>2 DEF RecordedStatus
    <2>5. work'[w].status = "submitted" => w \in acked
      BY <1>2, <1>3, <2>2 DEF RecordedStatus, WriteInv, AckedOutcome
    <2>6. \A d \in Call : pc'[d] \in Confirming =>
            /\ pc'[d] = pc[d] /\ local'[d] = local[d]
            /\ local[d].wid # w
      BY <1>1, <1>2, <1>3, WidsApart
    <2>7. \A v \in WorkId \ {w} : work'[v] = work[v]
      BY <2>1
    <2>8. \A d \in Call : pc'[d] \in Confirming =>
            /\ pc'[d] = pc[d] /\ local'[d] = local[d]
            /\ pc[d] \in Claimed /\ local[d].wid = w =>
                 /\ work'[w].status = work[w].status
                 /\ work'[w].ver = work[w].ver
      BY <2>6
    <2>9. UNCHANGED <<sent, acked>> /\ w \in WorkId
      BY <1>2, <1>3
    <2>10. work'[w].scope = work[w].scope /\ work'[w].digest = work[w].digest
      BY <2>2
    <2>11. work'[w].status \in {"submitted", "unknown", "rejected_reviewed"}
      BY <2>4
    <2> HIDE DEF Confirming, Claimed
    <2> QED BY <2>3, <2>5, <2>7, <2>8, <2>9, <2>10, <2>11, RowSettles
  <1> QED BY <1>3, <1>4, <1>5 DEF Record

\* Expiry and the operator's review.
LEMMA RowsAge ==
  ASSUME TypeOK, WriteInv, NEW w \in WorkId,
         ExpireWork(w) \/ RejectAfterReview(w)
  PROVE  WriteInv'
  <1>1. /\ UNCHANGED <<pc, local, sent, acked>> /\ work[w] \in WorkRow
        /\ \A v \in WorkId \ {w} : work'[v] = work[v]
    BY DEF ExpireWork, RejectAfterReview, TypeOK
  <1>2. CASE ExpireWork(w)
    <2>1. /\ work'[w].scope = work[w].scope
          /\ work'[w].digest = work[w].digest
          /\ work'[w].status = work[w].status
          /\ work'[w].ver = work[w].ver
      BY <1>1, <1>2 DEF ExpireWork, TypeOK, WorkRow
    <2> QED BY <1>1, <2>1, RowSettles
  <1>3. CASE RejectAfterReview(w)
    <2>1. work'[w] = [work[w] EXCEPT !.status = "rejected_reviewed",
                                     !.ver = work[w].ver + 1]
      BY <1>3 DEF RejectAfterReview, ReviewedStatus, TypeOK
    <2>2. /\ work'[w].scope = work[w].scope
          /\ work'[w].digest = work[w].digest
          /\ work'[w].status = "rejected_reviewed"
      BY <1>1, <2>1, RowFields
    <2>3. work[w].status = "unknown"
      BY <1>3 DEF RejectAfterReview
    <2>4. \A d \in Call : pc[d] \in Claimed => local[d].wid # w
      BY <2>3 DEF WriteInv, ClaimIsRunning
    <2> QED BY <1>1, <2>2, <2>3, <2>4, RowSettles DEF Unresolved
  <1> QED BY <1>2, <1>3

\* A switch ends in the release and touches no row.
LEMMA SwitchOnly ==
  ASSUME NEW c \in Call, Switch(c)
  PROVE  UNCHANGED <<work, sent, acked>> /\ Goto(c, "release")
  <1>1. UNCHANGED <<work, sent, acked>>
    BY Zenon DEF Switch
  <1>2. Goto(c, "release")
    BY Zenon DEF Switch, Throw, Proceed
  <1> QED BY <1>1, <1>2

\* Every step keeps WriteInv.
LEMMA WriteStep == TypeOK /\ LockInv /\ WriteInv /\ [Next]_vars => WriteInv'
  <1> SUFFICES ASSUME TypeOK, LockInv, WriteInv, [Next]_vars
               PROVE  WriteInv'
    OBVIOUS
  <1>1. ASSUME NEW c \in Call, Arrive(c) \/ Step(c) \/ Failure(c)
        PROVE  WriteInv'
    <2>1. \A d \in Call \ {c} : pc'[d] = pc[d] /\ local'[d] = local[d]
      BY <1>1, OthersAlone
    <2>2. CASE \/ \E s \in Session : OpenSession(c, s)
               \/ \E s \in Session, tool \in Tools : ReadSession(c, tool, s)
      <3>1. ASSUME NEW s \in Session, OpenSession(c, s)
            PROVE  UNCHANGED <<work, sent, acked>> /\ Goto(c, "idle")
        BY <3>1 DEF OpenSession, Return
      <3>2. ASSUME NEW s \in Session, NEW tool \in Tools,
                   ReadSession(c, tool, s)
            PROVE  /\ UNCHANGED <<work, sent, acked>>
                   /\ Goto(c, "lock") \/ Goto(c, "idle")
        <4>1. UNCHANGED <<work, sent, acked>>
          BY <3>2 DEF ReadSession
        <4>2. Goto(c, "lock") \/ Goto(c, "idle")
          BY <3>2 DEF ReadSession, Return
        <4> QED BY <4>1, <4>2
      <3>3. UNCHANGED <<work, sent, acked>>
        BY <2>2, <3>1, <3>2
      <3>4. Goto(c, "lock") \/ Goto(c, "idle")
        BY <2>2, <3>1, <3>2
      <3>5. pc'[c] \in BeforeLock
        BY <3>4 DEF Goto, TypeOK
      <3> QED BY <2>1, <3>3, <3>5, QuietStep
    <2>3. CASE \/ Lock(c) \/ Switch(c) \/ Status(c) \/ Authorize(c)
               \/ CheckBlocked(c) \/ Release(c)
      <3>1. UNCHANGED <<work, sent, acked>>
        BY <2>3, SwitchOnly DEF Lock, Status, Authorize, CheckBlocked, Release
      <3>2. \/ Goto(c, "switch") \/ Goto(c, "status") \/ Goto(c, "authorize")
            \/ Goto(c, "release") \/ Goto(c, "idle") \/ Goto(c, "lookup")
            \/ Goto(c, "blocked") \/ Goto(c, "purge")
        <4>1. Lock(c) =>
                \/ Goto(c, "switch") \/ Goto(c, "status")
                \/ Goto(c, "authorize") \/ Goto(c, "idle")
          BY DEF Lock, FirstStep, Proceed, Return
        <4>2. Authorize(c) =>
                Goto(c, "release") \/ Goto(c, "lookup") \/ Goto(c, "blocked")
          BY DEF Authorize, Throw, Proceed
        <4>3. Status(c) \/ CheckBlocked(c) \/ Release(c) =>
                Goto(c, "release") \/ Goto(c, "purge") \/ Goto(c, "idle")
          BY DEF Status, CheckBlocked, Release, Proceed, Return
        <4> QED BY <2>3, <4>1, <4>2, <4>3, SwitchOnly
      <3>3. pc'[c] \notin Confirming
        BY <3>2 DEF Goto, TypeOK
      <3> QED BY <2>1, <3>1, <3>3, QuietStep
    <2>4. CASE Purge(c)
      BY <2>4, PurgeKeeps
    <2>5. CASE Insert(c)
      BY <2>5, InsertKeeps
    <2>6. CASE \E w \in WorkId : LookUp(c, w)
      BY <2>6, LookUpKeeps
    <2>7. CASE Recheck(c) \/ CheckGrants(c)
      BY <2>7, CheckKeeps
    <2>8. CASE Claim(c) \/ ClaimReplyLost(c)
      <3>1. /\ pc[c] = "claim" /\ local[c].wid \in WorkId
            /\ UNCHANGED <<sent, acked>>
        BY <2>8 DEF Claim, ClaimReplyLost, TypeOK, Locals
      <3>2. CASE UNCHANGED work /\ Throw(c)
        <4>1. pc'[c] \notin Confirming
          BY <3>2 DEF Throw, Proceed, Goto, TypeOK
        <4> QED BY <2>1, <3>1, <3>2, <4>1, QuietStep
      <3>3. CASE /\ WorkUnchanged(local[c].wid, local[c].wver,
                                  local[c].wstatus)
                 /\ work' = [work EXCEPT ![local[c].wid].status = "running",
                                         ![local[c].wid].ver = @ + 1]
                 /\ Proceed(c, "send") \/ Proceed(c, "release")
        BY <3>1, <3>3, ClaimTaken
      <3> QED BY <2>8, <3>2, <3>3 DEF Claim, ClaimReplyLost, Throw
    <2>9. CASE Send(c)
      BY <2>9, SendKeeps
    <2>10. CASE Answer(c)
      BY <2>10, AnswerKeeps
    <2>11. CASE Record(c)
      BY <2>11, RecordKeeps
    <2>12. CASE Crash(c) \/ QueryFails(c) \/ LockReplyLost(c)
      <3>1. UNCHANGED <<work, sent, acked>>
        BY <2>12 DEF Crash, QueryFails, LockReplyLost
      <3>2. pc'[c] \notin Confirming
        BY <2>12 DEF Crash, QueryFails, LockReplyLost, Proceed, Throw,
             Return, Goto, TypeOK
      <3> QED BY <2>1, <3>1, <3>2, QuietStep
    <2> QED
      BY <1>1, <2>2, <2>3, <2>4, <2>5, <2>6, <2>7, <2>8, <2>9, <2>10, <2>11,
         <2>12 DEF Arrive, Step, Failure
  <1>2. CASE UNCHANGED <<pc, local, work, sent, acked>>
    BY <1>2 DEF WriteInv, ConfirmsOwnScope, ClaimIsRunning, ScopeClear,
         UnsentBeforeClaim, AckedOutcome, KeyUnique, AtMostOneRequest,
         OneUnresolvedPerScope, NothingForgotten, SubmittedWasAcked, Scope,
         HasUncertain, Stored
  <1>3. CASE Environment
    BY <1>2, <1>3, RowsAge DEF Environment, ExpireSession, Revoke
  <1> QED BY <1>1, <1>2, <1>3 DEF Next, vars

\* WriteInv holds in every reachable state.
LEMMA WriteAlways == Spec => [](TypeOK /\ LockInv /\ WriteInv)
  <1>1. Init => WriteInv
    BY DEF Init, AbsentWork, WriteInv, ConfirmsOwnScope, ClaimIsRunning,
         ScopeClear, UnsentBeforeClaim, AckedOutcome, KeyUnique,
         AtMostOneRequest, OneUnresolvedPerScope, NothingForgotten,
         SubmittedWasAcked, Stored, Unresolved
  <1> QED BY <1>1, LockAlways, WriteStep, PTL DEF Spec

\* Whatever calls, crashes, lost replies and expiries do, the backend is
\* sent a confirmed change at most once per operation id.
THEOREM RequestsAreSentOnce == Spec => []AtMostOneRequest
  <1>1. WriteInv => AtMostOneRequest
    BY DEF WriteInv
  <1> QED BY <1>1, WriteAlways, PTL

\* A scope never has two operations whose outcome is open.
THEOREM ScopesHaveOneOpenWrite == Spec => []OneUnresolvedPerScope
  <1>1. WriteInv => OneUnresolvedPerScope
    BY DEF WriteInv
  <1> QED BY <1>1, WriteAlways, PTL

\* An unacknowledged request leaves a row that says so, for ever.
THEOREM RequestsAreRemembered == Spec => []NothingForgotten
  <1>1. WriteInv => NothingForgotten
    BY DEF WriteInv
  <1> QED BY <1>1, WriteAlways, PTL

\* The backend's acknowledgement is the only way to a "submitted" row.
THEOREM SubmittedMeansAcked == Spec => []SubmittedWasAcked
  <1>1. WriteInv => SubmittedWasAcked
    BY DEF WriteInv
  <1> QED BY <1>1, WriteAlways, PTL

\* A change whose request went unacknowledged is not sent again in its scope
\* under another operation id: its row is kept, and the row's key is unique.
THEOREM ChangesAreNotRepeated == Spec => []NoBlindRepeat
  <1>1. WriteInv => NoBlindRepeat
    BY DEF WriteInv, NothingForgotten, KeyUnique, Stored, Kept, Unresolved,
           NoBlindRepeat
  <1> QED BY <1>1, WriteAlways, PTL

-----------------------------------------------------------------------------
(***************************************************************************)
(* Epochs and switches.                                                    *)
(***************************************************************************)

\* Rows and sessions that keep what EpochsArePast looks at.
LEMMA EpochsKeep ==
  ASSUME TypeOK, EpochsArePast,
         \A w \in WorkId : work'[w].status # "absent" =>
           /\ work[w].status # "absent"
           /\ work'[w].scope = work[w].scope
           /\ work'[w].era = work[w].era,
         \A s \in Session : session[s].status # "absent" =>
           /\ session'[s].status # "absent"
           /\ session'[s].epoch = session[s].epoch
           /\ era'[s] = era[s]
  PROVE  EpochsArePast'
  <1> SUFFICES ASSUME NEW w \in WorkId, work'[w].status # "absent"
               PROVE  /\ session'[work[w].scope[1]].status # "absent"
                      /\ work[w].scope[2] <= session'[work[w].scope[1]].epoch
                      /\ work[w].scope[2] = session'[work[w].scope[1]].epoch =>
                           work[w].era = era'[work[w].scope[1]]
    BY DEF EpochsArePast
  <1>1. work[w].scope[1] \in Session
    BY DEF TypeOK, WorkRow, Scopes
  <1> QED BY <1>1 DEF EpochsArePast

\* What the steps that write session rows, the release aside, keep of them.
LEMMA SessionsKeep ==
  ASSUME TypeOK, NEW s \in Session,
         \/ \E c \in Call : OpenSession(c, s)
         \/ \E c \in Call : local[c].sid = s /\ (Lock(c) \/ LockReplyLost(c))
         \/ ExpireSession(s)
  PROVE  /\ UNCHANGED <<work, era>>
         /\ \A t \in Session : session[t].status # "absent" =>
              /\ session'[t].status # "absent"
              /\ session'[t].epoch = session[t].epoch
  <1>1. UNCHANGED <<work, era>>
    BY DEF OpenSession, Lock, LockReplyLost, ExpireSession
  <1>2. session[s] \in SessionRow
    BY DEF TypeOK
  <1>3. CASE \E c \in Call : OpenSession(c, s)
    BY <1>1, <1>3 DEF OpenSession, TypeOK
  <1>4. CASE \E c \in Call : local[c].sid = s /\ (Lock(c) \/ LockReplyLost(c))
    <2>1. CASE UNCHANGED session
      BY <1>1, <2>1
    <2>2. CASE session' = [session EXCEPT ![s].status = "busy",
                                          ![s].ver = @ + 1]
      <3>1. /\ session'[s].status = "busy"
            /\ session'[s].epoch = session[s].epoch
            /\ \A t \in Session \ {s} : session'[t] = session[t]
        BY <1>2, <2>2 DEF TypeOK, SessionRow
      <3> QED BY <1>1, <3>1
    <2> QED BY <1>4, <2>1, <2>2 DEF Lock, LockReplyLost
  <1>5. CASE ExpireSession(s)
    <2>1. /\ session'[s].status = session[s].status
          /\ session'[s].epoch = session[s].epoch
          /\ \A t \in Session \ {s} : session'[t] = session[t]
      BY <1>2, <1>5 DEF ExpireSession, TypeOK, SessionRow
    <2> QED BY <1>1, <2>1
  <1> QED BY <1>3, <1>4, <1>5

\* What the steps that write mutation rows, the insert aside, keep of them.
LEMMA RowsKeep ==
  ASSUME TypeOK, LockInv, WriteInv, NEW w \in WorkId,
         \/ \E c \in Call : Purge(c)
         \/ \E c \in Call : /\ local[c].wid = w
                            /\ Claim(c) \/ ClaimReplyLost(c) \/ Record(c)
         \/ ExpireWork(w) \/ RejectAfterReview(w)
  PROVE  /\ UNCHANGED <<session, era>>
         /\ \A v \in WorkId : work'[v].status # "absent" =>
              /\ work[v].status # "absent"
              /\ work'[v].scope = work[v].scope
              /\ work'[v].era = work[v].era
  <1>1. UNCHANGED <<session, era>>
    <2>1. \A c \in Call : Record(c) => UNCHANGED <<session, era>>
      BY Zenon DEF Record
    <2> QED
      BY <2>1 DEF Purge, Claim, ClaimReplyLost, ExpireWork, RejectAfterReview
  <1>2. work[w] \in WorkRow
    BY DEF TypeOK
  <1>3. CASE \E c \in Call : Purge(c)
    BY <1>1, <1>3 DEF Purge, Purgeable, SameKey, Stored, TypeOK, WorkRow
  <1>4. ASSUME work[w].status # "absent",
               \A v \in WorkId \ {w} : work'[v] = work[v],
               work'[w].scope = work[w].scope, work'[w].era = work[w].era
        PROVE  \A v \in WorkId : work'[v].status # "absent" =>
                 /\ work[v].status # "absent"
                 /\ work'[v].scope = work[v].scope
                 /\ work'[v].era = work[v].era
    BY <1>4
  <1>5. ASSUME NEW c \in Call, local[c].wid = w, Claim(c) \/ ClaimReplyLost(c)
        PROVE  \A v \in WorkId : work'[v].status # "absent" =>
                 /\ work[v].status # "absent"
                 /\ work'[v].scope = work[v].scope
                 /\ work'[v].era = work[v].era
    <2>1. CASE UNCHANGED work
      BY <2>1
    <2>2. CASE work' = [work EXCEPT ![w].status = "running", ![w].ver = @ + 1]
      <3>1. work[w].status # "absent"
        BY <1>5 DEF Claim, ClaimReplyLost, WriteInv, ConfirmsOwnScope
      <3>2. /\ work'[w] = [work[w] EXCEPT !.status = "running",
                                          !.ver = work[w].ver + 1]
            /\ \A v \in WorkId \ {w} : work'[v] = work[v]
        BY <2>2 DEF TypeOK
      <3>3. work'[w].scope = work[w].scope /\ work'[w].era = work[w].era
        BY <1>2, <3>2, RowFields
      <3> QED BY <1>4, <3>1, <3>2, <3>3
    <2> QED BY <1>5, <2>1, <2>2 DEF Claim, ClaimReplyLost
  <1>6. ASSUME NEW c \in Call, local[c].wid = w, Record(c)
        PROVE  \A v \in WorkId : work'[v].status # "absent" =>
                 /\ work[v].status # "absent"
                 /\ work'[v].scope = work[v].scope
                 /\ work'[v].era = work[v].era
    <2>1. CASE UNCHANGED work
      BY <2>1
    <2>2. CASE work' = [work EXCEPT
              ![w].status = RecordedStatus(local[c].outcome), ![w].ver = @ + 1,
              ![w].nack = local[c].outcome = "not_acknowledged"]
      <3>1. work[w].status # "absent"
        <4>1. pc[c] = "record"
          BY <1>6, Zenon DEF Record
        <4> QED BY <1>6, <4>1 DEF WriteInv, ConfirmsOwnScope
      <3>2. /\ work'[w] = [work[w] EXCEPT
                 !.status = RecordedStatus(local[c].outcome),
                 !.ver = work[w].ver + 1,
                 !.nack = local[c].outcome = "not_acknowledged"]
            /\ \A v \in WorkId \ {w} : work'[v] = work[v]
        BY <2>2 DEF TypeOK
      <3>3. work'[w].scope = work[w].scope /\ work'[w].era = work[w].era
        BY <1>2, <3>2, RowFields
      <3> QED BY <1>4, <3>1, <3>2, <3>3
    <2>3. \/ UNCHANGED work
          \/ work' = [work EXCEPT
              ![w].status = RecordedStatus(local[c].outcome), ![w].ver = @ + 1,
              ![w].nack = local[c].outcome = "not_acknowledged"]
      BY <1>6, Zenon DEF Record
    <2> QED BY <2>1, <2>2, <2>3
  <1>7. CASE ExpireWork(w)
    <2>1. /\ work'[w].status = work[w].status
          /\ work'[w].scope = work[w].scope
          /\ work'[w].era = work[w].era
          /\ \A v \in WorkId \ {w} : work'[v] = work[v]
      BY <1>2, <1>7 DEF ExpireWork, TypeOK, WorkRow
    <2> QED BY <1>1, <2>1
  <1>8. CASE RejectAfterReview(w)
    <2>1. /\ work'[w] = [work[w] EXCEPT !.status = "rejected_reviewed",
                                        !.ver = work[w].ver + 1]
          /\ \A v \in WorkId \ {w} : work'[v] = work[v]
          /\ work[w].status # "absent"
      BY <1>8 DEF RejectAfterReview, ReviewedStatus, TypeOK
    <2>2. work'[w].scope = work[w].scope /\ work'[w].era = work[w].era
      BY <1>2, <2>1, RowFields
    <2> QED BY <1>1, <1>4, <2>1, <2>2
  <1> QED BY <1>1, <1>3, <1>5, <1>6, <1>7, <1>8

\* The steps that write none of these rows.
LEMMA RowsUntouched ==
  ASSUME NEW c \in Call,
         \/ \E s \in Session, tool \in Tools : ReadSession(c, tool, s)
         \/ Switch(c) \/ Status(c) \/ Authorize(c) \/ CheckBlocked(c)
         \/ \E w \in WorkId : LookUp(c, w)
         \/ Recheck(c) \/ CheckGrants(c) \/ Send(c) \/ Answer(c)
         \/ Crash(c) \/ QueryFails(c)
  PROVE  UNCHANGED <<session, work, era>>
  <1>1. ASSUME NEW s \in Session, NEW tool \in Tools, ReadSession(c, tool, s)
        PROVE  UNCHANGED <<session, work, era>>
    BY <1>1, Zenon DEF ReadSession
  <1>2. Switch(c) => UNCHANGED <<session, work, era>>
    BY Zenon DEF Switch
  <1>3. ASSUME NEW w \in WorkId, LookUp(c, w)
        PROVE  UNCHANGED <<session, work, era>>
    BY <1>3, Zenon DEF LookUp
  <1>4. Status(c) \/ Authorize(c) \/ CheckBlocked(c) \/ Recheck(c) =>
          UNCHANGED <<session, work, era>>
    BY Zenon DEF Status, Authorize, CheckBlocked, Recheck
  <1>5. CheckGrants(c) \/ Send(c) \/ Answer(c) \/ Crash(c) \/ QueryFails(c) =>
          UNCHANGED <<session, work, era>>
    BY Zenon DEF CheckGrants, Send, Answer, Crash, QueryFails
  <1> QED BY <1>1, <1>2, <1>3, <1>4, <1>5

\* A new preview carries the epoch and the era of the session that made it.
LEMMA InsertIsCurrent ==
  ASSUME TypeOK, LockInv, EpochsArePast, NEW c \in Call, Insert(c)
  PROVE  EpochsArePast'
  <1>1. pc[c] \in Holding /\ UNCHANGED <<session, era>>
    BY DEF Insert
  <1>2. CASE UNCHANGED work
    BY <1>1, <1>2, EpochsKeep
  <1>3. ASSUME NEW w \in WorkId, work[w].status = "absent",
               work' = [work EXCEPT ![w] =
                 [status |-> "pending", ver |-> 0, scope |-> Scope(c),
                  digest |-> local[c].digest, live |-> TRUE, nack |-> FALSE,
                  era |-> era[local[c].sid]]]
        PROVE  EpochsArePast'
    <2>1. /\ work'[w].scope = Scope(c)
          /\ work'[w].era = era[local[c].sid]
          /\ \A v \in WorkId \ {w} : work'[v] = work[v]
      BY <1>3 DEF TypeOK
    <2>2. /\ work'[w].scope[1] = local[c].sid
          /\ work'[w].scope[2] = local[c].epoch
      BY <2>1 DEF Scope
    <2>3. /\ session[local[c].sid].status = "busy"
          /\ session[local[c].sid].epoch = local[c].epoch
          /\ local[c].epoch \in Nat
      BY <1>1 DEF LockInv, HolderOwnsRow, TypeOK, Locals
    <2>4. LET t == work'[w].scope[1] IN
          /\ session'[t].status # "absent"
          /\ work'[w].scope[2] <= session'[t].epoch
          /\ work'[w].scope[2] = session'[t].epoch => work'[w].era = era'[t]
      BY <1>1, <2>1, <2>2, <2>3
    <2> QED BY <1>1, <2>1, <2>4 DEF EpochsArePast
  <1> QED BY <1>2, <1>3 DEF Insert

\* Release stores the epoch read, or a new epoch that no row carries yet.
LEMMA ReleaseGrows ==
  ASSUME TypeOK, LockInv, EraInv, NEW c \in Call, Release(c)
  PROVE  EpochsArePast'
  <1> DEFINE t == local[c].sid
  <1>1. /\ pc[c] = "release" /\ UNCHANGED work /\ t \in Session
        /\ local[c].epoch \in Nat /\ era[t] \in Nat
    BY DEF Release, TypeOK, Locals
  <1>2. CASE UNCHANGED <<session, era>>
    BY <1>1, <1>2, EpochsKeep DEF EraInv
  <1>3. CASE /\ session' = [session EXCEPT
                   ![t].status = "pending", ![t].ver = @ + 1,
                   ![t].epoch = local[c].nextEpoch,
                   ![t].grant = local[c].nextGrant]
             /\ era' = IF local[c].switched THEN [era EXCEPT ![t] = @ + 1]
                                            ELSE era
    <2>1. /\ session'[t].status = "pending"
          /\ session'[t].epoch = local[c].nextEpoch
          /\ \A u \in Session \ {t} : session'[u] = session[u]
      BY <1>1, <1>3 DEF TypeOK, SessionRow
    <2>2. session[t].epoch = local[c].epoch
      BY <1>1 DEF LockInv, HolderOwnsRow
    <2>3. CASE ~local[c].switched
      <3>1. local[c].nextEpoch = session[t].epoch /\ UNCHANGED era
        BY <1>1, <1>3, <2>2, <2>3 DEF EraInv, NextIsRead
      <3> QED BY <1>1, <2>1, <3>1, EpochsKeep DEF EraInv
    <2>4. CASE local[c].switched
      <3>1. /\ local[c].nextEpoch = session[t].epoch + 1
            /\ session[t].epoch \in Nat
            /\ \A u \in Session \ {t} : era'[u] = era[u]
        BY <1>1, <1>3, <2>2, <2>4 DEF EraInv, NextIsRead, TypeOK
      <3>2. ASSUME NEW w \in WorkId, work[w].status # "absent",
                   work[w].scope[1] = t
            PROVE  /\ work[w].scope[2] <= session'[t].epoch
                   /\ work[w].scope[2] # session'[t].epoch
        <4>1. work[w].scope[2] \in Nat /\ work[w].scope[2] <= session[t].epoch
          BY <3>2 DEF EraInv, EpochsArePast, TypeOK, WorkRow, Scopes
        <4> QED BY <2>1, <3>1, <4>1
      <3>3. ASSUME NEW w \in WorkId, work[w].status # "absent",
                   work[w].scope[1] # t
            PROVE  LET u == work[w].scope[1] IN
                   /\ session'[u].status # "absent"
                   /\ work[w].scope[2] <= session'[u].epoch
                   /\ work[w].scope[2] = session'[u].epoch =>
                        work[w].era = era'[u]
        <4>1. work[w].scope[1] \in Session \ {t}
          BY <3>3 DEF TypeOK, WorkRow, Scopes
        <4> QED BY <2>1, <3>1, <3>3, <4>1 DEF EraInv, EpochsArePast
      <3> QED BY <1>1, <2>1, <3>2, <3>3 DEF EpochsArePast
    <2> QED BY <2>3, <2>4
  <1> QED BY <1>2, <1>3 DEF Release

\* What each way of writing the locals does to the session values and to
\* what was seen revoked.
LEMMA EditFields ==
  ASSUME NEW r \in Locals, NEW n, NEW g, NEW w, NEW v, NEW st, NEW R, NEW d
  PROVE  /\ LET q == [r EXCEPT !.nextGrant = g, !.nextEpoch = n,
                               !.switched = TRUE]
            IN  /\ q.nextEpoch = n /\ q.switched = TRUE
                /\ q.epoch = r.epoch /\ q.grant = r.grant /\ q.stale = r.stale
         /\ LET q == [r EXCEPT !.wid = w, !.wver = v, !.wstatus = st,
                               !.stale = R]
            IN  /\ q.nextEpoch = r.nextEpoch /\ q.switched = r.switched
                /\ q.epoch = r.epoch /\ q.grant = r.grant /\ q.stale = R
         /\ LET q == [r EXCEPT !.digest = d]
            IN  /\ q.nextEpoch = r.nextEpoch /\ q.switched = r.switched
                /\ q.epoch = r.epoch /\ q.grant = r.grant /\ q.stale = r.stale
         /\ LET q == [r EXCEPT !.outcome = d]
            IN  /\ q.nextEpoch = r.nextEpoch /\ q.switched = r.switched
                /\ q.epoch = r.epoch /\ q.grant = r.grant /\ q.stale = r.stale
  BY DEF Locals

\* A call's locals after one of its steps: gone, just read, switched, looked
\* up, or the same as far as sessions and grants go.
SameValues(c) ==
  /\ local'[c].epoch = local[c].epoch
  /\ local'[c].nextEpoch = local[c].nextEpoch
  /\ local'[c].switched = local[c].switched
  /\ local'[c].grant = local[c].grant

\* The five ways in which a step changes the locals of its call.
LEMMA LocalsStep ==
  ASSUME TypeOK, NEW c \in Call, Arrive(c) \/ Step(c) \/ Failure(c)
  PROVE  \/ pc'[c] = "idle" /\ local'[c].stale = {}
         \/ /\ pc'[c] = "lock"
            /\ local'[c].nextEpoch = local'[c].epoch
            /\ local'[c].switched = FALSE
            /\ local'[c].stale = {}
         \/ /\ pc'[c] = "release"
            /\ local'[c].epoch = local[c].epoch
            /\ local'[c].nextEpoch = local[c].epoch + 1
            /\ local'[c].switched = TRUE
            /\ local'[c].stale = local[c].stale
         \/ /\ pc'[c] = "recheck" /\ pc[c] = "lookup"
            /\ SameValues(c) /\ local'[c].stale = revoked
         \/ pc[c] # "idle" /\ SameValues(c) /\ local'[c].stale = local[c].stale
  <1>1. local[c] \in Locals
    BY DEF TypeOK
  <1>2. CASE Return(c)
    BY <1>2 DEF Return, Goto, NoLocals, TypeOK
  <1>3. CASE pc[c] # "idle" /\ UNCHANGED local
    BY <1>3 DEF SameValues
  <1>4. CASE \E s \in Session : OpenSession(c, s)
    BY <1>2, <1>4 DEF OpenSession
  <1>5. CASE \E s \in Session, tool \in Tools : ReadSession(c, tool, s)
    <2>1. PICK s \in Session, tool \in Tools : ReadSession(c, tool, s)
      BY <1>5
    <2>2. CASE /\ Goto(c, "lock")
               /\ local' = [local EXCEPT ![c] =
                    [NoLocals EXCEPT
                       !.tool = tool, !.sid = s, !.ver = session[s].ver,
                       !.epoch = session[s].epoch, !.grant = session[s].grant,
                       !.nextEpoch = session[s].epoch,
                       !.nextGrant = session[s].grant]]
      <3>1. /\ local'[c].nextEpoch = local'[c].epoch
            /\ local'[c].switched = FALSE
            /\ local'[c].stale = {}
        BY <2>2 DEF NoLocals, TypeOK
      <3>2. pc'[c] = "lock"
        BY <2>2 DEF Goto, TypeOK
      <3> QED BY <3>1, <3>2
    <2> QED BY <1>2, <2>1, <2>2 DEF ReadSession
  <1>6. CASE Switch(c)
    <2>1. pc[c] = "switch"
      BY <1>6, Zenon DEF Switch
    <2>2. CASE Throw(c)
      BY <1>3, <2>1, <2>2 DEF Throw, Proceed
    <2>3. ASSUME NEW g \in Grant,
                 local' = [local EXCEPT ![c] =
                   [@ EXCEPT !.nextGrant = g, !.nextEpoch = NextEpoch(c),
                             !.switched = TRUE]],
                 Goto(c, "release")
          PROVE  /\ pc'[c] = "release"
                 /\ local'[c].epoch = local[c].epoch
                 /\ local'[c].nextEpoch = local[c].epoch + 1
                 /\ local'[c].switched = TRUE
                 /\ local'[c].stale = local[c].stale
      <3>1. local'[c] = [local[c] EXCEPT !.nextGrant = g,
                           !.nextEpoch = NextEpoch(c), !.switched = TRUE]
        BY <2>3 DEF TypeOK
      <3>2. pc'[c] = "release"
        BY <2>3 DEF Goto, TypeOK
      <3> QED BY <1>1, <3>1, <3>2, EditFields DEF NextEpoch
    <2>4. \/ Throw(c)
          \/ \E g \in Grant :
               /\ local' = [local EXCEPT ![c] =
                    [@ EXCEPT !.nextGrant = g, !.nextEpoch = NextEpoch(c),
                              !.switched = TRUE]]
               /\ Goto(c, "release")
      BY <1>6, Zenon DEF Switch
    <2>5. CASE ~Throw(c)
      BY <2>3, <2>4, <2>5, Zenon
    <2> QED BY <2>2, <2>5
  <1>7. CASE Authorize(c)
    <2>1. pc[c] = "authorize"
      BY <1>7 DEF Authorize
    <2>2. ASSUME NEW d \in Digest, local' = [local EXCEPT ![c].digest = d]
          PROVE  SameValues(c) /\ local'[c].stale = local[c].stale
      <3>1. local'[c] = [local[c] EXCEPT !.digest = d]
        BY <2>2 DEF TypeOK
      <3> QED BY <1>1, <3>1, EditFields DEF SameValues
    <2> QED BY <1>3, <1>7, <2>1, <2>2 DEF Authorize, Throw, Proceed
  <1>8. CASE \E w \in WorkId : LookUp(c, w)
    <2>1. PICK w \in WorkId : LookUp(c, w)
      BY <1>8
    <2>2. pc[c] = "lookup"
      BY <2>1, Zenon DEF LookUp
    <2>3. CASE Proceed(c, "release")
      BY <1>3, <2>2, <2>3 DEF Proceed
    <2>4. CASE /\ local' = [local EXCEPT ![c] =
                    [@ EXCEPT !.wid = w, !.wver = work[w].ver,
                              !.wstatus = work[w].status, !.stale = revoked]]
               /\ Goto(c, "recheck")
      <3>1. local'[c] = [local[c] EXCEPT !.wid = w, !.wver = work[w].ver,
                           !.wstatus = work[w].status, !.stale = revoked]
        BY <2>4 DEF TypeOK
      <3>2. pc'[c] = "recheck"
        BY <2>4 DEF Goto, TypeOK
      <3> QED BY <1>1, <2>2, <3>1, <3>2, EditFields DEF SameValues
    <2> QED BY <2>1, <2>3, <2>4 DEF LookUp
  <1>9. CASE Send(c) \/ Answer(c)
    <2>1. pc[c] # "idle"
      BY <1>9 DEF Send, Answer
    <2>2. UNCHANGED local
          \/ \E o \in Outcome : local' = [local EXCEPT ![c].outcome = o]
      BY <1>9 DEF Send, Answer, Outcome, Proceed
    <2>3. ASSUME NEW o \in Outcome, local' = [local EXCEPT ![c].outcome = o]
          PROVE  SameValues(c) /\ local'[c].stale = local[c].stale
      <3>1. local'[c] = [local[c] EXCEPT !.outcome = o]
        BY <2>3 DEF TypeOK
      <3> QED BY <1>1, <3>1, EditFields DEF SameValues
    <2> QED BY <1>3, <2>1, <2>2, <2>3
  <1>10. CASE \/ Status(c) \/ CheckBlocked(c) \/ Purge(c) \/ Insert(c)
              \/ Recheck(c) \/ CheckGrants(c) \/ Claim(c)
              \/ QueryFails(c) \/ ClaimReplyLost(c)
    BY <1>3, <1>10
       DEF Status, CheckBlocked, Purge, Insert, Recheck, CheckGrants, Claim,
           QueryFails, ClaimReplyLost, Throw, Proceed
  <1>11. CASE Record(c)
    <2>1. pc[c] = "record" /\ UNCHANGED local
      BY <1>11, Zenon DEF Record, Proceed
    <2> QED BY <1>3, <2>1
  <1>12. CASE Lock(c) \/ Release(c) \/ Crash(c) \/ LockReplyLost(c)
    BY <1>2, <1>3, <1>12 DEF Lock, Release, Crash, LockReplyLost, Proceed
  <1> QED
    BY <1>4, <1>5, <1>6, <1>7, <1>8, <1>9, <1>10, <1>11, <1>12
       DEF Arrive, Step, Failure

\* Every step keeps EraInv.
LEMMA EraStep ==
  TypeOK /\ LockInv /\ WriteInv /\ EraInv /\ [Next]_vars => EraInv'
  <1> SUFFICES ASSUME TypeOK, LockInv, WriteInv, EraInv, [Next]_vars
               PROVE  EraInv'
    OBVIOUS
  <1>1. NextIsRead'
    <2>1. ASSUME NEW c \in Call, Arrive(c) \/ Step(c) \/ Failure(c)
          PROVE  NextIsRead'
      <3>1. \A d \in Call \ {c} : pc'[d] = pc[d] /\ local'[d] = local[d]
        BY <2>1, OthersAlone
      <3>2. pc'[c] # "idle" =>
              local'[c].nextEpoch = IF local'[c].switched
                                    THEN local'[c].epoch + 1
                                    ELSE local'[c].epoch
        BY <2>1, LocalsStep DEF EraInv, NextIsRead, SameValues
      <3> QED BY <3>1, <3>2 DEF EraInv, NextIsRead
    <2>2. CASE UNCHANGED <<pc, local>>
      BY <2>2 DEF EraInv, NextIsRead
    <2>3. Environment => UNCHANGED <<pc, local>>
      BY DEF Environment, ExpireSession, ExpireWork, RejectAfterReview, Revoke
    <2> QED BY <2>1, <2>2, <2>3 DEF Next, vars
  <1>2. EpochsArePast'
    <2>1. CASE UNCHANGED <<session, work, era>>
      BY <2>1, EpochsKeep DEF EraInv
    <2>2. ASSUME NEW s \in Session,
                 \/ \E c \in Call : OpenSession(c, s)
                 \/ \E c \in Call : local[c].sid = s
                                    /\ (Lock(c) \/ LockReplyLost(c))
                 \/ ExpireSession(s)
          PROVE  EpochsArePast'
      BY <2>2, SessionsKeep, EpochsKeep DEF EraInv
    <2>3. ASSUME NEW w \in WorkId,
                 \/ \E c \in Call : Purge(c)
                 \/ \E c \in Call : /\ local[c].wid = w
                                    /\ Claim(c) \/ ClaimReplyLost(c) \/ Record(c)
                 \/ ExpireWork(w) \/ RejectAfterReview(w)
          PROVE  EpochsArePast'
      BY <2>3, RowsKeep, EpochsKeep DEF EraInv
    <2>4. ASSUME NEW c \in Call, Arrive(c) \/ Step(c) \/ Failure(c)
          PROVE  EpochsArePast'
      <3>1. local[c].sid \in Session /\ local[c].wid \in WorkId
        BY DEF TypeOK, Locals
      <3>2. CASE \E s \in Session : OpenSession(c, s)
        BY <2>2, <3>2
      <3>3. CASE Lock(c) \/ LockReplyLost(c)
        BY <2>2, <3>1, <3>3
      <3>4. CASE Purge(c) \/ Claim(c) \/ ClaimReplyLost(c) \/ Record(c)
        BY <2>3, <3>1, <3>4
      <3>5. CASE Insert(c)
        BY <3>5, InsertIsCurrent DEF EraInv
      <3>6. CASE Release(c)
        BY <3>6, ReleaseGrows
      <3>7. CASE \/ \E s \in Session, tool \in Tools : ReadSession(c, tool, s)
                 \/ Switch(c) \/ Status(c) \/ Authorize(c) \/ CheckBlocked(c)
                 \/ \E w \in WorkId : LookUp(c, w)
                 \/ Recheck(c) \/ CheckGrants(c) \/ Send(c) \/ Answer(c)
                 \/ Crash(c) \/ QueryFails(c)
        BY <2>1, <3>7, RowsUntouched
      <3> QED BY <2>4, <3>2, <3>3, <3>4, <3>5, <3>6, <3>7
              DEF Arrive, Step, Failure
    <2>5. CASE Environment
      <3>1. (\E g \in Grant : Revoke(g)) => UNCHANGED <<session, work, era>>
        BY DEF Revoke
      <3> QED BY <2>1, <2>2, <2>3, <2>5, <3>1 DEF Environment
    <2> QED BY <2>1, <2>4, <2>5 DEF Next, vars
  <1> QED BY <1>1, <1>2 DEF EraInv

\* EraInv holds in every reachable state.
LEMMA EraAlways == Spec => [](TypeOK /\ LockInv /\ WriteInv /\ EraInv)
  <1>1. Init => EraInv
    BY DEF Init, AbsentWork, EraInv, NextIsRead, EpochsArePast
  <1> QED BY <1>1, WriteAlways, EraStep, PTL DEF Spec

\* A preview made before the session last switched property is never sent,
\* not even after switching back to its property.
THEOREM SwitchesVoidPreviews == Spec => []PreviewsDieOnSwitch
  <1>1. TypeOK /\ LockInv /\ WriteInv /\ EraInv => PreviewsDieOnSwitch
    <2> SUFFICES ASSUME TypeOK, LockInv, WriteInv, EraInv,
                        NEW c \in Call, pc[c] \in Claimed
                 PROVE  work[local[c].wid].era = era[local[c].sid]
      BY DEF PreviewsDieOnSwitch
    <2>1. /\ work[local[c].wid].scope = Scope(c)
          /\ work[local[c].wid].status # "absent"
          /\ local[c].wid \in WorkId
      BY DEF WriteInv, ConfirmsOwnScope, TypeOK, Locals
    <2>2. session[local[c].sid].epoch = local[c].epoch
      BY DEF LockInv, HolderOwnsRow
    <2>3. /\ work[local[c].wid].scope[1] = local[c].sid
          /\ work[local[c].wid].scope[2] = session[local[c].sid].epoch
      BY <2>1, <2>2 DEF Scope
    <2> QED BY <2>1, <2>3 DEF EraInv, EpochsArePast
  <1> QED BY <1>1, EraAlways, PTL

-----------------------------------------------------------------------------
(***************************************************************************)
(* Revocation.                                                             *)
(***************************************************************************)

\* The way into a claim leads through CheckGrants.
LEMMA IntoClaim ==
  ASSUME TypeOK, NEW c \in Call, Arrive(c) \/ Step(c) \/ Failure(c),
         pc'[c] \in {"claim"} \union Claimed,
         pc[c] \notin {"claim"} \union Claimed
  PROVE  CheckGrants(c)
  <1>1. ASSUME NEW p \in Pc \ ({"claim"} \union Claimed), Goto(c, p)
        PROVE  FALSE
    BY <1>1 DEF Goto, TypeOK
  <1>2. ~Return(c) /\ ~Throw(c)
    BY <1>1 DEF Return, Throw, Proceed, Pc
  <1>3. ~Switch(c)
    BY <1>1, SwitchOnly DEF Pc
  <1>4. \A w \in WorkId : ~LookUp(c, w)
    <2>1. \A w \in WorkId : LookUp(c, w) =>
            Goto(c, "recheck") \/ Goto(c, "release")
      BY Zenon DEF LookUp, Proceed
    <2> QED BY <1>1, <2>1 DEF Pc
  <1>5. \A s \in Session, tool \in Tools : ~ReadSession(c, tool, s)
    <2>1. \A s \in Session, tool \in Tools :
            ReadSession(c, tool, s) => Goto(c, "lock") \/ Return(c)
      BY Zenon DEF ReadSession
    <2> QED BY <1>1, <1>2, <2>1 DEF Pc
  <1>6. ~Record(c)
    <2>1. Record(c) => pc[c] = "record"
      BY Zenon DEF Record
    <2> QED BY <2>1
  <1>7. ~Lock(c) /\ ~Status(c) /\ ~Authorize(c) /\ ~CheckBlocked(c)
    BY <1>1, <1>2 DEF Lock, Status, Authorize, CheckBlocked, FirstStep,
         Proceed, Pc
  <1>8. ~Purge(c) /\ ~Insert(c) /\ ~Recheck(c) /\ ~Claim(c) /\ ~Send(c)
        /\ ~Answer(c) /\ ~Release(c)
    BY <1>1, <1>2 DEF Purge, Insert, Recheck, Claim, Send, Answer, Release,
         Proceed, Pc
  <1>9. ~Failure(c) /\ \A s \in Session : ~OpenSession(c, s)
    BY <1>1, <1>2 DEF Failure, Crash, QueryFails, LockReplyLost,
         ClaimReplyLost, OpenSession
  <1> QED BY <1>3, <1>4, <1>5, <1>6, <1>7, <1>8, <1>9 DEF Arrive, Step

\* What a call keeps of revocation when its step leaves its grant alone.
LEMMA StaleStep == TypeOK /\ StaleInv /\ [Next]_vars => StaleInv'
  <1> SUFFICES ASSUME TypeOK, StaleInv, [Next]_vars
               PROVE  StaleInv'
    OBVIOUS
  <1>1. ASSUME NEW c \in Call, Arrive(c) \/ Step(c) \/ Failure(c)
        PROVE  StaleInv'
    <2>1. \A d \in Call \ {c} : pc'[d] = pc[d] /\ local'[d] = local[d]
      BY <1>1, OthersAlone
    <2>2. UNCHANGED revoked
      <3>1. Switch(c) \/ Record(c) => UNCHANGED revoked
        BY Zenon DEF Switch, Record
      <3>2. \A w \in WorkId : LookUp(c, w) => UNCHANGED revoked
        BY Zenon DEF LookUp
      <3>3. \A s \in Session, tool \in Tools :
              ReadSession(c, tool, s) => UNCHANGED revoked
        BY Zenon DEF ReadSession
      <3>4. (\E s \in Session : OpenSession(c, s)) => UNCHANGED revoked
        BY Zenon DEF OpenSession
      <3>5. (\/ Lock(c) \/ Status(c) \/ Authorize(c) \/ CheckBlocked(c)
             \/ Purge(c) \/ Insert(c) \/ Recheck(c) \/ CheckGrants(c)
             \/ Claim(c) \/ Send(c) \/ Answer(c) \/ Release(c) \/ Failure(c))
              => UNCHANGED revoked
        BY Zenon
           DEF Lock, Status, Authorize, CheckBlocked, Purge, Insert, Recheck,
               CheckGrants, Claim, Send, Answer, Release, Failure, Crash,
               QueryFails, LockReplyLost, ClaimReplyLost
      <3>6. Arrive(c) => UNCHANGED revoked
        BY <3>3, <3>4 DEF Arrive
      <3>7. Step(c) => UNCHANGED revoked
        BY <3>1, <3>2, <3>5, Zenon DEF Step
      <3> QED BY <1>1, <3>5, <3>6, <3>7
    <2>3. local'[c].stale \subseteq revoked'
      BY <1>1, <2>2, LocalsStep DEF StaleInv
    <2>4. pc'[c] \in {"claim"} \union Claimed =>
            {local'[c].grant, HomeGrant} \cap local'[c].stale = {}
      <3> SUFFICES ASSUME pc'[c] \in {"claim"} \union Claimed
                   PROVE  {local'[c].grant, HomeGrant} \cap local'[c].stale = {}
        OBVIOUS
      <3>1. SameValues(c) /\ local'[c].stale = local[c].stale
        BY <1>1, LocalsStep
      <3>2. CASE pc[c] \in {"claim"} \union Claimed
        BY <3>1, <3>2 DEF StaleInv, SameValues
      <3>3. CASE pc[c] \notin {"claim"} \union Claimed
        <4>1. CheckGrants(c)
          BY <1>1, <3>3, IntoClaim
        <4>2. StillAuthorized(c)
          BY <4>1 DEF CheckGrants, Throw, Proceed, Goto, TypeOK
        <4> QED BY <3>1, <4>2 DEF StillAuthorized, StaleInv, SameValues
      <3> QED BY <3>2, <3>3
    <2> QED BY <2>1, <2>2, <2>3, <2>4 DEF StaleInv
  <1>2. CASE Environment
    <2>1. UNCHANGED <<pc, local>> /\ revoked \subseteq revoked'
      BY <1>2 DEF Environment, ExpireSession, ExpireWork, RejectAfterReview,
                  Revoke
    <2> QED BY <2>1 DEF StaleInv
  <1>3. CASE UNCHANGED vars
    BY <1>3 DEF vars, StaleInv
  <1> QED BY <1>1, <1>2, <1>3 DEF Next

\* A grant revoked before the preview was looked up stops the write.
THEOREM RevocationIsHeeded == Spec => []RevocationStopsWrites
  <1>1. Init => StaleInv
    BY DEF Init, NoLocals, StaleInv
  <1>2. StaleInv => RevocationStopsWrites
    BY DEF StaleInv, RevocationStopsWrites
  <1> QED BY <1>1, <1>2, TypeCorrect, StaleStep, PTL DEF Spec

=============================================================================
