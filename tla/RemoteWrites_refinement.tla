------------------------ MODULE RemoteWrites_refinement ------------------------
(***************************************************************************)
(* RemoteWrites implements WriteLedger, for every set of sessions, calls,  *)
(* rows, digests and grants, with and without faults.                      *)
(*                                                                         *)
(* Each step maps to one move of one operation, or to none.  That a purge  *)
(* forgets one operation and not several is KeyUnique, that a claim finds  *)
(* nothing outstanding is ScopeClear, that a claimed operation has not     *)
(* been requested is UnsentBeforeClaim, and that an accepted one has been  *)
(* is the one invariant added here: what was acknowledged was sent.        *)
(***************************************************************************)
EXTENDS RemoteWrites_proofs

USE DEF BeforeLock, Claimed, Confirming, Holding

-----------------------------------------------------------------------------
\* A call that waits for an answer has sent its request, and only what was
\* sent was acknowledged.
SentFirst ==
  /\ \A c \in Call : pc[c] = "await" => sent[local[c].wid] > 0
  /\ \A w \in acked : sent[w] > 0

\* A call that goes elsewhere, when requests only grow.
LEMMA ElsewhereKeepsSent ==
  ASSUME TypeOK, SentFirst, NEW c \in Call, pc'[c] # "await", acked' = acked,
         sent' \in [WorkId -> Nat], \A w \in WorkId : sent'[w] >= sent[w],
         \A d \in Call \ {c} : pc'[d] = pc[d] /\ local'[d] = local[d]
  PROVE  SentFirst'
  <1>1. \A d \in Call : local[d].wid \in WorkId
    BY DEF TypeOK, Locals
  <1>2. ASSUME NEW d \in Call, pc'[d] = "await"  PROVE sent'[local'[d].wid] > 0
    <2>1. d # c
      BY <1>2
    <2>2. pc[d] = "await" /\ local'[d] = local[d]
      BY <1>2, <2>1
    <2>3. sent[local[d].wid] > 0
      BY <2>2 DEF SentFirst
    <2>4. /\ sent'[local[d].wid] >= sent[local[d].wid]
          /\ sent[local[d].wid] \in Nat /\ sent'[local[d].wid] \in Nat
      BY <1>1 DEF TypeOK
    <2> QED BY <2>2, <2>3, <2>4
  <1>3. ASSUME NEW w \in acked  PROVE sent'[w] > 0
    <2>1. w \in WorkId /\ sent[w] > 0
      BY DEF TypeOK, SentFirst
    <2>2. sent[w] \in Nat /\ sent'[w] \in Nat /\ sent'[w] >= sent[w]
      BY <2>1 DEF TypeOK
    <2> QED BY <2>1, <2>2
  <1> QED BY <1>2, <1>3 DEF SentFirst

\* Every step keeps SentFirst.
LEMMA SentStep == TypeOK /\ SentFirst /\ [Next]_vars => SentFirst'
  <1> SUFFICES ASSUME TypeOK, SentFirst, [Next]_vars  PROVE SentFirst'
    OBVIOUS
  <1>1. ASSUME NEW c \in Call, Arrive(c) \/ Step(c) \/ Failure(c)
        PROVE  SentFirst'
    <2>1. \A d \in Call \ {c} : pc'[d] = pc[d] /\ local'[d] = local[d]
      BY <1>1, OthersAlone
    <2>2. pc[c] \in Pc /\ local[c] \in Locals /\ local[c].wid \in WorkId
      BY DEF TypeOK, Locals
    <2>3. CASE UNCHANGED <<sent, acked>> /\ pc'[c] # "await"
      <3>1. \A w \in WorkId : sent'[w] >= sent[w]
        BY <2>3 DEF TypeOK
      <3> QED BY <2>1, <2>3, <3>1, ElsewhereKeepsSent DEF TypeOK
    <2>4. CASE Send(c)
      <3>1. CASE Proceed(c, "await") /\ sent' = [sent EXCEPT ![local[c].wid] = @ + 1]
        <4>1. sent[local[c].wid] \in Nat
          BY <2>2 DEF TypeOK
        <4>2. /\ sent'[local[c].wid] = sent[local[c].wid] + 1
              /\ \A w \in WorkId \ {local[c].wid} : sent'[w] = sent[w]
          BY <2>2, <3>1 DEF TypeOK
        <4>3. ASSUME NEW w \in WorkId, sent[w] > 0 \/ w = local[c].wid
              PROVE  sent'[w] > 0
          BY <4>1, <4>2, <4>3
        <4>4. local' = local /\ acked' = acked
          BY <2>4, <3>1 DEF Send, Proceed
        <4>5. \A d \in Call : local[d].wid \in WorkId
          BY DEF TypeOK, Locals
        <4>6. ASSUME NEW d \in Call, pc'[d] = "await"  PROVE sent'[local'[d].wid] > 0
          <5>1. CASE d = c
            BY <4>3, <4>4, <4>5, <5>1
          <5>2. CASE d # c
            BY <2>1, <4>3, <4>4, <4>5, <4>6, <5>2 DEF SentFirst
          <5> QED BY <5>1, <5>2
        <4>7. \A w \in acked' : sent'[w] > 0
          BY <4>3, <4>4 DEF SentFirst, TypeOK
        <4> QED BY <4>6, <4>7 DEF SentFirst
      <3>2. CASE Goto(c, "record") /\ UNCHANGED sent
        <4>1. pc'[c] # "await" /\ acked' = acked
          BY <2>4, <3>2 DEF Send, Goto, TypeOK
        <4> QED BY <2>3, <3>2, <4>1
      <3> QED BY <2>4, <3>1, <3>2 DEF Send
    <2>5. CASE Answer(c)
      <3>1. pc[c] = "await" /\ pc'[c] = "record" /\ sent' = sent
        BY <2>5 DEF Answer, AfterAnswer, Goto, TypeOK
      <3>2. acked' \subseteq acked \union {local[c].wid}
        BY <2>5 DEF Answer
      <3>3. \A w \in acked' : sent'[w] > 0
        BY <3>1, <3>2 DEF SentFirst
      <3>4. \A d \in Call : pc'[d] = "await" => sent'[local'[d].wid] > 0
        BY <2>1, <3>1 DEF SentFirst
      <3> QED BY <3>3, <3>4 DEF SentFirst
    <2>6. CASE Arrive(c)
      <3>1. UNCHANGED <<sent, acked>>
        BY <2>6 DEF Arrive, OpenSession, ReadSession
      <3>2. Goto(c, "idle") \/ Goto(c, "lock")
        BY <2>6 DEF Arrive, OpenSession, ReadSession, Return
      <3>3. pc'[c] # "await"
        BY <3>2 DEF Goto, TypeOK
      <3> QED BY <2>3, <3>1, <3>3
    <2>7. CASE Lock(c) \/ Status(c) \/ Authorize(c) \/ CheckBlocked(c) \/ Release(c)
      <3>1. UNCHANGED <<sent, acked>>
        BY <2>7 DEF Lock, Status, Authorize, CheckBlocked, Release
      <3>2. pc'[c] # "await"
        BY <2>7 DEF Lock, FirstStep, Status, Authorize, CheckBlocked, Release, Throw,
             Proceed, Return, Goto, TypeOK
      <3> QED BY <2>3, <3>1, <3>2
    <2>8. CASE Switch(c)
      <3>1. UNCHANGED <<sent, acked>> /\ Goto(c, "release")
        BY <2>8, SwitchOnly
      <3>2. pc'[c] # "await"
        BY <3>1 DEF Goto, TypeOK
      <3> QED BY <2>3, <3>1, <3>2
    <2>9. CASE \/ Purge(c) \/ Insert(c) \/ (\E w \in WorkId : LookUp(c, w))
               \/ Recheck(c) \/ CheckGrants(c) \/ Claim(c) \/ Record(c)
      <3>1. UNCHANGED <<sent, acked>>
        BY <2>9 DEF Purge, Insert, LookUp, Recheck, CheckGrants, Claim, Record
      <3>2. \/ Goto(c, "insert") \/ Goto(c, "release") \/ Goto(c, "recheck")
            \/ Goto(c, "grants") \/ Goto(c, "claim") \/ Goto(c, "send")
        BY <2>9 DEF Purge, Insert, LookUp, Recheck, CheckGrants, Claim, Record,
             Throw, Proceed
      <3>3. pc'[c] # "await"
        BY <3>2 DEF Goto, TypeOK
      <3> QED BY <2>3, <3>1, <3>3
    <2>10. CASE Failure(c)
      <3>1. UNCHANGED <<sent, acked>>
        BY <2>10 DEF Failure, Crash, QueryFails, LockReplyLost, ClaimReplyLost
      <3>2. Goto(c, "idle") \/ Goto(c, "release")
        BY <2>10 DEF Failure, Crash, QueryFails, LockReplyLost, ClaimReplyLost,
             Throw, Proceed, Return
      <3>3. pc'[c] # "await"
        BY <3>2 DEF Goto, TypeOK
      <3> QED BY <2>3, <3>1, <3>3
    <2> QED BY <1>1, <2>4, <2>5, <2>6, <2>7, <2>8, <2>9, <2>10 DEF Step
  <1>2. CASE Environment \/ UNCHANGED vars
    <2>1. UNCHANGED <<pc, local, sent, acked>>
      BY <1>2 DEF Environment, ExpireSession, ExpireWork, RejectAfterReview, Revoke, vars
    <2> QED BY <2>1 DEF SentFirst
  <1> QED BY <1>1, <1>2 DEF Next

-----------------------------------------------------------------------------
(***************************************************************************)
(* Moves.                                                                  *)
(***************************************************************************)

\* Where an operation with this status and this many requests stands.
Seen(status, n) ==
  CASE status = "absent"            -> "none"
    [] status = "pending"           -> "offered"
    [] status = "submitted"         -> "accepted"
    [] status = "unknown"           -> "unresolved"
    [] status = "rejected_reviewed" -> "closed"
    [] status = "deleted"           -> "gone"
    [] status = "running"           -> IF n = 0 THEN "claimed" ELSE "requested"

\* LedgerStage, one operation at a time.
LEMMA StageIsSeen ==
  /\ LedgerStage = [w \in WorkId |-> Seen(work[w].status, sent[w])]
  /\ LedgerStage' = [w \in WorkId |-> Seen(work'[w].status, sent'[w])]
  BY DEF LedgerStage, Seen

\* Nothing the ledger can see changes.
LEMMA NothingMoves ==
  ASSUME \A w \in WorkId :
           /\ work'[w].status = work[w].status /\ work'[w].scope = work[w].scope
           /\ sent'[w] = sent[w]
  PROVE  UNCHANGED <<LedgerStage, LedgerHome>>
  <1>1. LedgerStage' = LedgerStage
    BY StageIsSeen
  <1>2. LedgerHome' = LedgerHome
    BY DEF LedgerHome
  <1> QED BY <1>1, <1>2

\* One operation gets on, in its scope.
LEMMA OneMoves ==
  ASSUME NEW w \in WorkId, NEW from, NEW to,
         Seen(work[w].status, sent[w]) \in from,
         Seen(work'[w].status, sent'[w]) = to,
         work[w].status # "absent", work'[w].status # "absent",
         work'[w].scope = work[w].scope,
         \A v \in WorkId \ {w} :
           /\ work'[v].status = work[v].status /\ work'[v].scope = work[v].scope
           /\ sent'[v] = sent[v]
  PROVE  Ledger!Move(w, from, to) /\ LedgerHome' = LedgerHome
  <1>1. LedgerStage[w] \in from
    BY StageIsSeen
  <1>2. \A v \in WorkId : LedgerStage'[v] = IF v = w THEN to ELSE LedgerStage[v]
    BY StageIsSeen
  <1>3. LedgerStage' = [LedgerStage EXCEPT ![w] = to]
    BY <1>2, StageIsSeen
  <1>4. LedgerHome' = LedgerHome
    BY DEF LedgerHome
  <1> QED BY <1>1, <1>3, <1>4 DEF Ledger!Move

\* A row is written over, and its scope and the other rows stay.
LEMMA RowWritten ==
  ASSUME TypeOK, NEW w \in WorkId, NEW st, NEW n,
         \/ work' = [work EXCEPT ![w].status = st, ![w].ver = n]
         \/ \E b : work' = [work EXCEPT ![w].status = st, ![w].ver = n, ![w].nack = b]
  PROVE  /\ work'[w].status = st /\ work'[w].scope = work[w].scope
         /\ \A v \in WorkId \ {w} : work'[v] = work[v]
  BY DEF TypeOK, WorkRow

Inv == TypeOK /\ LockInv /\ WriteInv /\ SentFirst

LedgerStep == Ledger!Next \/ UNCHANGED <<LedgerStage, LedgerHome>>

\* A purge forgets the one operation that has the key.
LEMMA PurgeForgets ==
  ASSUME Inv, NEW c \in Call, Purge(c)
  PROVE  LedgerStep
  <1>1. /\ \A w \in WorkId : work'[w] = IF Purgeable(w, c)
                                        THEN [work[w] EXCEPT !.status = "deleted"]
                                        ELSE work[w]
        /\ sent' = sent
    BY DEF Purge
  <1>2. CASE \A w \in WorkId : ~Purgeable(w, c)
    BY <1>1, <1>2, NothingMoves DEF LedgerStep
  <1>3. ASSUME NEW w \in WorkId, Purgeable(w, c)  PROVE LedgerStep
    <2>1. \A v \in WorkId \ {w} : ~Purgeable(v, c)
      BY <1>3 DEF Inv, WriteInv, KeyUnique, Purgeable, SameKey
    <2>2. work[w] \in WorkRow /\ work[w].status \in WorkStatus
      BY DEF Inv, TypeOK, WorkRow
    <2>3. work[w].status \in {"pending", "submitted"}
      BY <1>3, <2>2 DEF Purgeable, SameKey, Stored, WorkStatus, Kept
    <2>4. work'[w].status = "deleted" /\ work'[w].scope = work[w].scope
      BY <1>1, <1>3, <2>2 DEF WorkRow
    <2>5. /\ Seen(work[w].status, sent[w]) \in {"offered", "accepted"}
          /\ Seen(work'[w].status, sent'[w]) = "gone"
      BY <2>3, <2>4 DEF Seen
    <2>6. \A v \in WorkId \ {w} : work'[v] = work[v] /\ sent'[v] = sent[v]
      BY <1>1, <2>1
    <2>7. work[w].status # "absent" /\ work'[w].status # "absent"
      BY <2>3, <2>4
    <2>8. Ledger!Forget(w)
      BY <2>4, <2>5, <2>6, <2>7, OneMoves DEF Ledger!Forget
    <2> QED BY <2>8 DEF LedgerStep, Ledger!Next
  <1> QED BY <1>2, <1>3

\* An insert offers an operation, or finds the one that has the key.
LEMMA InsertOffers ==
  ASSUME Inv, NEW c \in Call, Insert(c)
  PROVE  LedgerStep
  <1>1. sent' = sent
    BY DEF Insert
  <1>2. CASE work' = work
    BY <1>1, <1>2, NothingMoves DEF LedgerStep
  <1>3. ASSUME NEW w \in WorkId, NEW r, work[w].status = "absent",
               r.status = "pending", r.scope = Scope(c), work' = [work EXCEPT ![w] = r]
        PROVE  LedgerStep
    <2>1. work'[w] = r /\ \A v \in WorkId \ {w} : work'[v] = work[v]
      BY <1>3 DEF Inv, TypeOK
    <2>2. Scope(c) \in Scopes
      BY DEF Inv, TypeOK, Locals, Scope, Scopes
    <2>3. LedgerStage[w] = "none"
      BY <1>3, StageIsSeen DEF Seen
    <2>4. \A v \in WorkId :
            LedgerStage'[v] = IF v = w THEN "offered" ELSE LedgerStage[v]
      <3>1. work'[w].status = "pending" /\ Seen("pending", sent'[w]) = "offered"
        BY <1>3, <2>1 DEF Seen
      <3>2. \A v \in WorkId \ {w} :
              Seen(work'[v].status, sent'[v]) = Seen(work[v].status, sent[v])
        BY <1>1, <2>1
      <3> QED BY <3>1, <3>2, StageIsSeen
    <2>5. LedgerStage' = [LedgerStage EXCEPT ![w] = "offered"]
      BY <2>4, StageIsSeen
    <2>6. \A v \in WorkId : LedgerHome'[v] = IF v = w THEN Scope(c) ELSE LedgerHome[v]
      BY <1>3, <2>1 DEF LedgerHome
    <2>7. LedgerHome' = [LedgerHome EXCEPT ![w] = LedgerHome'[w]] /\ LedgerHome'[w] \in Scopes
      BY <2>2, <2>6 DEF LedgerHome
    <2>8. Ledger!Offer(w)
      BY <2>3, <2>5, <2>7 DEF Ledger!Offer, Ledger!Move
    <2> QED BY <2>8 DEF LedgerStep, Ledger!Next
  <1>4. CASE \E w \in WorkId :
               /\ work[w].status = "absent"
               /\ work' = [work EXCEPT ![w] =
                    [status |-> "pending", ver |-> 0, scope |-> Scope(c),
                     digest |-> local[c].digest, live |-> TRUE, nack |-> FALSE,
                     era |-> era[local[c].sid]]]
    BY <1>3, <1>4
  <1> QED BY <1>2, <1>4 DEF Insert

\* The claim finds nothing outstanding in its scope.
LEMMA ClaimClaims ==
  ASSUME Inv, NEW c \in Call, Claim(c) \/ ClaimReplyLost(c)
  PROVE  LedgerStep
  <1>1. PICK w \in WorkId : w = local[c].wid
    BY DEF Inv, TypeOK, Locals
  <1>2. pc[c] = "claim" /\ sent' = sent
    BY DEF Claim, ClaimReplyLost
  <1>3. CASE work' = work
    BY <1>2, <1>3, NothingMoves DEF LedgerStep
  <1>4. CASE /\ WorkUnchanged(w, local[c].wver, local[c].wstatus)
             /\ work' = [work EXCEPT ![w].status = "running", ![w].ver = @ + 1]
    <2>1. /\ work[w].scope = Scope(c) /\ work[w].status = "pending"
          /\ ~HasUncertain(Scope(c)) /\ sent[w] = 0
      BY <1>1, <1>2, <1>4 DEF Inv, WriteInv, ConfirmsOwnScope, ScopeClear,
           UnsentBeforeClaim, WorkUnchanged
    <2>2. /\ work'[w].status = "running" /\ work'[w].scope = work[w].scope
          /\ \A v \in WorkId \ {w} : work'[v] = work[v]
      BY <1>4, RowWritten DEF Inv
    <2>3. /\ Seen(work[w].status, sent[w]) \in {"offered"}
          /\ Seen(work'[w].status, sent'[w]) = "claimed"
      BY <1>2, <2>1, <2>2 DEF Seen
    <2>4. ASSUME NEW v \in WorkId, LedgerHome[v] = LedgerHome[w]
          PROVE  LedgerStage[v] \notin Ledger!Outstanding
      <3>1. LedgerHome[w] = Scope(c) /\ Scope(c) # <<>>
        BY <2>1 DEF LedgerHome, Scope
      <3>2. work[v].scope = Scope(c)
        BY <2>4, <3>1 DEF LedgerHome
      <3>3. work[v].status \notin Unresolved
        BY <2>1, <3>2 DEF HasUncertain
      <3>4. work[v].status \in WorkStatus
        BY DEF Inv, TypeOK, WorkRow
      <3> QED BY <3>3, <3>4, StageIsSeen
              DEF Seen, WorkStatus, Kept, Unresolved, Ledger!Outstanding
    <2>5. Ledger!Claim(w)
      BY <1>2, <2>1, <2>2, <2>3, <2>4, OneMoves DEF Ledger!Claim
    <2> QED BY <2>5 DEF LedgerStep, Ledger!Next
  <1> QED BY <1>1, <1>3, <1>4 DEF Claim, ClaimReplyLost

\* The request goes out for an operation that is claimed.
LEMMA SendRequests ==
  ASSUME Inv, NEW c \in Call, Send(c)
  PROVE  LedgerStep
  <1>1. PICK w \in WorkId : w = local[c].wid
    BY DEF Inv, TypeOK, Locals
  <1>2. pc[c] = "send" /\ work' = work
    BY DEF Send
  <1>3. CASE sent' = sent
    BY <1>2, <1>3, NothingMoves DEF LedgerStep
  <1>4. CASE sent' = [sent EXCEPT ![w] = @ + 1]
    <2>1. work[w].status = "running" /\ sent[w] = 0
      BY <1>1, <1>2 DEF Inv, WriteInv, ClaimIsRunning, UnsentBeforeClaim
    <2>2. sent'[w] = 1 /\ \A v \in WorkId \ {w} : sent'[v] = sent[v]
      BY <1>4, <2>1 DEF Inv, TypeOK
    <2>3. /\ Seen(work[w].status, sent[w]) \in {"claimed"}
          /\ Seen(work'[w].status, sent'[w]) = "requested"
      BY <1>2, <2>1, <2>2 DEF Seen
    <2>4. Ledger!Send(w)
      BY <1>2, <2>1, <2>2, <2>3, OneMoves DEF Ledger!Send
    <2> QED BY <2>4 DEF LedgerStep, Ledger!Next
  <1> QED BY <1>1, <1>3, <1>4 DEF Send

\* The outcome of a claimed or requested operation is recorded: only one that
\* was requested is accepted.
LEMMA RecordResolves ==
  ASSUME Inv, NEW c \in Call, Record(c)
  PROVE  LedgerStep
  <1>1. PICK w \in WorkId : w = local[c].wid
    BY DEF Inv, TypeOK, Locals
  <1>2. pc[c] = "record" /\ sent' = sent
    BY DEF Record
  <1>3. CASE work' = work
    BY <1>2, <1>3, NothingMoves DEF LedgerStep
  <1>4. ASSUME NEW n, NEW b,
               work' = [work EXCEPT
                 ![w].status = RecordedStatus(local[c].outcome), ![w].ver = n,
                 ![w].nack = b]
        PROVE  LedgerStep
    <2>1. work[w].status = "running"
      BY <1>1, <1>2 DEF Inv, WriteInv, ClaimIsRunning
    <2>2. /\ work'[w].status = RecordedStatus(local[c].outcome)
          /\ work'[w].scope = work[w].scope
          /\ \A v \in WorkId \ {w} : work'[v] = work[v]
      BY <1>4, RowWritten DEF Inv
    <2>3. CASE local[c].outcome = "submitted"
      <3>1. sent[w] > 0
        BY <1>1, <1>2, <2>3 DEF Inv, WriteInv, AckedOutcome, SentFirst
      <3>2. /\ Seen(work[w].status, sent[w]) \in {"requested"}
            /\ Seen(work'[w].status, sent'[w]) = "accepted"
            /\ work'[w].status # "absent"
        BY <2>1, <2>2, <2>3, <3>1 DEF Seen, RecordedStatus
      <3>3. Ledger!Accept(w)
        BY <1>2, <2>1, <2>2, <3>2, OneMoves DEF Ledger!Accept
      <3> QED BY <3>3 DEF LedgerStep, Ledger!Next
    <2>4. CASE local[c].outcome # "submitted"
      <3>1. /\ Seen(work[w].status, sent[w]) \in {"claimed", "requested"}
            /\ Seen(work'[w].status, sent'[w]) = "unresolved"
            /\ work'[w].status # "absent"
        BY <2>1, <2>2, <2>4 DEF Seen, RecordedStatus
      <3>2. Ledger!Doubt(w)
        BY <1>2, <2>1, <2>2, <3>1, OneMoves DEF Ledger!Doubt
      <3> QED BY <3>2 DEF LedgerStep, Ledger!Next
    <2> QED BY <2>3, <2>4
  <1>5. CASE work' = [work EXCEPT
               ![w].status = RecordedStatus(local[c].outcome), ![w].ver = @ + 1,
               ![w].nack = local[c].outcome = "not_acknowledged"]
    <2>1. PICK n, b : n = work[w].ver + 1 /\ b = (local[c].outcome = "not_acknowledged")
      OBVIOUS
    <2>2. work' = [work EXCEPT
            ![w].status = RecordedStatus(local[c].outcome), ![w].ver = n, ![w].nack = b]
      BY <1>5, <2>1
    <2> QED BY <1>4, <2>2
  <1> QED BY <1>1, <1>3, <1>5 DEF Record

\* A review closes an unresolved operation.
LEMMA ReviewCloses ==
  ASSUME Inv, NEW w \in WorkId, RejectAfterReview(w)
  PROVE  LedgerStep
  <1>1. work[w].status = "unknown" /\ sent' = sent
    BY DEF RejectAfterReview
  <1>2. /\ work'[w].status = "rejected_reviewed" /\ work'[w].scope = work[w].scope
        /\ \A v \in WorkId \ {w} : work'[v] = work[v]
    BY RowWritten DEF Inv, RejectAfterReview, ReviewedStatus
  <1>3. /\ Seen(work[w].status, sent[w]) \in {"unresolved"}
        /\ Seen(work'[w].status, sent'[w]) = "closed"
    BY <1>1, <1>2 DEF Seen
  <1>4. Ledger!Close(w)
    BY <1>1, <1>2, <1>3, OneMoves DEF Ledger!Close
  <1> QED BY <1>4 DEF LedgerStep, Ledger!Next

-----------------------------------------------------------------------------
\* Every step of the protocol is a step of the ledger, or none.
LEMMA StepMapsToLedger ==
  ASSUME Inv, [Next]_vars
  PROVE  LedgerStep
  <1>1. ASSUME UNCHANGED <<work, sent>>  PROVE LedgerStep
    BY <1>1, NothingMoves DEF LedgerStep
  <1>2. ASSUME NEW c \in Call, Arrive(c)  PROVE LedgerStep
    BY <1>1, <1>2 DEF Arrive, OpenSession, ReadSession
  <1>3. ASSUME NEW c \in Call, Step(c)  PROVE LedgerStep
    <2>1. CASE \/ Lock(c) \/ Status(c) \/ Authorize(c) \/ CheckBlocked(c)
               \/ (\E w \in WorkId : LookUp(c, w))
               \/ Recheck(c) \/ CheckGrants(c) \/ Answer(c) \/ Release(c)
      BY <1>1, <2>1 DEF Lock, Status, Authorize, CheckBlocked, LookUp, Recheck,
           CheckGrants, Answer, Release
    <2>2. CASE Switch(c)
      BY <1>1, <2>2, SwitchOnly
    <2> QED BY <1>3, <2>1, <2>2, PurgeForgets, InsertOffers, ClaimClaims, SendRequests,
               RecordResolves DEF Step
  <1>4. ASSUME NEW c \in Call, Failure(c)  PROVE LedgerStep
    <2>1. CASE Crash(c) \/ QueryFails(c) \/ LockReplyLost(c)
      BY <1>1, <2>1 DEF Crash, QueryFails, LockReplyLost
    <2> QED BY <1>4, <2>1, ClaimClaims DEF Failure
  <1>5. CASE Environment
    <2>1. ASSUME NEW w \in WorkId, ExpireWork(w)  PROVE LedgerStep
      <3>1. /\ \A v \in WorkId : /\ work'[v].status = work[v].status
                                 /\ work'[v].scope = work[v].scope
            /\ sent' = sent
        BY <2>1 DEF ExpireWork, Inv, TypeOK, WorkRow
      <3> QED BY <3>1, NothingMoves DEF LedgerStep
    <2>2. CASE (\E s \in Session : ExpireSession(s)) \/ \E g \in Grant : Revoke(g)
      BY <1>1, <2>2 DEF ExpireSession, Revoke
    <2> QED BY <1>5, <2>1, <2>2, ReviewCloses DEF Environment
  <1>6. CASE UNCHANGED vars
    BY <1>1, <1>6 DEF vars
  <1> QED BY <1>2, <1>3, <1>4, <1>5, <1>6 DEF Next

\* The preview/confirm protocol of the remote server implements the ledger:
\* each operation is claimed when nothing of its scope is outstanding,
\* requested once, accepted only after it was requested, and an unresolved
\* one is closed by an operator or stays.
THEOREM ProtocolImplementsLedger == Spec => ImplementsLedger
  <1>1. Init => Ledger!Init
    <2>1. SUFFICES ASSUME Init  PROVE Ledger!Init
      OBVIOUS
    <2>2. \A w \in WorkId : work[w].status = "absent"
      BY <2>1 DEF Init, AbsentWork
    <2>3. LedgerStage = [w \in WorkId |-> "none"]
      BY <2>2, StageIsSeen DEF Seen
    <2>4. LedgerHome = [w \in WorkId |-> <<>>]
      BY <2>2 DEF LedgerHome
    <2> QED BY <2>3, <2>4 DEF Ledger!Init
  <1>2. Init => SentFirst
    BY DEF Init, SentFirst
  <1>3. Spec => []Inv
    BY <1>2, WriteAlways, SentStep, PTL DEF Spec, Inv
  <1>4. Inv /\ [Next]_vars => [Ledger!Next]_<<LedgerStage, LedgerHome>>
    BY StepMapsToLedger DEF LedgerStep
  <1> QED BY <1>1, <1>3, <1>4, PTL DEF Spec, ImplementsLedger, Ledger!Spec
=============================================================================
