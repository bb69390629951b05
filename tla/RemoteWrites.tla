----------------------------- MODULE RemoteWrites -----------------------------
(***************************************************************************)
(* Confirmed writes of the remote MCP server: BusinessEngine.call, the     *)
(* preview/confirm protocol of persistentPreview, and the work_items rows  *)
(* of WorkStore they share.                                                *)
(*                                                                         *)
(* Every await of the code that touches shared state is a step of its own, *)
(* so the calls of one user interleave here as they do on the server.  A   *)
(* Call is a place for one running tools/call request; when the request    *)
(* is over the place is free for another.  All sessions belong to one      *)
(* identity (subject, client, grant, resource): the code keys every row by *)
(* that owner, so another identity's calls never meet these rows.          *)
(*                                                                         *)
(* Abstracted: a digest stands for the hash over tool, endpoint, payload   *)
(* and resource snapshot; payloads, summaries and encryption are left out. *)
(* expires_at is the flag `live`: expiry may strike at any moment.         *)
(***************************************************************************)
EXTENDS Naturals, FiniteSets

CONSTANTS
  Session,     \* ids of rows of kind "session"
  Call,        \* how many tool calls can be running at once
  WorkId,      \* ids of rows of kind "mutation"
  Digest,      \* what a preview can be about
  Grant,       \* property authorizations of this user and client
  HomeGrant,   \* identity.grantId, the grant the access token names
  Faults,      \* whether calls crash and database replies get lost
  MaxArrivals  \* bound: tool calls in one behaviour

ASSUME ConstantsOK ==
  /\ HomeGrant \in Grant
  /\ Session # {} /\ WorkId # {} /\ Digest # {}
  /\ Faults \in BOOLEAN
  /\ MaxArrivals \in Nat

VARIABLES
  session,   \* work_items of kind "session"
  work,      \* work_items of kind "mutation"
  revoked,   \* grants revoked in PostgreSQL (or expired there)
  pc,        \* where each call stands
  local,     \* its local variables: what it has been asked and has read
  sent,      \* history: requests the writer has put on the wire, per row
  acked,     \* history: rows whose request the backend acknowledged
  era,       \* history: property switches completed, per session
  arrived    \* tool calls so far, for MaxArrivals

vars == <<session, work, revoked, pc, local, sent, acked, era, arrived>>

Tools == {"switch_property", "get_operation_status", "preview", "confirm"}

\* Where a call can stand: each value names the statement it awaits next.
BeforeLock == {"idle", "lock"}
Claimed    == {"send", "await", "record"}
Confirming == {"recheck", "grants", "claim"} \union Claimed
Holding    == {"switch", "status", "authorize", "blocked", "purge", "insert",
               "lookup", "release"} \union Confirming
Pc         == BeforeLock \union Holding

Unresolved == {"running", "unknown"}
Kept       == Unresolved \union {"rejected_reviewed"}
WorkStatus == Kept \union {"absent", "pending", "submitted", "deleted"}

\* work.replace's outcome: what the response tells persistentPreview.
Outcome == {"submitted", "response_unavailable", "not_acknowledged"}

Locals ==
  [tool : Tools, sid : Session,
   ver : Nat, epoch : Nat, grant : Grant,        \* the session row as read
   nextEpoch : Nat, nextGrant : Grant,           \* `next`, written on release
   digest : Digest,
   wid : WorkId, wver : Nat, wstatus : WorkStatus,   \* the preview as read
   outcome : Outcome,
   switched : BOOLEAN,        \* history: this call changed the property
   stale : SUBSET Grant]      \* history: grants revoked when wid was read

NoLocals ==
  [tool |-> "preview", sid |-> CHOOSE s \in Session : TRUE,
   ver |-> 0, epoch |-> 0, grant |-> HomeGrant,
   nextEpoch |-> 0, nextGrant |-> HomeGrant,
   digest |-> CHOOSE d \in Digest : TRUE,
   wid |-> CHOOSE w \in WorkId : TRUE, wver |-> 0, wstatus |-> "absent",
   outcome |-> "submitted", switched |-> FALSE, stale |-> {}]

SessionRow ==
  [status : {"absent", "pending", "busy"}, ver : Nat, epoch : Nat,
   grant : Grant, live : BOOLEAN]

Scopes == Session \X Nat \X Grant

WorkRow ==
  [status : WorkStatus, ver : Nat, scope : Scopes, digest : Digest,
   live : BOOLEAN, nack : BOOLEAN, era : Nat]

AbsentSession ==
  [status |-> "absent", ver |-> 0, epoch |-> 0, grant |-> HomeGrant,
   live |-> FALSE]

AbsentWork ==
  [status |-> "absent", ver |-> 0,
   scope |-> <<CHOOSE s \in Session : TRUE, 0, HomeGrant>>,
   digest |-> CHOOSE d \in Digest : TRUE,
   live |-> FALSE, nack |-> FALSE, era |-> 0]

Init ==
  /\ session = [s \in Session |-> AbsentSession]
  /\ work = [w \in WorkId |-> AbsentWork]
  /\ revoked = {}
  /\ pc = [c \in Call |-> "idle"]
  /\ local = [c \in Call |-> NoLocals]
  /\ sent = [w \in WorkId |-> 0]
  /\ acked = {}
  /\ era = [s \in Session |-> 0]
  /\ arrived = 0

-----------------------------------------------------------------------------
(***************************************************************************)
(* The queries of WorkStore and the conditions of the engine.  Beside a    *)
(* condition stands, where it matters, a slip: the same condition as a     *)
(* plausible bug would have it.  No action uses a slip.                    *)
(***************************************************************************)

\* BusinessEngine.scope: who may see a mutation row.
Scope(c) == <<local[c].sid, local[c].epoch, local[c].grant>>

SlipSessionUnread(s, v, status) == session[s].live

\* WorkStore.replace on a session row read at version v with this status.
SessionUnchanged(s, v, status) ==
  /\ session[s].ver = v
  /\ session[s].status = status
  /\ session[s].live

\* WorkStore.replace on a mutation row read at version v with this status.
WorkUnchanged(w, v, status) ==
  /\ work[w].ver = v
  /\ work[w].status = status
  /\ work[w].live

SlipUncertainLive(scope) ==
  \E w \in WorkId :
    work[w].scope = scope /\ work[w].status \in Unresolved /\ work[w].live

\* WorkStore.hasUncertain: expiry is not looked at.
HasUncertain(scope) ==
  \E w \in WorkId : work[w].scope = scope /\ work[w].status \in Unresolved

Stored(w) == work[w].status \notin {"absent", "deleted"}

\* WorkStore.get for a mutation: expired rows stay visible while kept.
Visible(w, scope) ==
  /\ Stored(w)
  /\ work[w].scope = scope
  /\ work[w].live \/ work[w].status \in Kept

\* The row create() would collide with: UNIQUE(owner_hash, kind, dedup).
SameKey(w, c) ==
  Stored(w) /\ work[w].scope = Scope(c) /\ work[w].digest = local[c].digest

SlipPurgeable(w, c) ==
  SameKey(w, c) /\ ~work[w].live /\ work[w].status \notin Unresolved

\* What create() deletes first: expired rows of this key, unless kept.
Purgeable(w, c) ==
  SameKey(w, c) /\ ~work[w].live /\ work[w].status \notin Kept

SlipConfirmable(w, c) ==
  Visible(w, Scope(c)) /\ work[w].digest = local[c].digest

\* What confirm=true accepts as its preview.
Confirmable(w, c) ==
  /\ Visible(w, Scope(c))
  /\ work[w].digest = local[c].digest
  /\ work[w].status = "pending"

SlipTrustsSession(c) == TRUE

\* checkCurrent: the property's grant and the token's grant, both read again.
StillAuthorized(c) == {local[c].grant, HomeGrant} \cap revoked = {}

SlipSameEpoch(c) == local[c].epoch

\* The epoch switch_property stores.
NextEpoch(c) == local[c].epoch + 1

Goto(c, p) == pc' = [pc EXCEPT ![c] = p]
Proceed(c, p) == Goto(c, p) /\ UNCHANGED local
Return(c)  == Goto(c, "idle") /\ local' = [local EXCEPT ![c] = NoLocals]

SlipThrow(c) == Return(c)

\* An exception inside the try block: `finally` still releases the session.
Throw(c) == Proceed(c, "release")

-----------------------------------------------------------------------------
(***************************************************************************)
(* BusinessEngine.call                                                     *)
(***************************************************************************)

\* open_property_session: target() picks an active grant, create() inserts
\* a session row under a fresh random key.
OpenSession(c, s) ==
  /\ pc[c] = "idle"
  /\ arrived < MaxArrivals /\ arrived' = arrived + 1
  /\ session[s].status = "absent"
  /\ \E g \in Grant \ revoked :
       session' = [session EXCEPT ![s] =
                     [status |-> "pending", ver |-> 0, epoch |-> 0,
                      grant |-> g, live |-> TRUE]]
  /\ Return(c)
  /\ UNCHANGED <<work, revoked, sent, acked, era>>

\* store.get(owner, sessionId, 'session'); a missing, expired or busy
\* session makes the call throw before it holds anything.
ReadSession(c, tool, s) ==
  /\ pc[c] = "idle"
  /\ arrived < MaxArrivals /\ arrived' = arrived + 1
  /\ session[s].status # "absent"
  /\ IF session[s].status = "pending" /\ session[s].live
     THEN /\ Goto(c, "lock")
          /\ local' = [local EXCEPT ![c] =
               [NoLocals EXCEPT
                  !.tool = tool, !.sid = s, !.ver = session[s].ver,
                  !.epoch = session[s].epoch, !.grant = session[s].grant,
                  !.nextEpoch = session[s].epoch,
                  !.nextGrant = session[s].grant]]
     ELSE Return(c)
  /\ UNCHANGED <<session, work, revoked, sent, acked, era>>

FirstStep(tool) ==
  CASE tool = "switch_property"      -> "switch"
    [] tool = "get_operation_status" -> "status"
    [] OTHER                         -> "authorize"

\* The session-level CAS to 'busy'.
Lock(c) ==
  LET s == local[c].sid IN
  /\ pc[c] = "lock"
  /\ IF SessionUnchanged(s, local[c].ver, "pending")
     THEN /\ session' = [session EXCEPT ![s].status = "busy",
                                        ![s].ver = @ + 1]
          /\ Proceed(c, FirstStep(local[c].tool))
     ELSE Return(c) /\ UNCHANGED session
  /\ UNCHANGED <<work, revoked, sent, acked, era, arrived>>

\* switch_property: `next` is written when the lock is released; a property
\* that is not authorized throws and leaves it as it was.
Switch(c) ==
  /\ pc[c] = "switch"
  /\ \/ /\ \E g \in Grant \ revoked :
             local' = [local EXCEPT ![c] =
               [@ EXCEPT !.nextGrant = g, !.nextEpoch = NextEpoch(c),
                         !.switched = TRUE]]
        /\ Goto(c, "release")
     \/ Throw(c)
  /\ UNCHANGED <<session, work, revoked, sent, acked, era, arrived>>

\* get_operation_status answers from the rows of the current scope.
Status(c) ==
  /\ pc[c] = "status"
  /\ Proceed(c, "release")
  /\ UNCHANGED <<session, work, revoked, sent, acked, era, arrived>>

\* The grant is read again, the property's settings are verified, the tool
\* handler reads the resource and reaches preview() with a digest - or one
\* of these refuses, or the tool only reads, and the call is over.
Authorize(c) ==
  /\ pc[c] = "authorize"
  /\ \/ /\ local[c].grant \notin revoked
        /\ \E d \in Digest : local' = [local EXCEPT ![c].digest = d]
        /\ Goto(c, IF local[c].tool = "confirm" THEN "lookup" ELSE "blocked")
     \/ Throw(c)
  /\ UNCHANGED <<session, work, revoked, sent, acked, era, arrived>>

\* `finally`: the CAS back to 'pending' with the next session value.  When
\* the row expired meanwhile the call throws and the row stays 'busy'.
Release(c) ==
  LET s == local[c].sid IN
  /\ pc[c] = "release"
  /\ IF SessionUnchanged(s, local[c].ver + 1, "busy")
     THEN /\ session' = [session EXCEPT
               ![s].status = "pending", ![s].ver = @ + 1,
               ![s].epoch = local[c].nextEpoch, ![s].grant = local[c].nextGrant]
          /\ era' = IF local[c].switched THEN [era EXCEPT ![s] = @ + 1]
                                       ELSE era
     ELSE UNCHANGED <<session, era, arrived>>
  /\ Return(c)
  /\ UNCHANGED <<work, revoked, sent, acked, arrived>>

-----------------------------------------------------------------------------
(***************************************************************************)
(* persistentPreview without confirm: a preview row is created or found.   *)
(***************************************************************************)

\* An unresolved write of this scope blocks new previews.
CheckBlocked(c) ==
  /\ pc[c] = "blocked"
  /\ IF HasUncertain(Scope(c)) THEN Proceed(c, "release") ELSE Proceed(c, "purge")
  /\ UNCHANGED <<session, work, revoked, sent, acked, era, arrived>>

\* create(), DELETE: expired rows of the key that nothing keeps.
Purge(c) ==
  /\ pc[c] = "purge"
  /\ work' = [w \in WorkId |-> IF Purgeable(w, c)
                               THEN [work[w] EXCEPT !.status = "deleted"]
                               ELSE work[w]]
  /\ Proceed(c, "insert")
  /\ UNCHANGED <<session, revoked, sent, acked, era, arrived>>

\* create(), INSERT ... ON CONFLICT DO NOTHING and the SELECT that reports
\* the row, new or old, to the user.
Insert(c) ==
  /\ pc[c] = "insert"
  /\ IF \E w \in WorkId : SameKey(w, c)
     THEN UNCHANGED work
     ELSE \E w \in WorkId :
            /\ work[w].status = "absent"
            /\ work' = [work EXCEPT ![w] =
                 [status |-> "pending", ver |-> 0, scope |-> Scope(c),
                  digest |-> local[c].digest, live |-> TRUE, nack |-> FALSE,
                  era |-> era[local[c].sid]]]
  /\ Proceed(c, "release")
  /\ UNCHANGED <<session, revoked, sent, acked, era, arrived>>

-----------------------------------------------------------------------------
(***************************************************************************)
(* persistentPreview with confirm: claim the preview, send the request     *)
(* once, record what came back.                                            *)
(***************************************************************************)

\* store.get(scope, previewId): anything but a pending preview of exactly
\* this change ends the call.
LookUp(c, w) ==
  /\ pc[c] = "lookup"
  /\ IF Confirmable(w, c)
     THEN /\ local' = [local EXCEPT ![c] =
               [@ EXCEPT !.wid = w, !.wver = work[w].ver,
                         !.wstatus = work[w].status, !.stale = revoked]]
          /\ Goto(c, "recheck")
     ELSE Proceed(c, "release")
  /\ UNCHANGED <<session, work, revoked, sent, acked, era, arrived>>

\* hasUncertain again: another preview of the scope may have been confirmed
\* and left unresolved since this one was made.
Recheck(c) ==
  /\ pc[c] = "recheck"
  /\ IF HasUncertain(Scope(c)) THEN Throw(c) ELSE Proceed(c, "grants")
  /\ UNCHANGED <<session, work, revoked, sent, acked, era, arrived>>

CheckGrants(c) ==
  /\ pc[c] = "grants"
  /\ IF StillAuthorized(c) THEN Proceed(c, "claim") ELSE Throw(c)
  /\ UNCHANGED <<session, work, revoked, sent, acked, era, arrived>>

\* The CAS to 'running': the preview is consumed before anything is sent.
Claim(c) ==
  LET w == local[c].wid IN
  /\ pc[c] = "claim"
  /\ IF WorkUnchanged(w, local[c].wver, local[c].wstatus)
     THEN /\ work' = [work EXCEPT ![w].status = "running", ![w].ver = @ + 1]
          /\ Proceed(c, "send")
     ELSE Throw(c) /\ UNCHANGED work
  /\ UNCHANGED <<session, revoked, sent, acked, era, arrived>>

\* writer.request puts the request on the wire, or fails before it does.
Send(c) ==
  /\ pc[c] = "send"
  /\ \/ /\ sent' = [sent EXCEPT ![local[c].wid] = @ + 1]
        /\ Proceed(c, "await")
     \/ /\ local' = [local EXCEPT ![c].outcome = "response_unavailable"]
        /\ Goto(c, "record")
        /\ UNCHANGED sent
  /\ UNCHANGED <<session, work, revoked, acked, era, arrived>>

SlipAfterAnswer(o) == IF o = "response_unavailable" THEN "send" ELSE "record"

\* retry: false - every outcome is recorded, none is tried again.
AfterAnswer(o) == "record"

\* The answer, a refusal or the 15 s timeout; readBack only reads.
Answer(c) ==
  /\ pc[c] = "await"
  /\ \E o \in Outcome :
       /\ local' = [local EXCEPT ![c].outcome = o]
       /\ Goto(c, AfterAnswer(o))
       /\ acked' = IF o = "submitted" THEN acked \union {local[c].wid}
                                      ELSE acked
  /\ UNCHANGED <<session, work, revoked, sent, era, arrived>>

SlipRecordedStatus(o) ==
  IF o = "response_unavailable" THEN "pending"
  ELSE IF o = "submitted" THEN "submitted" ELSE "unknown"

SlipAnsweredIsSubmitted(o) ==
  IF o = "response_unavailable" THEN "unknown" ELSE "submitted"

\* The status an outcome is stored under.
RecordedStatus(o) == IF o = "submitted" THEN "submitted" ELSE "unknown"

SlipVersionAsRead(c) == local[c].wver

\* `claimed`: the version the row has after this call's claim.
ClaimedVersion(c) == local[c].wver + 1

\* The CAS on the claimed row; its result is ignored.
Record(c) ==
  LET w == local[c].wid IN
  /\ pc[c] = "record"
  /\ IF WorkUnchanged(w, ClaimedVersion(c), "running")
     THEN work' = [work EXCEPT
            ![w].status = RecordedStatus(local[c].outcome),
            ![w].ver = @ + 1,
            ![w].nack = local[c].outcome = "not_acknowledged"]
     ELSE UNCHANGED work
  /\ Proceed(c, "release")
  /\ UNCHANGED <<session, revoked, sent, acked, era, arrived>>

-----------------------------------------------------------------------------
(***************************************************************************)
(* Failures, the passing of time, the operator and the grant's owner.      *)
(***************************************************************************)

\* The process running the call stops, or the connection drops before the
\* release: whatever was written stays.
Crash(c) ==
  /\ Faults
  /\ pc[c] # "idle"
  /\ Return(c)
  /\ UNCHANGED <<session, work, revoked, sent, acked, era, arrived>>

\* A query is rejected inside the try block.  The request itself cannot
\* throw (it has its own catch), so "send" and "await" are left out.
QueryFails(c) ==
  /\ Faults
  /\ pc[c] \in Holding \ {"send", "await", "release"}
  /\ Throw(c)
  /\ UNCHANGED <<session, work, revoked, sent, acked, era, arrived>>

\* A CAS commits and its reply is lost: the lock stays taken, or the claim
\* stays without a request.
LockReplyLost(c) ==
  LET s == local[c].sid IN
  /\ Faults
  /\ pc[c] = "lock"
  /\ SessionUnchanged(s, local[c].ver, "pending")
  /\ session' = [session EXCEPT ![s].status = "busy", ![s].ver = @ + 1]
  /\ Return(c)
  /\ UNCHANGED <<work, revoked, sent, acked, era, arrived>>

ClaimReplyLost(c) ==
  LET w == local[c].wid IN
  /\ Faults
  /\ pc[c] = "claim"
  /\ WorkUnchanged(w, local[c].wver, local[c].wstatus)
  /\ work' = [work EXCEPT ![w].status = "running", ![w].ver = @ + 1]
  /\ Throw(c)
  /\ UNCHANGED <<session, revoked, sent, acked, era, arrived>>

ExpireSession(s) ==
  /\ session[s].live
  /\ session' = [session EXCEPT ![s].live = FALSE]
  /\ UNCHANGED <<work, revoked, pc, local, sent, acked, era, arrived>>

ExpireWork(w) ==
  /\ Stored(w) /\ work[w].live
  /\ work' = [work EXCEPT ![w].live = FALSE]
  /\ UNCHANGED <<session, revoked, pc, local, sent, acked, era, arrived>>

Revoke(g) ==
  /\ g \notin revoked
  /\ revoked' = revoked \union {g}
  /\ UNCHANGED <<session, work, pc, local, sent, acked, era, arrived>>

SlipReviewedStatus == "rejected"

ReviewedStatus == "rejected_reviewed"

\* forReview + rejectAfterReview: only a refusal the backend reported, and
\* an expired row may be reviewed too.
RejectAfterReview(w) ==
  /\ work[w].status = "unknown"
  /\ work[w].nack
  /\ work' = [work EXCEPT ![w].status = ReviewedStatus, ![w].ver = @ + 1]
  /\ UNCHANGED <<session, revoked, pc, local, sent, acked, era, arrived>>

-----------------------------------------------------------------------------
\* One call's own steps, from its first query to its answer.
Step(c) ==
  \/ Lock(c) \/ Switch(c) \/ Status(c) \/ Authorize(c)
  \/ CheckBlocked(c) \/ Purge(c) \/ Insert(c)
  \/ (\E w \in WorkId : LookUp(c, w))
  \/ Recheck(c) \/ CheckGrants(c) \/ Claim(c) \/ Send(c) \/ Answer(c)
  \/ Record(c) \/ Release(c)

Arrive(c) ==
  \/ \E s \in Session : OpenSession(c, s)
  \/ \E s \in Session, tool \in Tools : ReadSession(c, tool, s)

Failure(c) ==
  Crash(c) \/ QueryFails(c) \/ LockReplyLost(c) \/ ClaimReplyLost(c)

Environment ==
  \/ \E s \in Session : ExpireSession(s)
  \/ \E w \in WorkId : ExpireWork(w) \/ RejectAfterReview(w)
  \/ \E g \in Grant : Revoke(g)

Next ==
  \/ \E c \in Call : Arrive(c) \/ Step(c) \/ Failure(c)
  \/ Environment

Spec == Init /\ [][Next]_vars

\* Every await of a running call returns: queries reply or reject, requests
\* to the backend time out after 15 seconds.
FairSpec == Spec /\ \A c \in Call : WF_vars(Step(c))

-----------------------------------------------------------------------------
(***************************************************************************)
(* Properties                                                              *)
(***************************************************************************)

\* Every variable keeps its type.
TypeOK ==
  /\ session \in [Session -> SessionRow]
  /\ work \in [WorkId -> WorkRow]
  /\ revoked \in SUBSET Grant
  /\ pc \in [Call -> Pc]
  /\ local \in [Call -> Locals]
  /\ sent \in [WorkId -> Nat]
  /\ acked \in SUBSET WorkId
  /\ era \in [Session -> Nat]
  /\ arrived \in Nat

\* The session CAS really excludes: no two calls are past Lock on one
\* session, so a property switch never overlaps a preview or a write.
SessionExclusive ==
  \A c1, c2 \in Call :
    /\ pc[c1] \in Holding
    /\ pc[c2] \in Holding
    /\ local[c1].sid = local[c2].sid
    => c1 = c2

\* Whatever calls, crashes, lost replies and expiries do, the backend is
\* sent a confirmed change at most once per operation id.
AtMostOneRequest == \A w \in WorkId : sent[w] <= 1

\* A scope never has two operations whose outcome is open: a second confirm
\* in the same session and property waits for the first to be resolved.
OneUnresolvedPerScope ==
  \A v, w \in WorkId :
    /\ work[v].status \in Unresolved
    /\ work[w].status \in Unresolved
    /\ work[v].scope = work[w].scope
    => v = w

\* A request that was not acknowledged leaves a row that says so, for ever:
\* it is not purged, and it does not turn back into a confirmable preview.
NothingForgotten ==
  \A w \in WorkId :
    sent[w] > 0 /\ w \notin acked => work[w].status \in Kept

\* One change in one scope is not sent again under a new operation id while
\* its first request went unacknowledged, reviewed or not, expired or not.
NoBlindRepeat ==
  \A v, w \in WorkId :
    /\ sent[v] > 0 /\ sent[w] > 0
    /\ v \notin acked /\ w \notin acked
    /\ work[v].scope = work[w].scope
    /\ work[v].digest = work[w].digest
    => v = w

\* A preview made before the session last switched property is never sent,
\* not even after switching back to its property.
PreviewsDieOnSwitch ==
  \A c \in Call :
    pc[c] \in Claimed =>
      work[local[c].wid].era = era[local[c].sid]

\* A grant revoked before the preview was looked up stops the write, be it
\* the property's grant or the grant the access token names.
RevocationStopsWrites ==
  \A c \in Call :
    pc[c] \in Claimed =>
      {local[c].grant, HomeGrant} \cap local[c].stale = {}

\* The backend's acknowledgement is the only way to a "submitted" row.
SubmittedWasAcked ==
  \A w \in WorkId : work[w].status = "submitted" => w \in acked

\* A user who asks get_operation_status for an unresolved operation made in
\* the session at hand is told about it.
UnresolvedIsReported ==
  \A c \in Call, w \in WorkId :
    /\ pc[c] = "status"
    /\ work[w].status \in Unresolved
    /\ work[w].scope[1] = local[c].sid
    => Visible(w, Scope(c))

\* Without crashes and lost replies a taken session comes back, or its row
\* has expired: no path through a call forgets the release.
SessionComesBack ==
  \A s \in Session :
    session[s].status = "busy" ~>
      (session[s].status = "pending" \/ ~session[s].live)

\* Without crashes and lost replies a claimed write gets its outcome, or
\* its row expires while the call still waits.
ClaimIsSettled ==
  \A w \in WorkId :
    work[w].status = "running" ~>
      (work[w].status # "running" \/ ~work[w].live)

\* The rows and requests, seen as the ledger of WriteLedger.
LedgerStage ==
  [w \in WorkId |->
    CASE work[w].status = "absent"            -> "none"
      [] work[w].status = "pending"           -> "offered"
      [] work[w].status = "submitted"         -> "accepted"
      [] work[w].status = "unknown"           -> "unresolved"
      [] work[w].status = "rejected_reviewed" -> "closed"
      [] work[w].status = "deleted"           -> "gone"
      [] work[w].status = "running"           ->
           IF sent[w] = 0 THEN "claimed" ELSE "requested"]

LedgerHome ==
  [w \in WorkId |->
    IF work[w].status = "absent" THEN <<>> ELSE work[w].scope]

Ledger == INSTANCE WriteLedger
  WITH ScopeSet <- Scopes, NoScope <- <<>>, stage <- LedgerStage,
       home <- LedgerHome

\* The protocol implements the ledger.
ImplementsLedger == Ledger!Spec
=============================================================================
