----------------------------- MODULE ChannelConnect -----------------------------
(***************************************************************************)
(* Connecting a sales channel.  The server remembers how the channel side  *)
(* of the property looks (the baseline), sends the user to a page, and when*)
(* the user says "done" compares what it finds with the baseline.          *)
(*                                                                         *)
(* The flow is kept in one of three places, fixed at the start:            *)
(*   "memory"  the local server's map, one entry for its client            *)
(*   "ticket"  the local server's file of Airbnb handshakes                *)
(*   "work"    the remote service's work_items, one row per conversation   *)
(*             and visit of a property; its page is reached by a one-time  *)
(*             link, which the site redeems for the property's token.      *)
(* A Slot holds one running call; each awaited answer begins a step.       *)
(*                                                                         *)
(* Abstracted: the channel side of a property is which change was its last,*)
(* which stands for its fingerprints, and whether what changed is ready;   *)
(* a session token is the property it is for; all grants are one user's,   *)
(* one for each property, and Home's is the one that the client itself     *)
(* holds.  One channel is connected.  A flow or link that expires is gone. *)
(***************************************************************************)
EXTENDS Naturals, Sequences, FiniteSets, FiniteSetsExt

CONSTANTS
  Slot,     \* calls that can be running at once
  Camp,     \* properties
  Home,     \* the property of the client's own grant
  Budgets   \* bounds, one of which is drawn for a behaviour: how many starts
            \* of a flow, redeem requests, revocations, changes of the channel
            \* side and changes of property there may be

ASSUME ConstantsOK ==
  /\ Home \in Camp
  /\ Budgets \subseteq [starts : Nat, redeems : Nat, revokes : Nat,
                         changes : Nat, switches : Nat]

VARIABLES
  host,       \* where flows are kept
  budget,     \* the bounds of this behaviour
  session,    \* the property in force
  epoch,      \* how often it was changed
  site,       \* the channel side of each property
  flows,      \* the flows kept
  links,      \* the remote links, in order of creation
  active,     \* properties whose grant has not been revoked
  pc,         \* where each call stands
  local,      \* its local variables
  launched,   \* history: what the site was when a flow was first launched
  redeemed,   \* history: tokens handed out
  starts,     \* starts so far, which number the flows
  redeems     \* redeem requests so far

hudson == <<site, active>>
kept   == <<flows, launched>>
vars == <<host, budget, session, epoch, hudson, kept, links, pc, local, redeemed,
          starts, redeems>>

Hosts  == {"memory", "ticket", "work"}
Side   == [n : 0..budget.changes, ready : BOOLEAN]
Owner  == [camp : Camp, at : Camp \union 0..budget.switches]
Unseen == [n |-> 0, ready |-> FALSE]

\* earned is history: what the flow was found to be when it first succeeded;
\* and stale: it took the place of one kept since its start began.
Flow == [id : 1..budget.starts, owner : Owner, camp : Camp, baseline : 0..budget.changes,
         status : {"pending", "succeeded"}, version : Nat,
         earned : [camp : Camp, side : Side], stale : BOOLEAN]
Link == [camp : Camp, status : {"pending", "consumed", "expired"}]

NoCall == [op |-> "none"]

Init ==
  /\ host \in Hosts /\ budget \in Budgets
  /\ session \in Camp /\ epoch = 0
  /\ site = [c \in Camp |-> Unseen]
  /\ flows = {} /\ launched = {}
  /\ links = <<>> /\ active = Camp /\ redeemed = {}
  /\ pc = [s \in Slot |-> "idle"] /\ local = [s \in Slot |-> NoCall]
  /\ starts = 0 /\ redeems = 0

-----------------------------------------------------------------------------
(***************************************************************************)
(* Whose a flow is, and where flows are kept.  A slip is a definition as a *)
(* plausible bug would have it; no action uses one.                        *)
(***************************************************************************)

SlipScope(c) == [camp |-> Home, at |-> Home]

\* The property of the call and the token of the moment; remotely the session,
\* which is new after every switch.
Scope(c) == [camp |-> c, at |-> IF host = "work" THEN epoch ELSE session]

\* The flow of an owner: for tickets the one that was saved last.
Found(o) ==
  {f \in flows : f.owner = o /\ \A g \in flows : g.owner = o => g.id <= f.id}

SlipInsert(f) == IF host = "memory" THEN {f} ELSE flows \union {f}

SlipUpsert(f) ==
  CASE host = "memory" -> {f}
    [] host = "ticket" -> flows \union {f}
    [] host = "work"   -> (flows \ Found(f.owner)) \union {f}

\* A new flow takes the place of any other in memory, joins the other tickets,
\* and as a row is not inserted where its owner has one.
Keep(f) ==
  CASE host = "memory" -> {f}
    [] host = "ticket" -> flows \union {f}
    [] host = "work"   -> IF Found(f.owner) = {} THEN flows \union {f} ELSE flows

\* WorkStore.replace: nothing happens to a row that changed or is gone.
Replace(f, g) == IF f \in flows THEN (flows \ {f}) \union {g} ELSE flows

Goto(s, p, c) ==
  /\ pc' = [pc EXCEPT ![s] = p]
  /\ local' = [local EXCEPT ![s] = c]
Finish(s) == Goto(s, "idle", NoCall)

\* The user gets the page for flow f, now or again.
Launch(f) ==
  launched' =
    IF f \notin flows' \/ \E l \in launched : l.owner = f.owner THEN launched
    ELSE launched \union {[owner |-> f.owner, n |-> site[f.camp].n]}

\* The launches of flows that are there no more, or are done, are history.
Settled(fs) == {l \in launched : \E f \in fs : f.owner = l.owner /\ f.status = "pending"}

-----------------------------------------------------------------------------
(***************************************************************************)
(* Starting a flow.                                                        *)
(***************************************************************************)

Redeeming(t) == pc[t] \in {"ticket", "grant", "source", "consume"}

\* A conversation's calls come one after the other (engine.ts, the session's
\* CAS to busy, which RemoteWrites models).
Free == host = "work" => \A t \in Slot : pc[t] = "idle" \/ Redeeming(t)

\* The local flow that is open already is shown again; otherwise the channel
\* side is asked for.
Start(s) ==
  /\ pc[s] = "idle" /\ Free /\ starts < budget.starts
  /\ starts' = starts + 1
  /\ LET o    == Scope(session)
         open == IF host = "memory"
                 THEN {f \in Found(o) : f.status = "pending"} ELSE {}
     IN \/ \E f \in open : Finish(s) /\ UNCHANGED flows /\ Launch(f)
        \/ /\ open = {}
           /\ Goto(s, "snapshot", [op |-> "start", id |-> starts', owner |-> o,
                                   camp |-> session, seen |-> {f.id : f \in Found(o)}])
           /\ UNCHANGED <<flows, launched>>
  /\ UNCHANGED <<host, budget, session, epoch, hudson, links, redeemed, redeems>>

NewFlow(c, n) ==
  [id |-> c.id, owner |-> c.owner, camp |-> c.camp, baseline |-> n, status |-> "pending",
   version |-> 1, earned |-> [camp |-> c.camp, side |-> Unseen], stale |-> FALSE]

\* snapshot(channelData): the baseline, which is kept only when it has arrived.
Snapshot(s) ==
  /\ pc[s] = "snapshot"
  /\ LET c == local[s] IN
     Goto(s, "create", [op |-> "start", flow |-> NewFlow(c, site[c.camp].n),
                        seen |-> c.seen])
  /\ UNCHANGED <<host, budget, session, epoch, hudson, kept, links, redeemed, starts, redeems>>

\* What of the flow is decided only now: in memory nothing orders two starts of
\* one client; a ticket is saved under the scope of now.
Opened(f, seen) ==
  CASE host = "memory" ->
         [f EXCEPT !.stale = \E g \in flows : g.owner = f.owner /\ g.id \notin seen]
    [] host = "ticket" -> [f EXCEPT !.owner = Scope(f.camp)]
    [] host = "work"   -> f

\* In memory the flow takes its place.  The ticket is made on the site and
\* saved; the row is inserted unless there is one, and one that succeeded is to
\* be opened again.
Create(s) ==
  /\ pc[s] = "create"
  /\ LET f == Opened(local[s].flow, local[s].seen)
         p == IF host = "work" THEN "link" ELSE "launch"
     IN /\ flows' = Keep(f)
        /\ launched' = Settled(flows')
        /\ \E g \in {h \in flows' : h.id = f.id \/ (host = "work" /\ h.owner = f.owner)} :
             Goto(s, IF g.status = "succeeded" THEN "reset" ELSE p,
                  [op |-> "start", flow |-> g, next |-> f.baseline])
  /\ UNCHANGED <<host, budget, session, epoch, hudson, links, redeemed, starts, redeems>>

\* A flow that succeeded starts again from the new baseline.
Reset(s) ==
  /\ pc[s] = "reset"
  /\ LET f == local[s].flow
         g == [f EXCEPT !.status = "pending", !.baseline = local[s].next,
                        !.version = @ + 1]
     IN /\ flows' = Replace(f, g)
        /\ IF f \in flows THEN Goto(s, "link", [op |-> "start", flow |-> g])
                          ELSE Finish(s)
  /\ UNCHANGED <<host, budget, session, epoch, hudson, launched, links,
                 redeemed, starts, redeems>>

\* RemoteHandshake.create: the link for the browser.
MakeLink(s) ==
  /\ pc[s] = "link"
  /\ links' = Append(links, [camp |-> local[s].flow.camp, status |-> "pending"])
  /\ Goto(s, "launch", local[s])
  /\ UNCHANGED <<host, budget, session, epoch, hudson, kept, redeemed, starts, redeems>>

\* The answer reaches the user, and the browser opens.
Answer(s) ==
  /\ pc[s] = "launch"
  /\ Finish(s)
  /\ UNCHANGED flows
  /\ Launch(local[s].flow)
  /\ UNCHANGED <<host, budget, session, epoch, hudson, links, redeemed,
                 starts, redeems>>

-----------------------------------------------------------------------------
(***************************************************************************)
(* The user is done.                                                       *)
(***************************************************************************)

\* Only a flow that is the session's, still pending, is compared.  A ticket
\* can also be named; it must still be the session's.
Complete(s) ==
  /\ pc[s] = "idle" /\ Free
  /\ \E f \in flows :
       /\ f.owner = Scope(session) /\ f.status = "pending"
       /\ host # "ticket" => f \in Found(f.owner)
       /\ host = "ticket" => f.camp = session
       /\ Goto(s, "compare", [op |-> "complete", flow |-> f, camp |-> session])
  /\ UNCHANGED <<host, budget, session, epoch, hudson, kept, links, redeemed, starts, redeems>>

\* Something changed, nothing that changed has failed, and all of it is ready.
Done(f, c) ==
  /\ c # f.camp \/ site[c].n # f.baseline
  /\ site[c].ready

\* What the flow becomes when the property of the call is found done.
Success(f, c) ==
  [f EXCEPT !.status = "succeeded", !.version = @ + 1,
            !.earned = [camp |-> c, side |-> site[c]]]

\* What the channel side is found to be was read at Hudson; what the user is
\* told, and what is marked, is decided on that answer.
Compare(s) ==
  /\ pc[s] = "compare"
  /\ LET f == local[s].flow
         c == local[s].camp
     IN IF Done(f, c)
        THEN Goto(s, "mark", [local[s] EXCEPT !.flow = Success(f, c)])
        ELSE Finish(s)
  /\ UNCHANGED <<host, budget, session, epoch, hudson, kept, links, redeemed, starts, redeems>>

\* The row is marked, if it is still what was judged.  The local hosts keep no
\* version: in memory it is the flow itself that is marked, kept or not, and a
\* ticket is written again, which for an expired one is of no use to anybody.
\* What a second answer writes over a success is not told apart from it.
Mark(s) ==
  /\ pc[s] = "mark"
  /\ LET g == local[s].flow
         judged(f) == /\ f.id = g.id
                      /\ IF host = "work" THEN f.version + 1 = g.version
                                          ELSE f.status = "pending"
     IN flows' = {IF judged(f) THEN g ELSE f : f \in flows}
  /\ launched' = Settled(flows')
  /\ Finish(s)
  /\ UNCHANGED <<host, budget, session, epoch, hudson, links, redeemed, starts, redeems>>

-----------------------------------------------------------------------------
(***************************************************************************)
(* The site redeems a link.                                                *)
(***************************************************************************)

\* The work row is read.  before is history: the grants of that moment.
Redeem(s) ==
  /\ host = "work" /\ pc[s] = "idle" /\ redeems < budget.redeems
  /\ redeems' = redeems + 1
  /\ \E i \in DOMAIN links :
       /\ links[i].status = "pending"
       /\ Goto(s, "grant", [op |-> "redeem", link |-> i, before |-> active])
  /\ UNCHANGED <<host, budget, session, epoch, hudson, kept, links, redeemed, starts>>

ReadGrant(s) ==
  /\ pc[s] = "grant"
  /\ IF links[local[s].link].camp \in active
     THEN Goto(s, "source", local[s]) ELSE Finish(s)
  /\ UNCHANGED <<host, budget, session, epoch, hudson, kept, links, redeemed, starts, redeems>>

SlipHasSource == TRUE

\* readActive of the grant the client itself holds.
HasSource == Home \in active

ReadSource(s) ==
  /\ pc[s] = "source"
  /\ IF HasSource THEN Goto(s, "consume", local[s]) ELSE Finish(s)
  /\ UNCHANGED <<host, budget, session, epoch, hudson, kept, links, redeemed, starts, redeems>>

SlipUnspent(i) == links[i].status # "expired"

\* The CAS to consumed finds the row as it was read.
Unspent(i) == links[i].status = "pending"

\* The token goes out only when the row was consumed; the answer may be lost.
Consume(s) ==
  /\ pc[s] = "consume"
  /\ LET i == local[s].link IN
     IF Unspent(i)
     THEN /\ links' = [links EXCEPT ![i].status = "consumed"]
          /\ redeemed' = redeemed \union
               {[link |-> i, by |-> redeems, before |-> local[s].before]}
     ELSE UNCHANGED <<links, redeemed>>
  /\ Finish(s)
  /\ UNCHANGED <<host, budget, session, epoch, hudson, kept, starts, redeems>>

-----------------------------------------------------------------------------
(***************************************************************************)
(* What happens around the calls.                                          *)
(***************************************************************************)

\* Any request of a call fails, or its answer is lost.
CallFails(s) ==
  /\ pc[s] # "idle"
  /\ Finish(s)
  /\ UNCHANGED <<host, budget, session, epoch, hudson, kept, links, redeemed, starts, redeems>>

\* The user in the browser, another user, or the channel itself.
SiteChanges(c) ==
  /\ LET last == Max({site[d].n : d \in Camp}) IN
     /\ last < budget.changes
     /\ \E r \in BOOLEAN : site' = [site EXCEPT ![c] = [n |-> last + 1, ready |-> r]]
  /\ UNCHANGED <<host, budget, session, epoch, active, kept, links, pc, local, redeemed,
                 starts, redeems>>

\* A sign-in, or switch_property.
Switch ==
  /\ Free /\ epoch < budget.switches
  /\ session' \in Camp \ {session}
  /\ epoch' = epoch + 1
  /\ UNCHANGED <<host, budget, hudson, kept, links, pc, local, redeemed, starts, redeems>>

Revoke(c) ==
  /\ host = "work" /\ c \in active
  /\ Cardinality(Camp \ active) < budget.revokes
  /\ active' = active \ {c}
  /\ UNCHANGED <<host, budget, session, epoch, site, kept, links, pc, local, redeemed,
                 starts, redeems>>

FlowExpires(f) ==
  /\ flows' = flows \ {f}
  /\ launched' = Settled(flows')
  /\ UNCHANGED <<host, budget, session, epoch, hudson, links, pc, local,
                 redeemed, starts, redeems>>

LinkExpires(i) ==
  /\ links[i].status = "pending"
  /\ links' = [links EXCEPT ![i].status = "expired"]
  /\ UNCHANGED <<host, budget, session, epoch, hudson, kept, pc, local, redeemed, starts, redeems>>

Next ==
  \/ Switch
  \/ \E c \in Camp : SiteChanges(c) \/ Revoke(c)
  \/ \E f \in flows : FlowExpires(f)
  \/ \E i \in DOMAIN links : LinkExpires(i)
  \/ \E s \in Slot :
       \/ Start(s) \/ Snapshot(s) \/ Create(s) \/ Reset(s) \/ MakeLink(s)
       \/ Answer(s) \/ Complete(s) \/ Compare(s) \/ Mark(s)
       \/ Redeem(s) \/ ReadGrant(s) \/ ReadSource(s) \/ Consume(s)
       \/ CallFails(s)

Spec == Init /\ [][Next]_vars

-----------------------------------------------------------------------------
(***************************************************************************)
(* Properties.                                                             *)
(***************************************************************************)

TypeOK ==
  /\ host \in Hosts /\ budget \in Budgets
  /\ session \in Camp /\ epoch \in 0..budget.switches
  /\ site \in [Camp -> Side] /\ active \subseteq Camp
  /\ flows \subseteq Flow
  /\ \A f, g \in flows : f.id = g.id => f = g
  /\ host = "memory" => Cardinality(flows) <= 1
  /\ host = "work" => \A f, g \in flows : f.owner = g.owner => f = g
  /\ \A i \in DOMAIN links : links[i] \in Link
  /\ pc \in [Slot -> {"idle", "snapshot", "create", "reset", "link", "launch",
                      "compare", "mark", "grant", "source", "consume"}]
  /\ starts \in 0..budget.starts /\ redeems \in 0..budget.redeems
  /\ \A l \in launched : l.owner \in Owner /\ l.n \in 0..budget.changes

\* "Capture before launching, so fast PC operations cannot be absorbed into the
\* baseline" (channelConnectionFlow.ts:53), also when the flow is started again
\* or succeeded before: whatever changes after the user was first sent to the
\* page is seen by complete.  Not so for a stale flow: of two starts of the
\* local server that overlap, the later answer takes the place of the flow that
\* the user was sent to the page for, with a baseline of its own.
BaselineBeforeLaunch ==
  host # "ticket" =>
    \A f \in flows, l \in launched :
      f.status = "pending" /\ ~f.stale /\ f.owner = l.owner => f.baseline <= l.n

\* "Reopening preserves the original baseline" (channelFlows.ts:61): an open
\* flow gives way to no other and keeps what it compares with; and what is
\* opened after a success compares with a state that has the change which
\* earned it, so that no change is counted twice, whatever starts, completions,
\* expiries and switches come between.  The one exception is the stale flow: a
\* start that began before the flow it replaces was kept may hold an older
\* baseline, and a change that earned the other's success then counts again.
ReopeningKeepsBaseline ==
  [][host # "ticket" =>
       \A f \in flows, g \in flows' :
         f.owner = g.owner /\ g.status = "pending" =>
           \/ g = f \/ g.stale
           \/ f.status = "succeeded" /\ f.earned.side.n <= g.baseline]_flows

\* A flow succeeds on its own property alone, which changed since its baseline
\* and is ready, whichever sign-ins and switches came between
\* (channelConnectionFlow.ts:83, handshake.ts:173, engine.ts:115).
SuccessIsEarned ==
  \A f \in flows :
    f.status = "succeeded" =>
      /\ f.earned.camp = f.camp
      /\ f.earned.side.n > f.baseline
      /\ f.earned.side.ready

\* A link is worth one token, whatever requests race for it, and only one that
\* was asked for while the grants of the property and of the client both stood
\* (handshake.ts:56-75).
LinkOpensOnce ==
  /\ \A r, q \in redeemed : r.link = q.link => r = q
  /\ \A r \in redeemed : {links[r.link].camp, Home} \subseteq r.before
=============================================================================
