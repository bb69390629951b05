----------------------- MODULE ChannelConnect_proofs -----------------------
(***************************************************************************)
(* The safety invariants of ChannelConnect hold in each of the three hosts *)
(* for every number of concurrent calls, properties, starts, redeem        *)
(* requests, revocations, changes of the channel side and of property.     *)
(*                                                                         *)
(* The inductive invariant, part by part:                                  *)
(*   Ground     the types of what is no flow, call or link;                *)
(*   FlowInv    flows are typed and sound: a flow is of its owner's        *)
(*              property, its baseline is not from the future, and its     *)
(*              success was earned; where the host keeps one flow for an   *)
(*              owner, there is one;                                       *)
(*   LaunchInv  what was launched is still pending, and BaselineBeforeLaunch;*)
(*   CallInv    the flow a call holds is sound as well, and its status is  *)
(*              what its place asks for;                                   *)
(*   IdInv      the number of a flow about to be kept is nobody else's, and*)
(*              a call's flow is of one owner with the kept one of its     *)
(*              number, which is what Mark relies on;                      *)
(*   LinkInv    grants a redeem request saw in force were in force when it *)
(*              began, and whoever was given a token consumed its link;    *)
(*   SeenInv    in memory, a flow that a start found when it began, and    *)
(*              that is still kept, has succeeded.                         *)
(*                                                                         *)
(* SeenInv is what orders two overlapping starts of the local server: if   *)
(* the flow that a start replaces is one that it found, nobody is working  *)
(* with it any more; if it is not, the new flow is stale.                  *)
(*                                                                         *)
(* ReopeningKeepsBaseline is about two states, and needs one more: PastInv,*)
(* that what a success was earned by is not later than anything a flow will*)
(* be opened with, for the flows and for the calls that are about to keep  *)
(* one, open it again or mark it.  Remotely it holds because the calls of  *)
(* one conversation take turns, in memory because of SeenInv.              *)
(***************************************************************************)
EXTENDS ChannelConnect, FiniteSetTheorems, TLAPS

-----------------------------------------------------------------------------
Opening  == {"snapshot", "create"}
Holding  == {"reset", "link", "launch", "compare", "mark"}
Spending == {"grant", "source", "consume"}

Ground ==
  /\ host \in Hosts /\ budget \in Budgets
  /\ session \in Camp /\ epoch \in 0..budget.switches
  /\ site \in [Camp -> Side] /\ active \subseteq Camp
  /\ starts \in 0..budget.starts /\ redeems \in 0..budget.redeems
  /\ pc \in [Slot -> {"idle"} \union Opening \union Holding \union Spending]
  /\ DOMAIN local = Slot

\* What holds of every flow, kept or held, when the channel sides are w.
Sound(w, f) ==
  /\ f.owner.camp = f.camp
  /\ f.baseline <= w[f.camp].n
  /\ f.status = "succeeded" =>
       /\ f.earned.camp = f.camp
       /\ f.earned.side.n > f.baseline
       /\ f.earned.side.ready

FlowInv ==
  /\ flows \subseteq Flow
  /\ \A f \in flows : Sound(site, f) /\ f.id <= starts
  /\ \A f, g \in flows : f.id = g.id => f = g
  /\ host = "memory" => \A f, g \in flows : f = g
  /\ host = "work" => \A f, g \in flows : f.owner = g.owner => f = g

LaunchInv ==
  /\ \A l \in launched : l.owner \in Owner /\ l.n \in 0..budget.changes
  /\ host # "ticket" =>
       \A l \in launched : \E f \in flows : f.owner = l.owner /\ f.status = "pending"
  /\ BaselineBeforeLaunch

\* The flow that call s is about to keep, or was given by the store.
CallOK(s) ==
  LET c == local[s] IN
  /\ pc[s] = "snapshot" =>
       /\ c.camp \in Camp /\ c.owner \in Owner /\ c.owner.camp = c.camp
       /\ c.id \in 1..starts
  /\ pc[s] \in Holding \union {"create"} =>
       c.flow \in Flow /\ Sound(site, c.flow) /\ c.flow.id <= starts
  /\ pc[s] = "reset" => host = "work"
  /\ pc[s] \in {"create", "link", "launch", "compare"} => c.flow.status = "pending"
  /\ pc[s] \in {"reset", "mark"} => c.flow.status = "succeeded"
  /\ pc[s] \in {"compare", "mark"} => c.camp = c.flow.camp
  /\ pc[s] = "reset" =>
       c.next \in 0..budget.changes /\ c.next <= site[c.flow.camp].n

CallInv == \A s \in Slot : CallOK(s)

Id(p, c) == IF p = "snapshot" THEN c.id ELSE c.flow.id

Kin(f, g) == f.id = g.id => f.owner = g.owner /\ f.camp = g.camp

IdInv ==
  /\ \A s \in Slot : pc[s] \in Opening => \A f \in flows : f.id # Id(pc[s], local[s])
  /\ \A s, t \in Slot :
       s # t /\ pc[s] \in Opening /\ pc[t] \in Opening \union Holding
         => Id(pc[s], local[s]) # Id(pc[t], local[t])
  /\ \A s \in Slot : pc[s] \in Holding => \A f \in flows : Kin(f, local[s].flow)

\* Where a redeem request stands.
SpendOK(s) ==
  LET c == local[s] IN
  /\ pc[s] \in Spending =>
       c.link \in DOMAIN links /\ active \subseteq c.before
  /\ pc[s] \in {"source", "consume"} => links[c.link].camp \in c.before
  /\ pc[s] = "consume" => Home \in c.before

LinkInv ==
  /\ links \in Seq(Link)
  /\ \A s \in Slot : SpendOK(s)
  /\ \A r \in redeemed :
       /\ r.link \in DOMAIN links /\ links[r.link].status = "consumed"
       /\ {links[r.link].camp, Home} \subseteq r.before
  /\ \A r, q \in redeemed : r.link = q.link => r = q

IInv == Ground /\ FlowInv /\ LaunchInv /\ CallInv /\ IdInv /\ LinkInv

\* What a start found when it began has succeeded, and is not what another is
\* about to keep.
SeenInv ==
  \A s \in Slot :
    pc[s] \in Opening =>
      /\ local[s].seen \subseteq 1..starts
      /\ host = "memory" =>
           \A f \in flows : f.id \in local[s].seen => f.status = "succeeded"
      /\ \A t \in Slot : pc[t] \in Opening => Id(pc[t], local[t]) \notin local[s].seen

USE DEF Opening, Holding, Spending

-----------------------------------------------------------------------------
(***************************************************************************)
(* Lemmas about values.                                                    *)
(***************************************************************************)

\* The sets a budget bounds are the same as long as it is.
LEMMA TypesStand ==
  ASSUME budget' = budget
  PROVE  Flow' = Flow /\ Owner' = Owner /\ Side' = Side
  BY DEF Flow, Owner, Side

\* The bounds are numbers.
LEMMA BoundsAreNumbers ==
  ASSUME Ground
  PROVE  /\ budget.starts \in Nat /\ budget.redeems \in Nat
         /\ budget.changes \in Nat /\ budget.switches \in Nat
  BY ConstantsOK DEF Ground

\* A bounded set of numbers that is not empty has a greatest element.
LEMMA GreatestElement ==
  ASSUME NEW n \in Nat, NEW S \in SUBSET (0..n), S # {}
  PROVE  Max(S) \in S /\ \A x \in S : x <= Max(S)
  <1> DEFINE Above == {k..n : k \in S}
  <1>1. Above \subseteq FiniteSubsetsOf(Nat) /\ Above # {}
    <2>1. \A k \in S : k..n \in SUBSET Nat /\ IsFiniteSet(k..n)
      BY FS_Interval
    <2> QED BY <2>1 DEF FiniteSubsetsOf
  <1>2. PICK b \in Above :
          \A y \in Above : <<y, b>> \notin StrictSubsetOrdering(Nat)
    <2> HIDE DEF Above
    <2> QED BY <1>1, FS_StrictSubsetOrderingWellFounded, WFMin
  <1>3. PICK m \in S : b = m..n
    OBVIOUS
  <1>4. ASSUME NEW y \in S, m < y  PROVE FALSE
    <2>1. y..n \subseteq m..n /\ m \in m..n /\ m \notin y..n
      BY <1>4
    <2>2. y..n \in SUBSET Nat /\ m..n \in SUBSET Nat
      OBVIOUS
    <2>3. <<y..n, m..n>> \in StrictSubsetOrdering(Nat)
      BY <2>1, <2>2 DEF StrictSubsetOrdering
    <2> QED BY <1>2, <1>3, <2>3
  <1>5. \E x \in S : \A y \in S : x >= y
    BY <1>4
  <1> QED BY <1>5 DEF Max

\* Where the host keeps one flow for an owner, what is found is all there is.
LEMMA FoundIsAll ==
  ASSUME Ground, FlowInv, host = "work", NEW o
  PROVE  Found(o) = {f \in flows : f.owner = o}
  <1>1. \A f \in flows : f.id \in Nat
    BY BoundsAreNumbers DEF FlowInv, Flow
  <1> QED BY <1>1 DEF FlowInv, Found

\* The owner of a call.
LEMMA ScopeType ==
  ASSUME Ground, NEW c \in Camp
  PROVE  Scope(c) \in Owner /\ Scope(c).camp = c
  BY DEF Ground, Scope, Owner

\* A flow that is sound stays sound when channel sides move on.
LEMMA SoundStays ==
  ASSUME Ground, NEW f \in Flow, Sound(site, f), NEW w \in [Camp -> Side],
         \A c \in Camp : w[c].n >= site[c].n
  PROVE  Sound(w, f)
  <1>1. f.camp \in Camp /\ f.baseline \in Nat
    BY DEF Flow
  <1>2. w[f.camp].n \in Nat /\ site[f.camp].n \in Nat
    BY <1>1 DEF Ground, Side
  <1> QED BY <1>1, <1>2 DEF Sound

-----------------------------------------------------------------------------
(***************************************************************************)
(* What the parts of a step do to the invariant.                           *)
(***************************************************************************)

\* Channel sides only move on, and starts are only added.
Onward ==
  /\ budget' = budget /\ host' = host
  /\ site' \in [Camp -> Side] /\ \A c \in Camp : site'[c].n >= site[c].n
  /\ starts' \in Nat /\ starts' >= starts

\* A call that does nothing keeps its place.
LEMMA CallStands ==
  ASSUME Ground, Onward, NEW s \in Slot, CallOK(s),
         pc'[s] = pc[s], local'[s] = local[s]
  PROVE  CallOK(s)'
  <1>1. Flow' = Flow /\ Owner' = Owner
    BY TypesStand DEF Onward
  <1>2. starts \in Nat
    BY BoundsAreNumbers DEF Ground
  <1>3. PICK p, c : p = pc[s] /\ c = local[s] /\ p = pc'[s] /\ c = local'[s]
    OBVIOUS
  <1>4. p = "snapshot" =>
          /\ c.camp \in Camp /\ c.owner \in Owner /\ c.owner.camp = c.camp
          /\ c.id \in 1..starts'
    BY <1>2, <1>3 DEF CallOK, Onward
  <1>5. p \in Holding \union {"create"} =>
          c.flow \in Flow /\ Sound(site', c.flow) /\ c.flow.id <= starts'
    <2>1. SUFFICES ASSUME p \in Holding \union {"create"}
                   PROVE  c.flow \in Flow /\ Sound(site', c.flow) /\ c.flow.id <= starts'
      OBVIOUS
    <2>2. c.flow \in Flow /\ Sound(site, c.flow) /\ c.flow.id <= starts
      BY <1>3, <2>1 DEF CallOK
    <2>3. Sound(site', c.flow)
      BY <2>2, SoundStays DEF Onward
    <2>4. c.flow.id \in Nat
      BY <2>2, BoundsAreNumbers DEF Flow
    <2> QED BY <1>2, <2>2, <2>3, <2>4 DEF Onward
  <1>6. p = "reset" =>
          c.next \in 0..budget.changes /\ c.next <= site'[c.flow.camp].n
    <2>1. SUFFICES ASSUME p = "reset"
                   PROVE  /\ c.next \in 0..budget.changes
                          /\ c.next <= site'[c.flow.camp].n
      OBVIOUS
    <2>2. /\ c.next \in 0..budget.changes /\ c.next <= site[c.flow.camp].n
          /\ c.flow \in Flow
      BY <1>3, <2>1 DEF CallOK
    <2>3. c.flow.camp \in Camp /\ c.next \in Nat
      BY <2>2 DEF Flow
    <2>4. site[c.flow.camp].n \in Nat /\ site'[c.flow.camp].n \in Nat
      BY <2>3 DEF Ground, Onward, Side
    <2> QED BY <2>2, <2>3, <2>4 DEF Onward
  <1>7. /\ p = "reset" => host' = "work"
        /\ p \in {"create", "link", "launch", "compare"} => c.flow.status = "pending"
        /\ p \in {"reset", "mark"} => c.flow.status = "succeeded"
        /\ p \in {"compare", "mark"} => c.camp = c.flow.camp
    BY <1>3 DEF CallOK, Onward
  <1>8. budget' = budget
    BY DEF Onward
  <1> QED BY <1>1, <1>3, <1>4, <1>5, <1>6, <1>7, <1>8 DEF CallOK

\* An idle place holds nothing.
LEMMA IdleIsOK ==
  ASSUME NEW s \in Slot, pc'[s] = "idle"
  PROVE  CallOK(s)' /\ SpendOK(s)'
  BY DEF CallOK, SpendOK

\* All calls but one stand still.
LEMMA CallsStand ==
  ASSUME Ground, Onward, CallInv, NEW s \in Slot, CallOK(s)',
         \A t \in Slot \ {s} : pc'[t] = pc[t] /\ local'[t] = local[t]
  PROVE  CallInv'
  <1>1. ASSUME NEW t \in Slot  PROVE CallOK(t)'
    <2>1. CASE t = s
      BY <2>1
    <2>2. CASE t # s
      BY <2>2, CallStands DEF CallInv
    <2> QED BY <2>1, <2>2
  <1> QED BY <1>1 DEF CallInv

\* The call keeps its number on the way to being kept, and its flow's owner
\* and property afterwards, or gives the flow up.
Follows(p, c, q, d) ==
  /\ q \in Opening => p \in Opening /\ Id(q, d) = Id(p, c)
  /\ q \in Holding =>
       /\ p \in Holding
       /\ d.flow.id = c.flow.id /\ d.flow.owner = c.flow.owner
       /\ d.flow.camp = c.flow.camp

\* No flow is new: each is a former one, perhaps marked or reset.
Descend ==
  \A f \in flows' : \E g \in flows :
    f.id = g.id /\ f.owner = g.owner /\ f.camp = g.camp

\* Numbers stay apart when no flow is new.
LEMMA IdsStand ==
  ASSUME IdInv, Descend, \A t \in Slot : Follows(pc[t], local[t], pc'[t], local'[t])
  PROVE  IdInv'
  <1>1. ASSUME NEW s \in Slot, pc'[s] \in Opening, NEW f \in flows'
        PROVE  f.id # Id(pc'[s], local'[s])
    <2>1. pc[s] \in Opening /\ Id(pc'[s], local'[s]) = Id(pc[s], local[s])
      BY <1>1 DEF Follows
    <2> QED BY <2>1 DEF IdInv, Descend
  <1>2. ASSUME NEW s \in Slot, NEW t \in Slot, s # t, pc'[s] \in Opening,
               pc'[t] \in Opening \union Holding
        PROVE  Id(pc'[s], local'[s]) # Id(pc'[t], local'[t])
    <2>1. pc[s] \in Opening /\ Id(pc'[s], local'[s]) = Id(pc[s], local[s])
      BY <1>2 DEF Follows
    <2>2. pc[t] \in Opening \union Holding /\ Id(pc'[t], local'[t]) = Id(pc[t], local[t])
      <3>1. CASE pc'[t] \in Opening
        BY <3>1 DEF Follows
      <3>2. CASE pc'[t] \in Holding
        <4>1. pc[t] \in Holding /\ local'[t].flow.id = local[t].flow.id
          BY <3>2 DEF Follows
        <4> QED BY <3>2, <4>1 DEF Id
      <3> QED BY <1>2, <3>1, <3>2
    <2> QED BY <1>2, <2>1, <2>2 DEF IdInv
  <1>3. ASSUME NEW s \in Slot, pc'[s] \in Holding, NEW f \in flows'
        PROVE  Kin(f, local'[s].flow)
    <2>1. /\ pc[s] \in Holding
          /\ local'[s].flow.id = local[s].flow.id
          /\ local'[s].flow.owner = local[s].flow.owner
          /\ local'[s].flow.camp = local[s].flow.camp
      BY <1>3 DEF Follows
    <2>2. PICK g \in flows : f.id = g.id /\ f.owner = g.owner /\ f.camp = g.camp
      BY DEF Descend
    <2>3. Kin(g, local[s].flow)
      BY <2>1 DEF IdInv
    <2> QED BY <2>1, <2>2, <2>3 DEF Kin
  <1> QED BY <1>1, <1>2, <1>3 DEF IdInv

\* Whoever stands still follows, and so does whoever ends.
LEMMA StandingFollows == \A p, c, d : Follows(p, c, p, c) /\ Follows(p, c, "idle", d)
  BY DEF Follows

\* Links and requests for them stand still, grants are only revoked.
LEMMA LinksStand ==
  ASSUME LinkInv, links' = links, redeemed' = redeemed, active' \subseteq active,
         \A t \in Slot : \/ pc'[t] = pc[t] /\ local'[t] = local[t]
                         \/ pc'[t] \notin Spending
  PROVE  LinkInv'
  <1>1. ASSUME NEW t \in Slot  PROVE SpendOK(t)'
    <2>1. CASE pc'[t] = pc[t] /\ local'[t] = local[t]
      BY <2>1 DEF LinkInv, SpendOK
    <2>2. CASE pc'[t] \notin Spending
      BY <2>2 DEF SpendOK
    <2> QED BY <2>1, <2>2
  <1>2. Link' = Link
    BY DEF Link
  <1> QED BY <1>1, <1>2 DEF LinkInv

\* Flows and what was launched stand still.
LEMMA FlowsStand ==
  ASSUME Ground, Onward, FlowInv, LaunchInv, flows' = flows, launched' = launched
  PROVE  FlowInv' /\ LaunchInv'
  <1>1. Flow' = Flow /\ Owner' = Owner
    BY TypesStand DEF Onward
  <1>2. ASSUME NEW f \in flows  PROVE f \in Flow /\ Sound(site', f) /\ f.id <= starts'
    <2>1. f \in Flow /\ Sound(site, f) /\ f.id <= starts
      BY DEF FlowInv
    <2>2. f.id \in Nat /\ starts \in Nat
      BY <2>1, BoundsAreNumbers DEF Flow, Ground
    <2> QED BY <2>1, <2>2, SoundStays DEF Onward
  <1>3. FlowInv'
    BY <1>1, <1>2 DEF FlowInv, Onward
  <1>4. LaunchInv'
    BY <1>1 DEF LaunchInv, BaselineBeforeLaunch, Onward
  <1> QED BY <1>3, <1>4

\* A call goes to another place, and nothing it shares with others changes but
\* flows and links.
LEMMA GotoStep ==
  ASSUME Ground, NEW s \in Slot, NEW c,
         NEW p \in {"idle"} \union Opening \union Holding \union Spending,
         Goto(s, p, c),
         UNCHANGED <<host, budget, session, epoch, hudson, starts, redeems>>
  PROVE  /\ Ground' /\ Onward
         /\ pc'[s] = p /\ local'[s] = c
         /\ \A t \in Slot \ {s} : pc'[t] = pc[t] /\ local'[t] = local[t]
         /\ host' = host /\ site' = site /\ active' = active /\ starts' = starts
  <1>1. site' = site /\ active' = active
    BY DEF hudson
  <1>2. pc' = [pc EXCEPT ![s] = p] /\ local' = [local EXCEPT ![s] = c]
    BY DEF Goto
  <1>3. /\ pc'[s] = p /\ local'[s] = c
        /\ \A t \in Slot \ {s} : pc'[t] = pc[t] /\ local'[t] = local[t]
        /\ pc' \in [Slot -> {"idle"} \union Opening \union Holding \union Spending]
        /\ DOMAIN local' = Slot
    BY <1>2 DEF Ground
  <1>4. Side' = Side
    BY TypesStand
  <1>5. Ground'
    BY <1>1, <1>3, <1>4 DEF Ground
  <1>6. Onward
    <2>1. starts \in Nat
      BY BoundsAreNumbers DEF Ground
    <2>2. \A c2 \in Camp : site[c2].n \in Nat
      BY BoundsAreNumbers DEF Ground, Side
    <2> QED BY <1>1, <2>1, <2>2 DEF Ground, Onward
  <1> QED BY <1>1, <1>3, <1>5, <1>6

\* A call is over, and flows, links and grants stand still.
LEMMA EndKeeps ==
  ASSUME IInv, NEW s \in Slot, Finish(s),
         UNCHANGED <<host, budget, session, epoch, hudson, kept, links, redeemed,
                     starts, redeems>>
  PROVE  IInv'
  <1>1. Goto(s, "idle", NoCall) /\ UNCHANGED <<flows, launched>>
    BY DEF Finish, kept
  <1>2. /\ Ground' /\ Onward /\ active' = active /\ pc'[s] = "idle"
        /\ \A t \in Slot \ {s} : pc'[t] = pc[t] /\ local'[t] = local[t]
    BY <1>1, GotoStep DEF IInv, Ground
  <1>3. FlowInv' /\ LaunchInv'
    BY <1>1, <1>2, FlowsStand DEF IInv
  <1>4. CallInv'
    BY <1>2, IdleIsOK, CallsStand DEF IInv
  <1>5. IdInv'
    BY <1>1, <1>2, StandingFollows, IdsStand DEF IInv, Descend
  <1>6. LinkInv'
    BY <1>2, LinksStand DEF IInv
  <1> QED BY <1>2, <1>3, <1>4, <1>5, <1>6 DEF IInv

\* A flow is launched, once, when its baseline has been taken.
LEMMA LaunchKeeps ==
  ASSUME Ground, FlowInv, LaunchInv, NEW f \in Flow, Sound(site, f),
         f.status = "pending", Launch(f),
         UNCHANGED <<flows, site, host, budget>>
  PROVE  LaunchInv'
  <1> DEFINE new == [owner |-> f.owner, n |-> site[f.camp].n]
  <1>1. \A l \in launched' : l \in launched \/ (l = new /\ f \in flows)
    BY DEF Launch
  <1>2. /\ new.owner = f.owner /\ new.n = site[f.camp].n
        /\ new.owner \in Owner /\ new.n \in 0..budget.changes
    BY DEF Flow, Ground, Side
  <1> HIDE DEF new
  <1>3. \A l \in launched' : l.owner \in Owner' /\ l.n \in 0..budget.changes
    BY <1>1, <1>2, TypesStand DEF LaunchInv
  <1>4. host # "ticket" =>
          \A l \in launched' : \E g \in flows : g.owner = l.owner /\ g.status = "pending"
    BY <1>1, <1>2 DEF LaunchInv
  <1>5. ASSUME host # "ticket", NEW g \in flows, NEW l \in launched',
               g.status = "pending", ~g.stale, g.owner = l.owner
        PROVE  g.baseline <= l.n
    <2>1. CASE l \in launched
      BY <1>5, <2>1 DEF LaunchInv, BaselineBeforeLaunch
    <2>2. CASE l = new /\ f \in flows
      <3>1. g = f
        BY <1>2, <1>5, <2>2 DEF FlowInv, Ground, Hosts
      <3> QED BY <1>2, <2>2, <3>1 DEF Sound
    <2> QED BY <1>1, <2>1, <2>2
  <1> QED BY <1>3, <1>4, <1>5 DEF LaunchInv, BaselineBeforeLaunch

\* Flows settle: the launches of those that are no longer pending are history.
LEMMA SettlingKeeps ==
  ASSUME LaunchInv, launched' = Settled(flows'),
         \A f \in flows' : f.status = "pending" => f \in flows,
         UNCHANGED <<host, budget>>
  PROVE  LaunchInv'
  <1>1. \A l \in launched' :
          l \in launched /\ \E f \in flows' : f.owner = l.owner /\ f.status = "pending"
    BY DEF Settled
  <1> QED BY <1>1, TypesStand DEF LaunchInv, BaselineBeforeLaunch

-----------------------------------------------------------------------------
(***************************************************************************)
(* Starting a flow.                                                        *)
(***************************************************************************)

\* Starting shows an open flow again, or asks for the channel side.
LEMMA StartKeeps ==
  ASSUME IInv, NEW s \in Slot, Start(s)
  PROVE  IInv'
  <1>1. /\ pc[s] = "idle" /\ starts < budget.starts /\ starts' = starts + 1
        /\ UNCHANGED <<host, budget, session, epoch, hudson, links,
                       redeemed, redeems>>
    BY DEF Start
  <1>2. /\ site' = site /\ active' = active /\ session \in Camp
        /\ starts \in Nat /\ budget.starts \in Nat
    BY <1>1, BoundsAreNumbers DEF IInv, Ground, hudson
  <1>3. Onward
    <2>1. \A c \in Camp : site[c].n \in Nat
      BY BoundsAreNumbers DEF IInv, Ground, Side
    <2> QED BY <1>1, <1>2, <2>1 DEF IInv, Ground, Onward
  <1>4. CASE \E f \in flows : /\ f \in Found(Scope(session)) /\ f.status = "pending"
                              /\ Finish(s) /\ flows' = flows /\ Launch(f)
    <2>1. PICK f \in flows : /\ f.status = "pending" /\ Finish(s) /\ flows' = flows
                             /\ Launch(f)
      BY <1>4
    <2>2. /\ pc' = [pc EXCEPT ![s] = "idle"] /\ local' = [local EXCEPT ![s] = NoCall]
      BY <2>1 DEF Finish, Goto
    <2>3. /\ pc'[s] = "idle"
          /\ \A t \in Slot \ {s} : pc'[t] = pc[t] /\ local'[t] = local[t]
      BY <2>2 DEF IInv, Ground
    <2>4. Ground'
      BY <1>1, <1>2, <2>2, TypesStand DEF IInv, Ground
    <2>5. LaunchInv'
      BY <1>1, <1>2, <2>1, LaunchKeeps DEF IInv, FlowInv
    <2>6. FlowInv'
      <3>1. \A g \in flows : g.id \in Nat /\ g.id <= starts'
        BY <1>1, <1>2 DEF IInv, FlowInv, Flow
      <3> QED BY <1>1, <1>2, <2>1, <3>1, TypesStand DEF IInv, FlowInv
    <2>7. CallInv'
      BY <1>3, <2>3, IdleIsOK, CallsStand DEF IInv
    <2>8. IdInv'
      BY <2>1, <2>3, StandingFollows, IdsStand DEF IInv, Descend
    <2>9. LinkInv'
      BY <1>1, <1>2, <2>3, LinksStand DEF IInv
    <2> QED BY <2>4, <2>5, <2>6, <2>7, <2>8, <2>9 DEF IInv
  <1>5. CASE /\ Goto(s, "snapshot", [op |-> "start", id |-> starts',
                                     owner |-> Scope(session), camp |-> session,
                                     seen |-> {f.id : f \in Found(Scope(session))}])
             /\ UNCHANGED <<flows, launched>>
    <2> DEFINE c == [op |-> "start", id |-> starts', owner |-> Scope(session),
                     camp |-> session, seen |-> {f.id : f \in Found(Scope(session))}]
    <2>1. pc' = [pc EXCEPT ![s] = "snapshot"] /\ local' = [local EXCEPT ![s] = c]
      BY <1>5 DEF Goto
    <2>2. /\ c.id = starts + 1 /\ c.owner = Scope(session) /\ c.camp = session
      BY <1>1
    <2> HIDE DEF c
    <2>3. /\ pc'[s] = "snapshot" /\ local'[s] = c
          /\ \A t \in Slot \ {s} : pc'[t] = pc[t] /\ local'[t] = local[t]
      BY <2>1 DEF IInv, Ground
    <2>4. Ground'
      BY <1>1, <1>2, <2>1, TypesStand DEF IInv, Ground
    <2>5. FlowInv' /\ LaunchInv'
      BY <1>1, <1>3, <1>5, FlowsStand DEF IInv
    <2>6. CallOK(s)'
      <3>1. Scope(session) \in Owner /\ Scope(session).camp = session
        BY <1>2, ScopeType DEF IInv
      <3> QED BY <1>1, <1>2, <2>2, <2>3, <3>1, TypesStand DEF CallOK
    <2>7. CallInv'
      BY <1>3, <2>3, <2>6, CallsStand DEF IInv
    <2>8. IdInv'
      <3>1. \A f \in flows : f.id # starts + 1
        <4>1. \A f \in flows : f.id \in Nat /\ f.id <= starts
          BY <1>2 DEF IInv, FlowInv, Flow
        <4> QED BY <1>2, <4>1
      <3>2. ASSUME NEW t \in Slot, pc[t] \in Opening \union Holding
            PROVE  Id(pc[t], local[t]) # starts + 1
        <4>1. CASE pc[t] = "snapshot"
          BY <1>2, <4>1 DEF IInv, CallInv, CallOK, Id
        <4>2. CASE pc[t] # "snapshot"
          <5>1. local[t].flow \in Flow /\ local[t].flow.id <= starts
            BY <3>2, <4>2 DEF IInv, CallInv, CallOK
          <5>2. local[t].flow.id \in Nat
            BY <1>2, <5>1 DEF Flow
          <5> QED BY <1>2, <4>2, <5>1, <5>2 DEF Id
        <4> QED BY <4>1, <4>2
      <3>3. Id("snapshot", c) = starts + 1
        BY <2>2 DEF Id
      <3>4. \A t \in Slot : t # s => pc'[t] = pc[t] /\ local'[t] = local[t]
        BY <2>3
      <3> QED BY <1>5, <2>3, <3>1, <3>2, <3>3, <3>4 DEF IInv, IdInv
    <2>9. LinkInv'
      BY <1>1, <1>2, <2>3, LinksStand DEF IInv
    <2> QED BY <2>4, <2>5, <2>7, <2>8, <2>9 DEF IInv
  <1> QED BY <1>4, <1>5 DEF Start, Found

\* A flow of a new number is kept as its host keeps flows.
LEMMA KeepingKeepsFlows ==
  ASSUME Ground, FlowInv, NEW f \in Flow, Sound(site, f), f.id <= starts,
         \A g \in flows : g.id # f.id, flows' = Keep(f),
         UNCHANGED <<host, budget, site, starts>>
  PROVE  FlowInv' /\ flows' \subseteq flows \union {f}
  <1>1. Flow' = Flow
    BY TypesStand
  <1>2. CASE host = "memory"
    <2>1. flows' = {f}
      BY <1>2 DEF Keep
    <2> QED BY <1>1, <1>2, <2>1 DEF FlowInv
  <1>3. CASE host = "ticket"
    <2>1. flows' = flows \union {f}
      BY <1>3 DEF Keep
    <2> QED BY <1>1, <1>3, <2>1 DEF FlowInv
  <1>4. CASE host = "work"
    <2>1. CASE \E g \in flows : g.owner = f.owner
      <3>1. flows' = flows
        BY <1>4, <2>1, FoundIsAll DEF Keep
      <3> QED BY <1>1, <3>1 DEF FlowInv
    <2>2. CASE ~\E g \in flows : g.owner = f.owner
      <3>1. flows' = flows \union {f}
        BY <1>4, <2>2, FoundIsAll DEF Keep
      <3> QED BY <1>1, <1>4, <2>2, <3>1 DEF FlowInv
    <2> QED BY <2>1, <2>2
  <1> QED BY <1>2, <1>3, <1>4 DEF Ground, Hosts

\* The call that kept a flow of its number holds it, or the one it found.
LEMMA KeepingKeepsIds ==
  ASSUME IdInv, NEW s \in Slot, pc[s] \in Opening, NEW f, f.id = Id(pc[s], local[s]),
         flows' \subseteq flows \union {f}, \A g, h \in flows' : g.id = h.id => g = h,
         pc'[s] \in Holding, local'[s].flow \in flows',
         \A t \in Slot \ {s} : pc'[t] = pc[t] /\ local'[t] = local[t]
  PROVE  IdInv'
  <1>1. ASSUME NEW t \in Slot, t # s, pc[t] \in Opening, NEW g \in flows'
        PROVE  g.id # Id(pc[t], local[t])
    <2>1. f.id # Id(pc[t], local[t])
      BY <1>1 DEF IdInv
    <2> QED BY <1>1, <2>1 DEF IdInv
  <1>2. Id(pc'[s], local'[s]) = local'[s].flow.id
    BY DEF Id
  <1>3. ASSUME NEW t \in Slot, NEW u \in Slot, t # u, pc'[t] \in Opening,
               pc'[u] \in Opening \union Holding
        PROVE  Id(pc'[t], local'[t]) # Id(pc'[u], local'[u])
    <2>1. t # s /\ pc'[t] = pc[t] /\ local'[t] = local[t]
      BY <1>3
    <2>2. CASE u = s
      BY <1>1, <1>2, <1>3, <2>1, <2>2
    <2>3. CASE u # s
      BY <1>3, <2>1, <2>3 DEF IdInv
    <2> QED BY <2>2, <2>3
  <1>4. ASSUME NEW t \in Slot, pc'[t] \in Holding, NEW g \in flows'
        PROVE  Kin(g, local'[t].flow)
    <2>1. CASE t = s
      BY <2>1 DEF Kin
    <2>2. CASE t # s
      <3>1. pc'[t] = pc[t] /\ local'[t] = local[t] /\ pc[t] \in Holding
        BY <1>4, <2>2
      <3>2. CASE g \in flows
        BY <3>1, <3>2 DEF IdInv
      <3>3. CASE g = f
        <4>1. Id(pc[s], local[s]) # Id(pc[t], local[t])
          BY <2>2, <3>1 DEF IdInv
        <4>2. Id(pc[t], local[t]) = local[t].flow.id
          BY <3>1 DEF Id
        <4> QED BY <3>1, <3>3, <4>1, <4>2 DEF Kin
      <3> QED BY <3>2, <3>3
    <2> QED BY <2>1, <2>2
  <1>5. ASSUME NEW t \in Slot, pc'[t] \in Opening, NEW g \in flows'
        PROVE  g.id # Id(pc'[t], local'[t])
    <2>1. t # s /\ pc'[t] = pc[t] /\ local'[t] = local[t]
      BY <1>5
    <2> QED BY <1>1, <1>5, <2>1
  <1> QED BY <1>3, <1>4, <1>5 DEF IdInv

\* A kept flow is replaced by one of its number, owner and property.
LEMMA ReplacingKeepsFlows ==
  ASSUME Ground, FlowInv, NEW f \in flows, NEW g \in Flow, Sound(site, g),
         g.id = f.id, g.owner = f.owner, g.camp = f.camp,
         flows' = (flows \ {f}) \union {g},
         UNCHANGED <<host, budget, site, starts>>
  PROVE  FlowInv' /\ Descend
  <1>1. Flow' = Flow
    BY TypesStand
  <1>2. \A h \in flows' : h \in Flow /\ Sound(site, h) /\ h.id <= starts
    BY DEF FlowInv
  <1>3. Descend
    BY DEF Descend
  <1>4. \A h, k \in flows' : h.id = k.id => h = k
    BY DEF FlowInv
  <1>5. host = "memory" => \A h, k \in flows' : h = k
    BY DEF FlowInv
  <1>6. host = "work" => \A h, k \in flows' : h.owner = k.owner => h = k
    BY DEF FlowInv
  <1> QED BY <1>1, <1>2, <1>3, <1>4, <1>5, <1>6 DEF FlowInv

\* What a new flow is: pending, with the baseline it is given.
LEMMA NewFlowType ==
  ASSUME Ground, NEW c, c.id \in 1..starts, c.camp \in Camp, c.owner \in Owner,
         c.owner.camp = c.camp
  PROVE  LET f == NewFlow(c, site[c.camp].n) IN
         /\ f \in Flow /\ Sound(site, f)
         /\ f.id = c.id /\ f.owner = c.owner /\ f.camp = c.camp /\ f.status = "pending"
  <1> DEFINE f == NewFlow(c, site[c.camp].n)
  <1>1. site[c.camp].n \in 0..budget.changes /\ Unseen \in Side
    BY BoundsAreNumbers DEF Ground, Side, Unseen
  <1>2. c.id \in 1..budget.starts
    BY BoundsAreNumbers DEF Ground
  <1>3. f \in Flow
    BY <1>1, <1>2 DEF NewFlow, Flow
  <1>4. /\ f.id = c.id /\ f.owner = c.owner /\ f.camp = c.camp /\ f.status = "pending"
        /\ f.baseline = site[c.camp].n
    BY DEF NewFlow
  <1>5. Sound(site, f)
    BY <1>1, <1>4 DEF Sound
  <1> QED BY <1>3, <1>4, <1>5

\* The baseline is taken.
LEMMA SnapshotKeeps ==
  ASSUME IInv, NEW s \in Slot, Snapshot(s)
  PROVE  IInv'
  <1> DEFINE c == local[s]
  <1>1. PICK f : f = NewFlow(c, site[c.camp].n)
    OBVIOUS
  <1>2. /\ pc[s] = "snapshot" /\ links' = links /\ redeemed' = redeemed
        /\ UNCHANGED <<flows, launched>>
        /\ UNCHANGED <<host, budget, session, epoch, hudson, starts, redeems>>
        /\ Goto(s, "create", [op |-> "start", flow |-> f, seen |-> c.seen])
    BY <1>1 DEF Snapshot, kept
  <1>3. /\ c.camp \in Camp /\ c.owner \in Owner /\ c.owner.camp = c.camp
        /\ c.id \in 1..starts
    BY <1>2 DEF IInv, CallInv, CallOK
  <1>4. /\ f \in Flow /\ Sound(site, f) /\ f.status = "pending" /\ f.id <= starts
        /\ f.id = c.id /\ f.id = Id(pc[s], c)
    BY <1>1, <1>2, <1>3, NewFlowType DEF IInv, Id
  <1>5. /\ Ground' /\ Onward /\ active' = active /\ site' = site
        /\ pc'[s] = "create" /\ local'[s].flow = f
        /\ \A t \in Slot \ {s} : pc'[t] = pc[t] /\ local'[t] = local[t]
    BY <1>2, GotoStep DEF IInv, Ground
  <1>6. FlowInv' /\ LaunchInv'
    BY <1>2, <1>5, FlowsStand DEF IInv
  <1>7. CallOK(s)'
    BY <1>2, <1>4, <1>5, TypesStand DEF CallOK
  <1>8. CallInv'
    BY <1>5, <1>7, CallsStand DEF IInv
  <1>9. Follows(pc[s], local[s], pc'[s], local'[s])
    BY <1>2, <1>4, <1>5 DEF Follows, Id
  <1>10. IdInv'
    <2>1. \A t \in Slot : Follows(pc[t], local[t], pc'[t], local'[t])
      BY <1>5, <1>9, StandingFollows
    <2> QED BY <1>2, <2>1, IdsStand DEF IInv, Descend
  <1>11. LinkInv'
    BY <1>2, <1>5, LinksStand DEF IInv
  <1> QED BY <1>5, <1>6, <1>8, <1>10, <1>11 DEF IInv

\* What of a flow is decided when it is kept: in memory that it is not stale
\* means that whatever it replaces was found when its start began.
LEMMA OpenedType ==
  ASSUME Ground, NEW h \in Flow, Sound(site, h), NEW seen,
         NEW f, f = Opened(h, seen)
  PROVE  /\ f \in Flow /\ Sound(site, f)
         /\ f.id = h.id /\ f.camp = h.camp /\ f.baseline = h.baseline
         /\ f.status = h.status
         /\ host # "ticket" => f.owner = h.owner
         /\ host = "work" => f = h
         /\ host = "memory" /\ ~f.stale =>
              \A g \in flows : g.owner = f.owner => g.id \in seen
  <1>1. h.camp \in Camp
    BY DEF Flow
  <1>2. CASE host = "memory"
    <2> DEFINE late == \E g \in flows : g.owner = h.owner /\ g.id \notin seen
    <2>1. f = [h EXCEPT !.stale = late]
      BY <1>2 DEF Opened
    <2>2. PICK b \in BOOLEAN : f = [h EXCEPT !.stale = b] /\ (b = TRUE <=> late)
      <3>1. CASE late
        <4>1. f = [h EXCEPT !.stale = TRUE]
          BY <2>1, <3>1, Zenon
        <4> QED BY <3>1, <4>1
      <3>2. CASE ~late
        <4>1. f = [h EXCEPT !.stale = FALSE]
          BY <2>1, <3>2, Zenon
        <4> QED BY <3>2, <4>1
      <3> QED BY <3>1, <3>2
    <2> HIDE DEF late
    <2>3. /\ f \in Flow /\ f.id = h.id /\ f.camp = h.camp /\ f.baseline = h.baseline
          /\ f.status = h.status /\ f.owner = h.owner /\ f.earned = h.earned
          /\ f.stale = b
      BY <2>2 DEF Flow
    <2>4. Sound(site, f)
      BY <2>3 DEF Sound
    <2>5. ~f.stale => \A g \in flows : g.owner = f.owner => g.id \in seen
      BY <2>2, <2>3 DEF late
    <2> QED BY <1>2, <2>3, <2>4, <2>5
  <1>3. CASE host = "ticket"
    <2>1. PICK o \in Owner : o = Scope(h.camp) /\ o.camp = h.camp
      BY <1>1, ScopeType
    <2>2. f = [h EXCEPT !.owner = o]
      BY <1>3, <2>1 DEF Opened
    <2>3. /\ f \in Flow /\ f.id = h.id /\ f.camp = h.camp /\ f.baseline = h.baseline
          /\ f.status = h.status /\ f.owner = o /\ f.earned = h.earned
      BY <2>2 DEF Flow
    <2>4. Sound(site, f)
      BY <2>1, <2>3 DEF Sound
    <2> QED BY <1>3, <2>3, <2>4
  <1>4. CASE host = "work"
    BY <1>4 DEF Opened
  <1> QED BY <1>2, <1>3, <1>4 DEF Ground, Hosts

\* The call that is to keep f goes on with g.
GoesOn(s, f, g, p) ==
  /\ Goto(s, p, [op |-> "start", flow |-> g, next |-> f.baseline])
  /\ p = "reset" <=> g.status = "succeeded"
  /\ g.id = f.id \/ (host = "work" /\ g.owner = f.owner)

\* What Create keeps, and what its call goes on with: a flow that succeeded is a
\* row that was there.
LEMMA CreateFinds ==
  ASSUME IInv, NEW s \in Slot, Create(s), NEW f, f = Opened(local[s].flow, local[s].seen)
  PROVE  /\ pc[s] = "create" /\ flows' = Keep(f) /\ launched' = Settled(flows')
         /\ UNCHANGED <<host, budget, session, epoch, hudson, links, redeemed, starts,
                        redeems>>
         /\ \A h \in flows : h.id # f.id
         /\ f.id = Id(pc[s], local[s])
         /\ \E g \in flows', p \in {"reset", "link", "launch"} : GoesOn(s, f, g, p)
  <1>1. PICK q : q = IF host = "work" THEN "link" ELSE "launch"
    OBVIOUS
  <1>2. /\ pc[s] = "create" /\ flows' = Keep(f) /\ launched' = Settled(flows')
        /\ \E g \in {h \in flows' : h.id = f.id \/ (host = "work" /\ h.owner = f.owner)} :
             Goto(s, IF g.status = "succeeded" THEN "reset" ELSE q,
                  [op |-> "start", flow |-> g, next |-> f.baseline])
        /\ UNCHANGED <<host, budget, session, epoch, hudson, links, redeemed, starts,
                       redeems>>
    BY <1>1 DEF Create
  <1>3. f.id = Id(pc[s], local[s])
    BY <1>2, OpenedType DEF IInv, CallInv, CallOK, Id
  <1>4. \A h \in flows : h.id # f.id
    BY <1>2, <1>3 DEF IInv, IdInv
  <1>5. PICK g \in flows' :
          /\ g.id = f.id \/ (host = "work" /\ g.owner = f.owner)
          /\ Goto(s, IF g.status = "succeeded" THEN "reset" ELSE q,
                  [op |-> "start", flow |-> g, next |-> f.baseline])
    BY <1>2
  <1>6. CASE g.status = "succeeded"
    <2>1. GoesOn(s, f, g, "reset")
      BY <1>5, <1>6 DEF GoesOn
    <2> QED BY <1>2, <1>3, <1>4, <2>1
  <1>7. CASE g.status # "succeeded"
    <2>1. GoesOn(s, f, g, q) /\ q \in {"reset", "link", "launch"}
      BY <1>1, <1>5, <1>7 DEF GoesOn
    <2> QED BY <1>2, <1>3, <1>4, <2>1
  <1> QED BY <1>6, <1>7

\* The flow is kept, or the row its owner has is found instead.
LEMMA CreateKeeps ==
  ASSUME IInv, SeenInv, NEW s \in Slot, Create(s)
  PROVE  IInv'
  <1>1. PICK h, f : h = local[s].flow /\ f = Opened(h, local[s].seen)
    OBVIOUS
  <1>2. /\ pc[s] = "create" /\ flows' = Keep(f) /\ launched' = Settled(flows')
        /\ UNCHANGED <<host, budget, session, epoch, hudson, links, redeemed, starts,
                       redeems>>
        /\ f.id = Id(pc[s], local[s]) /\ \A g \in flows : g.id # f.id
    BY <1>1, CreateFinds
  <1>3. /\ h \in Flow /\ Sound(site, h) /\ h.id <= starts /\ h.status = "pending"
    BY <1>1, <1>2 DEF IInv, CallInv, CallOK
  <1>4. /\ f \in Flow /\ Sound(site, f) /\ f.id <= starts /\ f.status = "pending"
        /\ host = "memory" /\ ~f.stale =>
             \A g \in flows : g.owner = f.owner => g.id \in local[s].seen
    BY <1>1, <1>3, OpenedType DEF IInv
  <1>5. PICK g \in flows', p \in {"reset", "link", "launch"} :
          /\ Goto(s, p, [op |-> "start", flow |-> g, next |-> f.baseline])
          /\ p = "reset" <=> g.status = "succeeded"
          /\ g.id = f.id \/ (host = "work" /\ g.owner = f.owner)
    <2>1. PICK g \in flows', p \in {"reset", "link", "launch"} : GoesOn(s, f, g, p)
      BY <1>1, CreateFinds
    <2> QED BY <2>1 DEF GoesOn
  <1>6. /\ Ground' /\ Onward /\ active' = active /\ site' = site
        /\ pc'[s] = p /\ local'[s] = [op |-> "start", flow |-> g, next |-> f.baseline]
        /\ \A t \in Slot \ {s} : pc'[t] = pc[t] /\ local'[t] = local[t]
    BY <1>2, <1>5, GotoStep DEF IInv, Ground
  <1>7. /\ local'[s].flow = g /\ local'[s].next = f.baseline
    BY <1>6
  <1>8. FlowInv' /\ flows' \subseteq flows \union {f}
    BY <1>2, <1>4, <1>6, KeepingKeepsFlows DEF IInv
  <1>9. /\ g \in Flow /\ Sound(site, g) /\ g.id <= starts
        /\ \A k, l \in flows' : k.id = l.id => k = l
    BY <1>2, <1>6, <1>8, TypesStand DEF FlowInv
  <1>10. CallOK(s)'
    <2>1. g.status \in {"pending", "succeeded"}
      BY <1>9 DEF Flow
    <2>2. p \in {"link", "launch"} => g.status = "pending"
      BY <1>5, <2>1
    <2>3. f.camp = g.camp
      <3>1. CASE g.id = f.id
        BY <1>2, <1>8, <3>1
      <3>2. CASE g.owner = f.owner
        BY <1>4, <1>9, <3>2 DEF Sound
      <3> QED BY <1>5, <3>1, <3>2
    <2>4. f.baseline \in 0..budget.changes /\ f.baseline <= site[g.camp].n
      BY <1>4, <2>3 DEF Flow, Sound
    <2>5. p = "reset" => host = "work"
      BY <1>2, <1>4, <1>5, <1>8
    <2> QED BY <1>2, <1>5, <1>6, <1>7, <1>9, <2>2, <2>4, <2>5, TypesStand DEF CallOK
  <1>11. CallInv'
    BY <1>6, <1>10, CallsStand DEF IInv
  <1>12. IdInv'
    BY <1>2, <1>6, <1>7, <1>8, <1>9, KeepingKeepsIds DEF IInv
  <1>13. LinkInv'
    BY <1>2, <1>6, LinksStand DEF IInv
  <1>14. LaunchInv'
    <2>1. \A l \in launched' :
            l \in launched /\ \E k \in flows' : k.owner = l.owner /\ k.status = "pending"
      BY <1>2 DEF Settled
    <2>2. \A l \in launched' : l.owner \in Owner' /\ l.n \in 0..budget.changes
      BY <1>2, <2>1, TypesStand DEF IInv, LaunchInv
    <2>3. ASSUME host # "ticket", NEW k \in flows', NEW l \in launched',
                 k.status = "pending", ~k.stale, k.owner = l.owner
          PROVE  k \in flows
      <3>1. PICK j \in flows : j.owner = l.owner /\ j.status = "pending"
        BY <2>1, <2>3 DEF IInv, LaunchInv
      <3>2. CASE host = "memory" /\ k = f
        BY <1>2, <1>4, <2>3, <3>1, <3>2 DEF SeenInv
      <3>3. CASE host = "work" /\ k = f
        <4>1. Found(f.owner) = {i \in flows : i.owner = f.owner}
          BY <3>3, FoundIsAll DEF IInv
        <4> QED BY <1>2, <2>3, <3>1, <3>3, <4>1 DEF Keep
      <3> QED BY <1>8, <2>3, <3>2, <3>3 DEF IInv, Ground, Hosts
    <2> QED BY <1>2, <2>1, <2>2, <2>3 DEF IInv, LaunchInv, BaselineBeforeLaunch
  <1> QED BY <1>6, <1>8, <1>11, <1>12, <1>13, <1>14 DEF IInv

\* A flow that succeeded starts again.
LEMMA ResetKeeps ==
  ASSUME IInv, NEW s \in Slot, Reset(s)
  PROVE  IInv'
  <1> DEFINE f == local[s].flow
  <1>1. PICK g : g = [f EXCEPT !.status = "pending", !.baseline = local[s].next,
                               !.version = @ + 1]
    OBVIOUS
  <1>2. /\ pc[s] = "reset" /\ flows' = Replace(f, g)
        /\ IF f \in flows THEN Goto(s, "link", [op |-> "start", flow |-> g])
                          ELSE Finish(s)
        /\ UNCHANGED <<host, budget, session, epoch, hudson, launched,
                       links, redeemed, starts, redeems>>
    BY <1>1 DEF Reset
  <1>3. /\ f \in Flow /\ Sound(site, f) /\ f.id <= starts
        /\ f.status = "succeeded" /\ local[s].next \in 0..budget.changes
        /\ local[s].next <= site[f.camp].n
    BY <1>2 DEF IInv, CallInv, CallOK
  <1>4. /\ g \in Flow /\ g.id = f.id /\ g.owner = f.owner /\ g.camp = f.camp
        /\ g.status = "pending" /\ g.baseline = local[s].next
    <2>1. f.version + 1 \in Nat
      BY <1>3 DEF Flow
    <2>2. PICK h, n, v : h = f /\ n = local[s].next /\ v = f.version + 1
      OBVIOUS
    <2>3. g = [h EXCEPT !.status = "pending", !.baseline = n, !.version = v]
      BY <1>1, <2>2
    <2> HIDE DEF f
    <2>4. g \in Flow
      BY <1>3, <2>1, <2>2, <2>3 DEF Flow
    <2>5. /\ g.id = h.id /\ g.owner = h.owner /\ g.camp = h.camp
          /\ g.status = "pending" /\ g.baseline = n
      BY <1>3, <2>2, <2>3 DEF Flow
    <2> QED BY <2>2, <2>4, <2>5
  <1>5. Sound(site, g)
    BY <1>3, <1>4 DEF Sound
  <1>6. CASE f \notin flows
    <2>1. Finish(s) /\ UNCHANGED kept
      BY <1>2, <1>6 DEF Replace, kept
    <2> QED BY <1>2, <2>1, EndKeeps
  <1>7. CASE f \in flows
    <2>1. /\ flows' = (flows \ {f}) \union {g}
          /\ Goto(s, "link", [op |-> "start", flow |-> g])
      BY <1>2, <1>7 DEF Replace
    <2>2. /\ Ground' /\ Onward /\ active' = active /\ site' = site
          /\ pc'[s] = "link" /\ local'[s].flow = g
          /\ \A t \in Slot \ {s} : pc'[t] = pc[t] /\ local'[t] = local[t]
      BY <1>2, <2>1, GotoStep DEF IInv, Ground
    <2>3. FlowInv' /\ Descend
      BY <1>2, <1>4, <1>5, <1>7, <2>1, <2>2, ReplacingKeepsFlows DEF IInv
    <2>4. CallOK(s)'
      BY <1>2, <1>3, <1>4, <1>5, <2>2, TypesStand DEF CallOK
    <2>5. CallInv'
      BY <2>2, <2>4, CallsStand DEF IInv
    <2>6. IdInv'
      <3>1. Follows(pc[s], local[s], pc'[s], local'[s])
        BY <1>2, <1>4, <2>2 DEF Follows
      <3>2. \A t \in Slot : Follows(pc[t], local[t], pc'[t], local'[t])
        BY <2>2, <3>1, StandingFollows
      <3> QED BY <2>3, <3>2, IdsStand DEF IInv
    <2>7. LinkInv'
      BY <1>2, <2>2, LinksStand DEF IInv
    <2>8. LaunchInv'
      <3>1. ASSUME host # "ticket", NEW l \in launched
            PROVE  /\ l.owner # f.owner
                   /\ \E h \in flows \ {f} : h.owner = l.owner /\ h.status = "pending"
        <4>1. PICK h \in flows : h.owner = l.owner /\ h.status = "pending"
          BY <3>1 DEF IInv, LaunchInv
        <4>2. h # f
          BY <1>3, <4>1
        <4>3. l.owner # f.owner
          BY <1>7, <3>1, <4>1, <4>2 DEF IInv, FlowInv, Ground, Hosts
        <4> QED BY <4>1, <4>2, <4>3
      <3>2. ASSUME host # "ticket", NEW h \in flows', NEW l \in launched,
                   h.status = "pending", ~h.stale, h.owner = l.owner
            PROVE  h.baseline <= l.n
        <4>1. h \in flows
          BY <1>4, <2>1, <3>1, <3>2
        <4> QED BY <3>2, <4>1 DEF IInv, LaunchInv, BaselineBeforeLaunch
      <3>3. \A l \in launched : l.owner \in Owner' /\ l.n \in 0..budget.changes
        BY <1>2, TypesStand DEF IInv, LaunchInv
      <3> QED BY <1>2, <2>1, <3>1, <3>2, <3>3 DEF LaunchInv, BaselineBeforeLaunch
    <2> QED BY <2>2, <2>3, <2>5, <2>6, <2>7, <2>8 DEF IInv
  <1> QED BY <1>6, <1>7

\* The link for the browser is made.
LEMMA MakeLinkKeeps ==
  ASSUME IInv, NEW s \in Slot, MakeLink(s)
  PROVE  IInv'
  <1>1. PICK k : k = [camp |-> local[s].flow.camp, status |-> "pending"]
    OBVIOUS
  <1>2. PICK c : c = local[s]
    OBVIOUS
  <1>3. /\ pc[s] = "link" /\ links' = Append(links, k) /\ Goto(s, "launch", c)
        /\ redeemed' = redeemed /\ UNCHANGED <<flows, launched>>
        /\ UNCHANGED <<host, budget, session, epoch, hudson, starts, redeems>>
    BY <1>1, <1>2 DEF MakeLink, kept
  <1>4. /\ Ground' /\ Onward /\ active' = active /\ site' = site
        /\ pc'[s] = "launch" /\ local'[s] = local[s]
        /\ \A t \in Slot \ {s} : pc'[t] = pc[t] /\ local'[t] = local[t]
    BY <1>2, <1>3, GotoStep DEF IInv, Ground
  <1>5. FlowInv' /\ LaunchInv'
    BY <1>3, <1>4, FlowsStand DEF IInv
  <1>6. CallOK(s)'
    BY <1>3, <1>4, TypesStand DEF IInv, CallInv, CallOK
  <1>7. CallInv'
    BY <1>4, <1>6, CallsStand DEF IInv
  <1>8. IdInv'
    <2>1. Follows(pc[s], local[s], pc'[s], local'[s])
      BY <1>3, <1>4 DEF Follows
    <2>2. \A t \in Slot : Follows(pc[t], local[t], pc'[t], local'[t])
      BY <1>4, <2>1, StandingFollows
    <2> QED BY <1>3, <2>2, IdsStand DEF IInv, Descend
  <1>9. LinkInv'
    <2>1. k \in Link
      BY <1>1, <1>3 DEF IInv, CallInv, CallOK, Flow, Link
    <2>2. /\ links' \in Seq(Link) /\ DOMAIN links \subseteq DOMAIN links'
          /\ \A i \in DOMAIN links : links'[i] = links[i]
      BY <1>3, <2>1 DEF IInv, LinkInv
    <2>3. ASSUME NEW t \in Slot  PROVE SpendOK(t)'
      <3>1. CASE t = s
        BY <1>4, <3>1 DEF SpendOK
      <3>2. CASE t # s
        BY <1>4, <2>2, <3>2 DEF IInv, LinkInv, SpendOK
      <3> QED BY <3>1, <3>2
    <2> QED BY <1>3, <2>2, <2>3 DEF IInv, LinkInv, Link
  <1> QED BY <1>4, <1>5, <1>7, <1>8, <1>9 DEF IInv

\* The answer reaches the user.
LEMMA AnswerKeeps ==
  ASSUME IInv, NEW s \in Slot, Answer(s)
  PROVE  IInv'
  <1>1. PICK f : f = local[s].flow
    OBVIOUS
  <1>2. /\ pc[s] = "launch" /\ Goto(s, "idle", NoCall) /\ flows' = flows /\ Launch(f)
        /\ links' = links /\ redeemed' = redeemed
        /\ UNCHANGED <<host, budget, session, epoch, hudson, starts, redeems>>
    BY <1>1 DEF Answer, Finish
  <1>3. /\ Ground' /\ Onward /\ active' = active /\ site' = site /\ pc'[s] = "idle"
        /\ \A t \in Slot \ {s} : pc'[t] = pc[t] /\ local'[t] = local[t]
    BY <1>2, GotoStep DEF IInv, Ground
  <1>4. f \in Flow /\ Sound(site, f) /\ f.status = "pending"
    BY <1>1, <1>2 DEF IInv, CallInv, CallOK
  <1>5. LaunchInv'
    BY <1>2, <1>3, <1>4, LaunchKeeps DEF IInv
  <1>6. FlowInv'
    BY <1>2, <1>3, TypesStand DEF IInv, FlowInv
  <1>7. CallInv'
    BY <1>3, IdleIsOK, CallsStand DEF IInv
  <1>8. IdInv'
    BY <1>2, <1>3, StandingFollows, IdsStand DEF IInv, Descend
  <1>9. LinkInv'
    BY <1>2, <1>3, LinksStand DEF IInv
  <1> QED BY <1>3, <1>5, <1>6, <1>7, <1>8, <1>9 DEF IInv

-----------------------------------------------------------------------------
(***************************************************************************)
(* The user is done.                                                       *)
(***************************************************************************)

\* The session's pending flow is taken up.
LEMMA CompleteKeeps ==
  ASSUME IInv, NEW s \in Slot, Complete(s)
  PROVE  IInv'
  <1>1. PICK f \in flows :
          /\ f.owner = Scope(session) /\ f.status = "pending"
          /\ Goto(s, "compare", [op |-> "complete", flow |-> f, camp |-> session])
    BY DEF Complete
  <1>2. /\ pc[s] = "idle" /\ links' = links /\ redeemed' = redeemed
        /\ UNCHANGED <<flows, launched>>
        /\ UNCHANGED <<host, budget, session, epoch, hudson, starts, redeems>>
    BY DEF Complete, kept
  <1>3. /\ Ground' /\ Onward /\ active' = active /\ site' = site
        /\ pc'[s] = "compare" /\ local'[s].flow = f /\ local'[s].camp = session
        /\ \A t \in Slot \ {s} : pc'[t] = pc[t] /\ local'[t] = local[t]
    BY <1>1, <1>2, GotoStep DEF IInv, Ground
  <1>4. FlowInv' /\ LaunchInv'
    BY <1>2, <1>3, FlowsStand DEF IInv
  <1>5. CallOK(s)'
    <2>1. f \in Flow /\ Sound(site, f) /\ f.id <= starts
      BY DEF IInv, FlowInv
    <2>2. f.camp = session
      BY <1>1, <2>1, ScopeType DEF IInv, Ground, Sound
    <2> QED BY <1>1, <1>2, <1>3, <2>1, <2>2, TypesStand DEF CallOK
  <1>6. CallInv'
    BY <1>3, <1>5, CallsStand DEF IInv
  <1>7. IdInv'
    <2>1. \A t \in Slot \ {s} : pc[t] \in Opening => Id(pc[t], local[t]) # f.id
      BY DEF IInv, IdInv
    <2>2. Id(pc'[s], local'[s]) = f.id
      BY <1>3 DEF Id
    <2>3. \A g \in flows : Kin(g, f)
      BY DEF IInv, FlowInv, Kin
    <2>4. ASSUME NEW t \in Slot, pc'[t] \in Opening, NEW g \in flows'
          PROVE  g.id # Id(pc'[t], local'[t])
      <3>1. t # s /\ pc'[t] = pc[t] /\ local'[t] = local[t]
        BY <1>3, <2>4
      <3> QED BY <1>2, <2>4, <3>1 DEF IInv, IdInv
    <2>5. ASSUME NEW t \in Slot, NEW u \in Slot, t # u, pc'[t] \in Opening,
                 pc'[u] \in Opening \union Holding
          PROVE  Id(pc'[t], local'[t]) # Id(pc'[u], local'[u])
      <3>1. t # s /\ pc'[t] = pc[t] /\ local'[t] = local[t]
        BY <1>3, <2>5
      <3>2. CASE u = s
        BY <2>1, <2>2, <2>5, <3>1, <3>2
      <3>3. CASE u # s
        BY <1>3, <2>5, <3>1, <3>3 DEF IInv, IdInv
      <3> QED BY <3>2, <3>3
    <2>6. ASSUME NEW t \in Slot, pc'[t] \in Holding, NEW g \in flows'
          PROVE  Kin(g, local'[t].flow)
      <3>1. CASE t = s
        BY <1>2, <1>3, <2>3, <3>1
      <3>2. CASE t # s
        BY <1>2, <1>3, <2>6, <3>2 DEF IInv, IdInv
      <3> QED BY <3>1, <3>2
    <2> QED BY <2>4, <2>5, <2>6 DEF IdInv
  <1>8. LinkInv'
    BY <1>2, <1>3, LinksStand DEF IInv
  <1> QED BY <1>3, <1>4, <1>6, <1>7, <1>8 DEF IInv

\* A flow that is found done is of its own property, changed and ready.
LEMMA SuccessIsSound ==
  ASSUME Ground, NEW f \in Flow, Sound(site, f), Done(f, f.camp),
         NEW g, g = Success(f, f.camp)
  PROVE  /\ g \in Flow /\ Sound(site, g) /\ g.status = "succeeded"
         /\ g.id = f.id /\ g.owner = f.owner /\ g.camp = f.camp
  <1>1. /\ f.camp \in Camp /\ f.baseline \in Nat /\ site[f.camp] \in Side
        /\ site[f.camp].n \in Nat
    BY DEF Ground, Flow, Side
  <1>2. f.version + 1 \in Nat
    BY DEF Flow
  <1>3. PICK v, e : v = f.version + 1 /\ e = [camp |-> f.camp, side |-> site[f.camp]]
    OBVIOUS
  <1>4. e \in [camp : Camp, side : Side]
    BY <1>1, <1>3
  <1>5. g = [f EXCEPT !.status = "succeeded", !.version = v, !.earned = e]
    BY <1>3 DEF Success
  <1>6. g \in Flow
    BY <1>2, <1>3, <1>4, <1>5 DEF Flow
  <1>7. /\ g.status = "succeeded" /\ g.earned = e /\ g.baseline = f.baseline
        /\ g.id = f.id /\ g.owner = f.owner /\ g.camp = f.camp
    BY <1>5 DEF Flow
  <1>8. site[f.camp].n > f.baseline /\ site[f.camp].ready
    BY <1>1 DEF Done, Sound
  <1>9. e.camp = f.camp /\ e.side = site[f.camp]
    BY <1>3
  <1>10. Sound(site, g)
    BY <1>7, <1>8, <1>9 DEF Sound
  <1> QED BY <1>6, <1>7, <1>10

\* What is found is compared with the baseline.
LEMMA CompareKeeps ==
  ASSUME IInv, NEW s \in Slot, Compare(s)
  PROVE  IInv'
  <1>1. PICK f, g : f = local[s].flow /\ g = Success(f, f.camp)
    OBVIOUS
  <1>2. /\ pc[s] = "compare" /\ links' = links /\ redeemed' = redeemed
        /\ UNCHANGED <<flows, launched>> /\ UNCHANGED kept
        /\ UNCHANGED <<host, budget, session, epoch, hudson, starts, redeems>>
    BY DEF Compare, kept
  <1>3. /\ f \in Flow /\ Sound(site, f) /\ f.id <= starts /\ local[s].camp = f.camp
    BY <1>1, <1>2 DEF IInv, CallInv, CallOK
  <1>4. CASE Finish(s)
    BY <1>2, <1>4, EndKeeps
  <1>5. CASE Done(f, f.camp) /\ Goto(s, "mark", [local[s] EXCEPT !.flow = g])
    <2>1. /\ g \in Flow /\ Sound(site, g) /\ g.status = "succeeded"
          /\ g.id = f.id /\ g.owner = f.owner /\ g.camp = f.camp
      BY <1>1, <1>3, <1>5, SuccessIsSound DEF IInv
    <2>2. PICK d : d = [local[s] EXCEPT !.flow = g]
      OBVIOUS
    <2>3. /\ Ground' /\ Onward /\ active' = active /\ site' = site
          /\ pc'[s] = "mark" /\ local'[s] = d
          /\ \A t \in Slot \ {s} : pc'[t] = pc[t] /\ local'[t] = local[t]
      BY <1>2, <1>5, <2>2, GotoStep DEF IInv, Ground
    <2>4. d.flow = g /\ d.camp = f.camp
      BY <1>2, <1>3, <2>2 DEF IInv, CallInv, CallOK
    <2>5. FlowInv' /\ LaunchInv'
      BY <1>2, <2>3, FlowsStand DEF IInv
    <2>6. CallOK(s)'
      BY <1>2, <1>3, <2>1, <2>3, <2>4, TypesStand DEF CallOK
    <2>7. CallInv'
      BY <2>3, <2>6, CallsStand DEF IInv
    <2>8. IdInv'
      <3>1. Follows(pc[s], local[s], pc'[s], local'[s])
        BY <1>1, <1>2, <2>1, <2>3, <2>4 DEF Follows
      <3>2. \A t \in Slot : Follows(pc[t], local[t], pc'[t], local'[t])
        BY <2>3, <3>1, StandingFollows
      <3> QED BY <1>2, <3>2, IdsStand DEF IInv, Descend
    <2>9. LinkInv'
      BY <1>2, <2>3, LinksStand DEF IInv
    <2> QED BY <2>3, <2>5, <2>7, <2>8, <2>9 DEF IInv
  <1> QED BY <1>1, <1>3, <1>4, <1>5 DEF Compare

\* The flow is marked, if it is still what was judged.
LEMMA MarkKeeps ==
  ASSUME IInv, NEW s \in Slot, Mark(s)
  PROVE  IInv'
  <1>1. PICK g : g = local[s].flow
    OBVIOUS
  <1> DEFINE judged(f) == /\ f.id = g.id
                          /\ IF host = "work" THEN f.version + 1 = g.version
                                              ELSE f.status = "pending"
  <1>2. /\ pc[s] = "mark" /\ links' = links /\ redeemed' = redeemed
        /\ flows' = {IF judged(f) THEN g ELSE f : f \in flows}
        /\ launched' = Settled(flows') /\ Goto(s, "idle", NoCall)
        /\ UNCHANGED <<host, budget, session, epoch, hudson, starts, redeems>>
    BY <1>1 DEF Mark, Finish
  <1>3. /\ g \in Flow /\ Sound(site, g) /\ g.status = "succeeded"
        /\ \A f \in flows : Kin(f, g)
    BY <1>1, <1>2 DEF IInv, CallInv, CallOK, IdInv
  <1>4. /\ Ground' /\ Onward /\ active' = active /\ site' = site /\ pc'[s] = "idle"
        /\ \A t \in Slot \ {s} : pc'[t] = pc[t] /\ local'[t] = local[t]
    BY <1>2, GotoStep DEF IInv, Ground
  <1>5. FlowInv' /\ Descend
    <2>1. CASE \E f \in flows : judged(f)
      <3>1. PICK f \in flows : judged(f)
        BY <2>1
      <3>2. \A h \in flows : judged(h) <=> h = f
        BY <3>1 DEF IInv, FlowInv
      <3>3. flows' = (flows \ {f}) \union {g}
        BY <1>2, <3>2
      <3>4. g.id = f.id /\ g.owner = f.owner /\ g.camp = f.camp
        BY <1>3, <3>1 DEF Kin
      <3> HIDE DEF judged
      <3> QED BY <1>2, <1>3, <1>4, <3>3, <3>4, ReplacingKeepsFlows DEF IInv
    <2>2. CASE ~\E f \in flows : judged(f)
      <3>1. flows' = flows
        BY <1>2, <2>2
      <3> QED BY <1>2, <1>4, <3>1, TypesStand DEF IInv, FlowInv, Descend
    <2> QED BY <2>1, <2>2
  <1>6. LaunchInv'
    <2>1. \A h \in flows' : h.status = "pending" => h \in flows
      BY <1>2, <1>3
    <2> QED BY <1>2, <2>1, SettlingKeeps DEF IInv
  <1>7. CallInv'
    BY <1>4, IdleIsOK, CallsStand DEF IInv
  <1>8. IdInv'
    BY <1>4, <1>5, StandingFollows, IdsStand DEF IInv
  <1>9. LinkInv'
    BY <1>2, <1>4, LinksStand DEF IInv
  <1> QED BY <1>4, <1>5, <1>6, <1>7, <1>8, <1>9 DEF IInv

-----------------------------------------------------------------------------
(***************************************************************************)
(* The site redeems a link.                                                *)
(***************************************************************************)

\* A redeem request goes on: nothing but its place changes.
LEMMA SpendingGoesOn ==
  ASSUME IInv, NEW s \in Slot, NEW p \in Spending, NEW c, Goto(s, p, c),
         c.link \in DOMAIN links, active \subseteq c.before,
         p \in {"source", "consume"} => links[c.link].camp \in c.before,
         p = "consume" => Home \in c.before,
         redeems' \in 0..budget.redeems,
         UNCHANGED <<host, budget, session, epoch, hudson, kept, links, redeemed, starts>>
  PROVE  IInv'
  <1>1. /\ site' = site /\ active' = active
        /\ UNCHANGED <<flows, launched>>
    BY DEF hudson, kept
  <1>2. pc' = [pc EXCEPT ![s] = p] /\ local' = [local EXCEPT ![s] = c]
    BY DEF Goto
  <1>3. /\ pc'[s] = p /\ local'[s] = c
        /\ \A t \in Slot \ {s} : pc'[t] = pc[t] /\ local'[t] = local[t]
    BY <1>2 DEF IInv, Ground
  <1>4. Ground'
    BY <1>1, <1>2, TypesStand DEF IInv, Ground
  <1>5. Onward
    <2>1. starts \in Nat /\ \A d \in Camp : site[d].n \in Nat
      BY BoundsAreNumbers DEF IInv, Ground, Side
    <2> QED BY <1>1, <2>1 DEF IInv, Ground, Onward
  <1>6. FlowInv' /\ LaunchInv'
    BY <1>1, <1>5, FlowsStand DEF IInv
  <1>7. CallInv'
    <2>1. CallOK(s)'
      BY <1>3 DEF CallOK
    <2> QED BY <1>3, <1>5, <2>1, CallsStand DEF IInv
  <1>8. IdInv'
    <2>1. Follows(pc[s], local[s], pc'[s], local'[s])
      BY <1>3 DEF Follows
    <2>2. \A t \in Slot : Follows(pc[t], local[t], pc'[t], local'[t])
      BY <1>3, <2>1, StandingFollows
    <2> QED BY <1>1, <2>2, IdsStand DEF IInv, Descend
  <1>9. LinkInv'
    <2>1. ASSUME NEW t \in Slot  PROVE SpendOK(t)'
      <3>1. CASE t = s
        BY <1>1, <1>3, <3>1 DEF SpendOK
      <3>2. CASE t # s
        BY <1>1, <1>3, <3>2 DEF IInv, LinkInv, SpendOK
      <3> QED BY <3>1, <3>2
    <2> QED BY <2>1 DEF IInv, LinkInv, Link
  <1> QED BY <1>4, <1>6, <1>7, <1>8, <1>9 DEF IInv

\* The link is looked up.
LEMMA RedeemKeeps ==
  ASSUME IInv, NEW s \in Slot, Redeem(s)
  PROVE  IInv'
  <1>1. PICK i \in DOMAIN links :
          Goto(s, "grant", [op |-> "redeem", link |-> i, before |-> active])
    BY DEF Redeem
  <1>2. PICK c : c = [op |-> "redeem", link |-> i, before |-> active]
    OBVIOUS
  <1>3. /\ Goto(s, "grant", c) /\ c.link = i /\ c.before = active
    BY <1>1, <1>2
  <1>4. redeems' \in 0..budget.redeems
    BY BoundsAreNumbers DEF IInv, Ground, Redeem
  <1>5. UNCHANGED <<host, budget, session, epoch, hudson, kept, links, redeemed, starts>>
    BY DEF Redeem
  <1> QED BY <1>3, <1>4, <1>5, SpendingGoesOn

\* The grant of the link's property is in force, or the request is refused.
LEMMA ReadGrantKeeps ==
  ASSUME IInv, NEW s \in Slot, ReadGrant(s)
  PROVE  IInv'
  <1>1. /\ pc[s] = "grant"
        /\ UNCHANGED <<host, budget, session, epoch, hudson, kept, links, redeemed,
                       starts, redeems>>
    BY DEF ReadGrant
  <1>2. CASE Finish(s)
    BY <1>1, <1>2, EndKeeps
  <1>3. CASE links[local[s].link].camp \in active /\ Goto(s, "source", local[s])
    <2>1. PICK c : c = local[s]
      OBVIOUS
    <2>2. c.link \in DOMAIN links /\ active \subseteq c.before
      BY <1>1, <2>1 DEF IInv, LinkInv, SpendOK
    <2>3. redeems' \in 0..budget.redeems
      BY <1>1 DEF IInv, Ground
    <2> QED BY <1>1, <1>3, <2>1, <2>2, <2>3, SpendingGoesOn
  <1> QED BY <1>2, <1>3 DEF ReadGrant

\* So is the client's own grant.
LEMMA ReadSourceKeeps ==
  ASSUME IInv, NEW s \in Slot, ReadSource(s)
  PROVE  IInv'
  <1>1. /\ pc[s] = "source"
        /\ UNCHANGED <<host, budget, session, epoch, hudson, kept, links, redeemed,
                       starts, redeems>>
    BY DEF ReadSource
  <1>2. CASE Finish(s)
    BY <1>1, <1>2, EndKeeps
  <1>3. CASE Home \in active /\ Goto(s, "consume", local[s])
    <2>1. PICK c : c = local[s]
      OBVIOUS
    <2>2. /\ c.link \in DOMAIN links /\ active \subseteq c.before
          /\ links[c.link].camp \in c.before
      BY <1>1, <2>1 DEF IInv, LinkInv, SpendOK
    <2>3. redeems' \in 0..budget.redeems
      BY <1>1 DEF IInv, Ground
    <2> QED BY <1>1, <1>3, <2>1, <2>2, <2>3, SpendingGoesOn
  <1> QED BY <1>2, <1>3 DEF ReadSource, HasSource

\* Links move on: none gets another property, none becomes pending again.
LinksMoveOn ==
  /\ links' \in Seq(Link) /\ DOMAIN links' = DOMAIN links
  /\ \A i \in DOMAIN links :
       /\ links'[i].camp = links[i].camp
       /\ links[i].status = "consumed" => links'[i].status = "consumed"

\* A pending link is spent or lost.
LEMMA LinkMoves ==
  ASSUME links \in Seq(Link), NEW i \in DOMAIN links, links[i].status = "pending",
         NEW st \in {"consumed", "expired"},
         links' = [links EXCEPT ![i].status = st]
  PROVE  LinksMoveOn /\ links'[i].status = st
  <1>1. links[i] \in Link
    OBVIOUS
  <1>2. PICK k : k = [links[i] EXCEPT !.status = st]
    OBVIOUS
  <1>3. k \in Link /\ k.camp = links[i].camp /\ k.status = st
    BY <1>1, <1>2 DEF Link
  <1>4. links' = [links EXCEPT ![i] = k]
    BY <1>2
  <1>5. links' \in Seq(Link) /\ DOMAIN links' = DOMAIN links /\ links'[i] = k
    BY <1>3, <1>4
  <1>6. \A j \in DOMAIN links : j # i => links'[j] = links[j]
    BY <1>4
  <1> QED BY <1>3, <1>5, <1>6 DEF LinksMoveOn

\* A redeem request ends: it is given the token if it consumes the link.
LEMMA ConsumeKeeps ==
  ASSUME IInv, NEW s \in Slot, Consume(s)
  PROVE  IInv'
  <1>1. PICK i, r : /\ i = local[s].link
                    /\ r = [link |-> i, by |-> redeems, before |-> local[s].before]
    OBVIOUS
  <1>2. /\ pc[s] = "consume" /\ Finish(s)
        /\ UNCHANGED <<host, budget, session, epoch, hudson, kept, starts, redeems>>
    BY DEF Consume
  <1>3. CASE UNCHANGED <<links, redeemed>>
    BY <1>2, <1>3, EndKeeps
  <1>4. CASE /\ links[i].status = "pending"
             /\ links' = [links EXCEPT ![i].status = "consumed"]
             /\ redeemed' = redeemed \union {r}
    <2>1. /\ Goto(s, "idle", NoCall) /\ UNCHANGED <<flows, launched>>
      BY <1>2 DEF Finish, kept
    <2>2. /\ Ground' /\ Onward /\ active' = active /\ pc'[s] = "idle"
          /\ \A t \in Slot \ {s} : pc'[t] = pc[t] /\ local'[t] = local[t]
      BY <1>2, <2>1, GotoStep DEF IInv, Ground
    <2>3. FlowInv' /\ LaunchInv'
      BY <2>1, <2>2, FlowsStand DEF IInv
    <2>4. CallInv'
      BY <2>2, IdleIsOK, CallsStand DEF IInv
    <2>5. IdInv'
      BY <2>1, <2>2, StandingFollows, IdsStand DEF IInv, Descend
    <2>6. /\ i \in DOMAIN links /\ links[i].camp \in local[s].before
          /\ Home \in local[s].before /\ links \in Seq(Link)
      BY <1>1, <1>2 DEF IInv, LinkInv, SpendOK
    <2>7. LinksMoveOn /\ links'[i].status = "consumed"
      BY <1>4, <2>6, LinkMoves
    <2>8. r.link = i /\ r.before = local[s].before
      BY <1>1
    <2>9. ASSUME NEW t \in Slot  PROVE SpendOK(t)'
      <3>1. CASE t = s
        BY <2>2, <3>1 DEF SpendOK
      <3>2. CASE t # s
        BY <2>2, <2>7, <3>2 DEF IInv, LinkInv, SpendOK, LinksMoveOn
      <3> QED BY <3>1, <3>2
    <2>10. \A q \in redeemed : q.link # i
      BY <1>4 DEF IInv, LinkInv
    <2>11. \A q \in redeemed' :
             /\ q.link \in DOMAIN links' /\ links'[q.link].status = "consumed"
             /\ {links'[q.link].camp, Home} \subseteq q.before
      <3>1. ASSUME NEW q \in redeemed
            PROVE  /\ q.link \in DOMAIN links' /\ links'[q.link].status = "consumed"
                   /\ {links'[q.link].camp, Home} \subseteq q.before
        BY <2>7 DEF IInv, LinkInv, LinksMoveOn
      <3>2. /\ r.link \in DOMAIN links' /\ links'[r.link].status = "consumed"
            /\ {links'[r.link].camp, Home} \subseteq r.before
        BY <2>6, <2>7, <2>8 DEF LinksMoveOn
      <3> QED BY <1>4, <3>1, <3>2
    <2>12. \A q, q2 \in redeemed' : q.link = q2.link => q = q2
      BY <1>4, <2>8, <2>10 DEF IInv, LinkInv
    <2>13. LinkInv'
      BY <2>7, <2>9, <2>11, <2>12 DEF LinkInv, LinksMoveOn, Link
    <2> QED BY <2>2, <2>3, <2>4, <2>5, <2>13 DEF IInv
  <1> QED BY <1>1, <1>3, <1>4 DEF Consume, Unspent

-----------------------------------------------------------------------------
(***************************************************************************)
(* What happens around the calls.                                          *)
(***************************************************************************)

\* A failed call leaves everything as it is.
LEMMA CallFailsKeeps ==
  ASSUME IInv, NEW s \in Slot, CallFails(s)
  PROVE  IInv'
  BY EndKeeps DEF CallFails

\* Calls stand still while the world moves on.
LEMMA AllCallsStand ==
  ASSUME Ground, Onward, CallInv, UNCHANGED <<pc, local>>
  PROVE  CallInv'
  BY CallStands DEF CallInv

\* A change of the channel side is the latest there is.
LEMMA SiteMovesOn ==
  ASSUME IInv, NEW c \in Camp, SiteChanges(c)
  PROVE  site' \in [Camp -> Side] /\ \A d \in Camp : site'[d].n >= site[d].n
  <1> DEFINE Seen == {site[d].n : d \in Camp}
  <1>1. PICK last : last = Max(Seen)
    OBVIOUS
  <1>2. PICK r \in BOOLEAN :
          site' = [site EXCEPT ![c] = [n |-> last + 1, ready |-> r]]
    BY <1>1 DEF SiteChanges
  <1>3. last < budget.changes
    BY <1>1 DEF SiteChanges
  <1>4. budget.changes \in Nat
    BY BoundsAreNumbers DEF IInv, Ground
  <1>5. \A d \in Camp : site[d] \in Side /\ site[d].n \in 0..budget.changes
    BY DEF IInv, Ground, Side
  <1>6. last \in 0..budget.changes /\ \A d \in Camp : site[d].n <= last
    <2>1. Seen \subseteq 0..budget.changes /\ Seen # {}
      BY <1>5
    <2>2. \A d \in Camp : site[d].n \in Seen
      OBVIOUS
    <2> HIDE DEF Seen
    <2> QED BY <1>1, <1>4, <2>1, <2>2, GreatestElement
  <1>7. PICK w : w = [n |-> last + 1, ready |-> r]
    OBVIOUS
  <1>8. w \in Side /\ w.n = last + 1
    BY <1>3, <1>4, <1>6, <1>7 DEF Side
  <1>9. site' \in [Camp -> Side] /\ \A d \in Camp : site'[d] = IF d = c THEN w ELSE site[d]
    BY <1>2, <1>7, <1>8 DEF IInv, Ground
  <1>10. \A d \in Camp : site'[d].n >= site[d].n
    BY <1>4, <1>5, <1>6, <1>8, <1>9
  <1> QED BY <1>9, <1>10

\* A change of the channel side is later than every baseline.
LEMMA SiteChangesKeeps ==
  ASSUME IInv, NEW c \in Camp, SiteChanges(c)
  PROVE  IInv'
  <1>1. /\ UNCHANGED <<host, budget, session, epoch, active, flows, launched,
                       links, pc, local, redeemed, starts, redeems>>
        /\ starts \in Nat
    BY BoundsAreNumbers DEF SiteChanges, kept, IInv, Ground
  <1>2. site' \in [Camp -> Side] /\ \A d \in Camp : site'[d].n >= site[d].n
    BY SiteMovesOn
  <1>3. Ground' /\ Onward
    BY <1>1, <1>2, TypesStand DEF IInv, Ground, Onward
  <1>4. FlowInv' /\ LaunchInv'
    BY <1>1, <1>3, FlowsStand DEF IInv
  <1>5. CallInv'
    BY <1>1, <1>3, AllCallsStand DEF IInv
  <1>6. IdInv'
    BY <1>1 DEF IInv, IdInv
  <1>7. LinkInv'
    BY <1>1, LinksStand DEF IInv
  <1> QED BY <1>3, <1>4, <1>5, <1>6, <1>7 DEF IInv

\* Steps that change neither flows nor calls nor the channel side, and revoke
\* grants at most.
LEMMA TheRestStands ==
  ASSUME IInv, session' \in Camp, epoch' \in 0..budget.switches,
         active' \subseteq active,
         UNCHANGED <<host, budget, site, kept, links, pc, local, redeemed, starts, redeems>>
  PROVE  IInv'
  <1>1. flows' = flows /\ launched' = launched
    BY DEF kept
  <1>2. starts \in Nat /\ \A c \in Camp : site[c].n \in Nat
    BY BoundsAreNumbers DEF IInv, Ground, Side
  <1>3. Ground' /\ Onward
    BY <1>1, <1>2, TypesStand DEF IInv, Ground, Onward
  <1>4. FlowInv' /\ LaunchInv'
    BY <1>1, <1>3, FlowsStand DEF IInv
  <1>5. CallInv'
    BY <1>3, AllCallsStand DEF IInv
  <1>6. IdInv'
    BY <1>1 DEF IInv, IdInv
  <1>7. LinkInv'
    BY LinksStand DEF IInv
  <1> QED BY <1>3, <1>4, <1>5, <1>6, <1>7 DEF IInv

\* Another property comes into force.
LEMMA SwitchKeeps ==
  ASSUME IInv, Switch
  PROVE  IInv'
  <1>1. epoch' \in 0..budget.switches
    BY BoundsAreNumbers DEF IInv, Ground, Switch
  <1> QED BY <1>1, TheRestStands DEF Switch, hudson

\* A grant is revoked.
LEMMA RevokeKeeps ==
  ASSUME IInv, NEW c \in Camp, Revoke(c)
  PROVE  IInv'
  BY TheRestStands DEF Revoke, IInv, Ground

\* A flow expires, with what was launched for it.
LEMMA FlowExpiresKeeps ==
  ASSUME IInv, NEW f \in flows, FlowExpires(f)
  PROVE  IInv'
  <1>1. /\ flows' = flows \ {f} /\ launched' = Settled(flows')
        /\ UNCHANGED <<host, budget, session, epoch, site, active, links, pc,
                       local, redeemed, starts, redeems>>
    BY DEF FlowExpires, hudson
  <1>2. starts \in Nat /\ \A c \in Camp : site[c].n \in Nat
    BY BoundsAreNumbers DEF IInv, Ground, Side
  <1>3. Ground' /\ Onward
    BY <1>1, <1>2, TypesStand DEF IInv, Ground, Onward
  <1>4. FlowInv'
    BY <1>1, TypesStand DEF IInv, FlowInv
  <1>5. LaunchInv'
    BY <1>1, SettlingKeeps DEF IInv
  <1>6. CallInv'
    BY <1>1, <1>3, AllCallsStand DEF IInv
  <1>7. IdInv'
    BY <1>1 DEF IInv, IdInv
  <1>8. LinkInv'
    BY <1>1, LinksStand DEF IInv
  <1> QED BY <1>3, <1>4, <1>5, <1>6, <1>7, <1>8 DEF IInv

\* A link expires, and was worth nothing.
LEMMA LinkExpiresKeeps ==
  ASSUME IInv, NEW i \in DOMAIN links, LinkExpires(i)
  PROVE  IInv'
  <1>1. /\ links[i].status = "pending"
        /\ links' = [links EXCEPT ![i].status = "expired"]
        /\ UNCHANGED <<host, budget, session, epoch, site, active, flows, launched,
                       pc, local, redeemed, starts, redeems>>
    BY DEF LinkExpires, hudson, kept
  <1>2. starts \in Nat /\ \A c \in Camp : site[c].n \in Nat
    BY BoundsAreNumbers DEF IInv, Ground, Side
  <1>3. Ground' /\ Onward
    BY <1>1, <1>2, TypesStand DEF IInv, Ground, Onward
  <1>4. FlowInv' /\ LaunchInv'
    BY <1>1, <1>3, FlowsStand DEF IInv
  <1>5. CallInv'
    BY <1>1, <1>3, AllCallsStand DEF IInv
  <1>6. IdInv'
    BY <1>1 DEF IInv, IdInv
  <1>7. LinksMoveOn
    BY <1>1, LinkMoves DEF IInv, LinkInv
  <1>8. ASSUME NEW t \in Slot  PROVE SpendOK(t)'
    BY <1>1, <1>7 DEF IInv, LinkInv, SpendOK, LinksMoveOn
  <1>9. LinkInv'
    BY <1>1, <1>7, <1>8 DEF IInv, LinkInv, LinksMoveOn, Link
  <1> QED BY <1>3, <1>4, <1>5, <1>6, <1>9 DEF IInv

-----------------------------------------------------------------------------
(***************************************************************************)
(* What a start found when it began.                                       *)
(***************************************************************************)

\* Flows are kept, marked or lost, and calls that are opening one go on with
\* what they found.
LEMMA SeenStands ==
  ASSUME IInv, SeenInv, host' = host, starts' \in Nat, starts' >= starts,
         host = "memory" =>
           \A f \in flows' :
             \/ f \in flows \/ f.status = "succeeded"
             \/ \E u \in Slot : pc[u] \in Opening /\ f.id = Id(pc[u], local[u]),
         \A t \in Slot :
           pc'[t] \in Opening =>
             /\ pc[t] \in Opening /\ local'[t].seen = local[t].seen
             /\ Id(pc'[t], local'[t]) = Id(pc[t], local[t])
  PROVE  SeenInv'
  <1>1. ASSUME NEW s \in Slot, pc'[s] \in Opening
        PROVE  local'[s].seen \subseteq 1..starts'
    <2>1. starts \in Nat
      BY BoundsAreNumbers DEF IInv, Ground
    <2>2. local'[s].seen \subseteq 1..starts
      BY <1>1 DEF SeenInv
    <2> QED BY <2>1, <2>2
  <1>2. ASSUME NEW s \in Slot, pc'[s] \in Opening, host = "memory",
               NEW f \in flows', f.id \in local'[s].seen
        PROVE  f.status = "succeeded"
    BY <1>2 DEF SeenInv
  <1>3. ASSUME NEW s \in Slot, pc'[s] \in Opening, NEW t \in Slot, pc'[t] \in Opening
        PROVE  Id(pc'[t], local'[t]) \notin local'[s].seen
    BY <1>3 DEF SeenInv
  <1> QED BY <1>1, <1>2, <1>3 DEF SeenInv

\* Whoever stands still, or is opening nothing.
LEMMA SeenByOthers ==
  ASSUME IInv, SeenInv, host' = host, starts' = starts, NEW s \in Slot,
         host = "memory" => \A f \in flows' : f \in flows \/ f.status = "succeeded",
         pc'[s] \notin Opening,
         \A t \in Slot \ {s} : pc'[t] = pc[t] /\ local'[t] = local[t]
  PROVE  SeenInv'
  <1>1. starts' \in Nat /\ starts' >= starts
    BY BoundsAreNumbers DEF IInv, Ground
  <1>2. ASSUME NEW t \in Slot, pc'[t] \in Opening
        PROVE  /\ pc[t] \in Opening /\ local'[t].seen = local[t].seen
               /\ Id(pc'[t], local'[t]) = Id(pc[t], local[t])
    BY <1>2
  <1> QED BY <1>1, <1>2, SeenStands

\* Where a call goes, and that it goes alone.
LEMMA GotoMoves ==
  ASSUME IInv, NEW s \in Slot, NEW p, NEW c, Goto(s, p, c)
  PROVE  /\ pc'[s] = p /\ local'[s] = c
         /\ \A t \in Slot \ {s} : pc'[t] = pc[t] /\ local'[t] = local[t]
  BY DEF Goto, IInv, Ground

\* A start of the local server that goes to ask for the channel side found no
\* open flow.
LEMMA StartSeen ==
  ASSUME IInv, SeenInv, NEW s \in Slot, Start(s)
  PROVE  SeenInv'
  <1>1. /\ host' = host /\ starts' = starts + 1 /\ flows' = flows
        /\ starts \in Nat /\ starts' \in Nat /\ starts' >= starts
        /\ pc[s] = "idle"
    BY BoundsAreNumbers DEF Start, IInv, Ground
  <1>2. CASE Finish(s)
    <2>1. ASSUME NEW t \in Slot, pc'[t] \in Opening
          PROVE  /\ pc[t] \in Opening /\ local'[t].seen = local[t].seen
                 /\ Id(pc'[t], local'[t]) = Id(pc[t], local[t])
      BY <1>2, <2>1, GotoMoves DEF Finish
    <2> QED BY <1>1, <2>1, SeenStands
  <1>3. CASE ~Finish(s)
    <2> DEFINE Ids == {f.id : f \in Found(Scope(session))}
    <2>1. PICK c : /\ Goto(s, "snapshot", c) /\ c.id = starts' /\ c.seen = Ids
                   /\ host = "memory" =>
                        \A f \in Found(Scope(session)) : f.status # "pending"
      <3>1. PICK c : c = [op |-> "start", id |-> starts', owner |-> Scope(session),
                          camp |-> session, seen |-> Ids]
        OBVIOUS
      <3>2. c.id = starts' /\ c.seen = Ids
        BY <3>1
      <3>3. /\ Goto(s, "snapshot", c)
            /\ host = "memory" => \A f \in Found(Scope(session)) : f.status # "pending"
        BY <1>3, <3>1 DEF Start
      <3> QED BY <3>2, <3>3
    <2>2. /\ pc'[s] = "snapshot" /\ local'[s] = c
          /\ \A t \in Slot \ {s} : pc'[t] = pc[t] /\ local'[t] = local[t]
      BY <2>1, GotoMoves
    <2>3. /\ \A f \in flows : f \in Flow /\ f.id \in Nat /\ f.id >= 1 /\ f.id <= starts
          /\ Found(Scope(session)) \subseteq flows
      BY BoundsAreNumbers DEF IInv, FlowInv, Flow, Found
    <2>4. c.seen \subseteq 1..starts /\ Id("snapshot", c) = starts'
      BY <1>1, <2>1, <2>3 DEF Id
    <2>5. ASSUME host = "memory", NEW f \in flows', f.id \in c.seen
          PROVE  f.status = "succeeded"
      <3>1. PICK g \in Found(Scope(session)) : f.id = g.id
        BY <2>1, <2>5
      <3>2. f = g
        BY <1>1, <2>3, <3>1 DEF IInv, FlowInv
      <3> QED BY <1>1, <2>1, <2>3, <2>5, <3>2 DEF Flow
    <2>6. ASSUME NEW t \in Slot, pc'[t] \in Opening
          PROVE  Id(pc'[t], local'[t]) \notin c.seen
      <3>1. CASE t = s
        BY <1>1, <2>2, <2>4, <3>1
      <3>2. CASE t # s
        <4>1. \A f \in flows : f.id # Id(pc'[t], local'[t])
          BY <2>2, <2>6, <3>2 DEF IInv, IdInv
        <4> QED BY <2>1, <2>3, <4>1
      <3> QED BY <3>1, <3>2
    <2>7. ASSUME NEW t \in Slot, t # s, pc'[t] \in Opening
          PROVE  /\ local'[t].seen \subseteq 1..starts'
                 /\ host = "memory" =>
                      \A f \in flows' : f.id \in local'[t].seen => f.status = "succeeded"
                 /\ \A u \in Slot : pc'[u] \in Opening =>
                      Id(pc'[u], local'[u]) \notin local'[t].seen
      <3>1. /\ local[t].seen \subseteq 1..starts /\ pc[t] \in Opening
            /\ local'[t] = local[t]
        BY <2>2, <2>7 DEF SeenInv
      <3>2. local'[t].seen \subseteq 1..starts'
        BY <1>1, <3>1
      <3>3. host = "memory" =>
              \A f \in flows' : f.id \in local'[t].seen => f.status = "succeeded"
        BY <1>1, <3>1 DEF SeenInv
      <3>4. ASSUME NEW u \in Slot, pc'[u] \in Opening
            PROVE  Id(pc'[u], local'[u]) \notin local'[t].seen
        <4>1. CASE u = s
          BY <1>1, <2>2, <2>4, <3>1, <4>1
        <4>2. CASE u # s
          BY <2>2, <3>1, <3>4, <4>2 DEF SeenInv
        <4> QED BY <4>1, <4>2
      <3> QED BY <3>2, <3>3, <3>4
    <2>8. c.seen \subseteq 1..starts'
      BY <1>1, <2>4
    <2>9. ASSUME NEW t \in Slot, pc'[t] \in Opening
          PROVE  /\ local'[t].seen \subseteq 1..starts'
                 /\ host' = "memory" =>
                      \A f \in flows' : f.id \in local'[t].seen => f.status = "succeeded"
                 /\ \A u \in Slot : pc'[u] \in Opening =>
                      Id(pc'[u], local'[u]) \notin local'[t].seen
      BY <1>1, <2>2, <2>5, <2>6, <2>7, <2>8, <2>9
    <2> QED BY <2>9 DEF SeenInv
  <1> QED BY <1>2, <1>3

\* A start goes on with what it found, and with its number.
LEMMA SnapshotSeen ==
  ASSUME IInv, SeenInv, NEW s \in Slot, Snapshot(s)
  PROVE  SeenInv'
  <1>1. PICK f : f = NewFlow(local[s], site[local[s].camp].n)
    OBVIOUS
  <1>2. PICK c : c = [op |-> "start", flow |-> f, seen |-> local[s].seen]
    OBVIOUS
  <1>3. /\ pc[s] = "snapshot" /\ Goto(s, "create", c)
        /\ host' = host /\ starts' = starts /\ flows' = flows
    BY <1>1, <1>2 DEF Snapshot, kept
  <1>4. /\ pc'[s] = "create" /\ local'[s] = c
        /\ \A t \in Slot \ {s} : pc'[t] = pc[t] /\ local'[t] = local[t]
    BY <1>3, GotoMoves
  <1>5. c.seen = local[s].seen /\ Id("create", c) = Id("snapshot", local[s])
    BY <1>1, <1>2 DEF NewFlow, Id
  <1>6. starts' \in Nat /\ starts' >= starts
    BY <1>3, BoundsAreNumbers DEF IInv, Ground
  <1>7. ASSUME NEW t \in Slot, pc'[t] \in Opening
        PROVE  /\ pc[t] \in Opening /\ local'[t].seen = local[t].seen
               /\ Id(pc'[t], local'[t]) = Id(pc[t], local[t])
    BY <1>3, <1>4, <1>5, <1>7
  <1> QED BY <1>3, <1>6, <1>7, SeenStands

\* What is kept was nobody else's to find.
LEMMA CreateSeen ==
  ASSUME IInv, SeenInv, NEW s \in Slot, Create(s)
  PROVE  SeenInv'
  <1>1. PICK f : f = Opened(local[s].flow, local[s].seen)
    OBVIOUS
  <1>2. /\ pc[s] = "create" /\ flows' = Keep(f) /\ host' = host /\ starts' = starts
        /\ f.id = Id(pc[s], local[s])
    BY <1>1, CreateFinds
  <1>3. PICK g \in flows', p \in {"reset", "link", "launch"} : GoesOn(s, f, g, p)
    BY <1>1, CreateFinds
  <1>4. /\ pc'[s] \notin Opening
        /\ \A t \in Slot \ {s} : pc'[t] = pc[t] /\ local'[t] = local[t]
    BY <1>3, GotoMoves DEF GoesOn
  <1>5. starts' \in Nat /\ starts' >= starts
    BY <1>2, BoundsAreNumbers DEF IInv, Ground
  <1>6. host = "memory" => flows' = {f}
    BY <1>2 DEF Keep
  <1>7. ASSUME NEW t \in Slot, pc'[t] \in Opening
        PROVE  /\ pc[t] \in Opening /\ local'[t].seen = local[t].seen
               /\ Id(pc'[t], local'[t]) = Id(pc[t], local[t])
    BY <1>4, <1>7
  <1> QED BY <1>2, <1>5, <1>6, <1>7, SeenStands

\* The other steps of a call open no flow in memory.
LEMMA CallSeen ==
  ASSUME IInv, SeenInv, NEW s \in Slot,
         \/ Reset(s) \/ MakeLink(s) \/ Answer(s) \/ Complete(s) \/ Compare(s) \/ Mark(s)
         \/ Redeem(s) \/ ReadGrant(s) \/ ReadSource(s) \/ Consume(s) \/ CallFails(s)
  PROVE  SeenInv'
  <1>1. host' = host /\ starts' = starts
    BY DEF Reset, MakeLink, Answer, Complete, Compare, Mark, Redeem, ReadGrant,
           ReadSource, Consume, CallFails
  <1>2. /\ pc'[s] \notin Opening
        /\ \A t \in Slot \ {s} : pc'[t] = pc[t] /\ local'[t] = local[t]
    <2>1. CASE MakeLink(s) \/ Answer(s) \/ Complete(s)
      <3>1. \E p \in {"idle", "launch", "compare"} : \E c : Goto(s, p, c)
        BY <2>1 DEF MakeLink, Answer, Complete, Finish
      <3> QED BY <3>1, GotoMoves
    <2>2. CASE Compare(s) \/ Mark(s)
      <3>1. PICK d : d = [local[s] EXCEPT !.flow = Success(local[s].flow, local[s].camp)]
        OBVIOUS
      <3>2. Goto(s, "idle", NoCall) \/ Goto(s, "mark", d)
        BY <2>2, <3>1 DEF Compare, Mark, Finish
      <3> QED BY <3>2, GotoMoves
    <2>3. CASE Redeem(s) \/ ReadGrant(s) \/ ReadSource(s) \/ Consume(s) \/ CallFails(s)
      <3>1. \E p \in {"idle"} \union Spending : \E c : Goto(s, p, c)
        BY <2>3 DEF Redeem, ReadGrant, ReadSource, Consume, CallFails, Finish
      <3> QED BY <3>1, GotoMoves
    <2>4. CASE Reset(s)
      BY <2>4, GotoMoves DEF Reset, Finish
    <2> QED BY <2>1, <2>2, <2>3, <2>4
  <1>3. host = "memory" => \A f \in flows' : f \in flows \/ f.status = "succeeded"
    <2>1. CASE Reset(s)
      BY <2>1 DEF Reset, IInv, CallInv, CallOK
    <2>2. CASE Mark(s)
      <3>1. local[s].flow.status = "succeeded"
        BY <2>2 DEF Mark, IInv, CallInv, CallOK
      <3> QED BY <2>2, <3>1 DEF Mark
    <2>3. CASE ~Reset(s) /\ ~Mark(s)
      BY <2>3 DEF MakeLink, Answer, Complete, Compare, Redeem, ReadGrant, ReadSource,
                  Consume, CallFails, kept
    <2> QED BY <2>1, <2>2, <2>3
  <1> QED BY <1>1, <1>2, <1>3, SeenByOthers

\* What happens around the calls.
LEMMA AroundSeen ==
  ASSUME IInv, SeenInv,
         \/ Switch
         \/ \E c \in Camp : SiteChanges(c) \/ Revoke(c)
         \/ \E f \in flows : FlowExpires(f)
         \/ \E i \in DOMAIN links : LinkExpires(i)
         \/ UNCHANGED vars
  PROVE  SeenInv'
  <1>1. UNCHANGED <<pc, local, host, starts>> /\ flows' \subseteq flows
    <2>1. CASE Switch \/ UNCHANGED vars
      BY <2>1 DEF Switch, vars, kept
    <2>2. CASE \E c \in Camp : SiteChanges(c) \/ Revoke(c)
      BY <2>2 DEF SiteChanges, Revoke, kept
    <2>3. CASE (\E f \in flows : FlowExpires(f)) \/ \E i \in DOMAIN links : LinkExpires(i)
      BY <2>3 DEF FlowExpires, LinkExpires, kept
    <2> QED BY <2>1, <2>2, <2>3
  <1>2. starts' \in Nat /\ starts' >= starts
    BY <1>1, BoundsAreNumbers DEF IInv, Ground
  <1> QED BY <1>1, <1>2, SeenStands

\* Every step keeps what starts found.
LEMMA SeenStep ==
  ASSUME IInv, SeenInv, [Next]_vars
  PROVE  SeenInv'
  <1>1. CASE UNCHANGED vars
    BY <1>1, AroundSeen
  <1>2. CASE \/ Switch
             \/ \E c \in Camp : SiteChanges(c) \/ Revoke(c)
             \/ \E f \in flows : FlowExpires(f)
             \/ \E i \in DOMAIN links : LinkExpires(i)
    BY <1>2, AroundSeen
  <1>3. ASSUME NEW s \in Slot, Start(s) \/ Snapshot(s) \/ Create(s)
        PROVE  SeenInv'
    BY <1>3, StartSeen, SnapshotSeen, CreateSeen
  <1>4. ASSUME NEW s \in Slot,
               \/ Reset(s) \/ MakeLink(s) \/ Answer(s) \/ Complete(s) \/ Compare(s)
               \/ Mark(s) \/ Redeem(s) \/ ReadGrant(s) \/ ReadSource(s) \/ Consume(s)
               \/ CallFails(s)
        PROVE  SeenInv'
    BY <1>4, CallSeen
  <1> QED BY <1>1, <1>2, <1>3, <1>4 DEF Next

-----------------------------------------------------------------------------
(***************************************************************************)
(* The theorems.                                                           *)
(***************************************************************************)

\* Nothing is kept, launched, linked or running at first.
LEMMA InitKeeps ==
  ASSUME Init
  PROVE  IInv
  <1>1. /\ host \in Hosts /\ budget \in Budgets /\ session \in Camp /\ epoch = 0
        /\ site = [c \in Camp |-> Unseen] /\ flows = {} /\ launched = {}
        /\ links = <<>> /\ active = Camp /\ redeemed = {}
        /\ pc = [s \in Slot |-> "idle"] /\ local = [s \in Slot |-> NoCall]
        /\ starts = 0 /\ redeems = 0
    BY DEF Init
  <1>2. /\ budget.starts \in Nat /\ budget.redeems \in Nat
        /\ budget.changes \in Nat /\ budget.switches \in Nat
    BY <1>1, ConstantsOK
  <1>3. Unseen \in Side
    BY <1>2 DEF Unseen, Side
  <1>4. Ground
    <2>1. site \in [Camp -> Side] /\ active \subseteq Camp
      BY <1>1, <1>3
    <2>2. /\ pc \in [Slot -> {"idle"} \union Opening \union Holding \union Spending]
          /\ DOMAIN local = Slot
      BY <1>1
    <2>3. /\ epoch \in 0..budget.switches /\ starts \in 0..budget.starts
          /\ redeems \in 0..budget.redeems
      BY <1>1, <1>2
    <2> QED BY <1>1, <2>1, <2>2, <2>3 DEF Ground
  <1>5. FlowInv /\ LaunchInv
    BY <1>1 DEF FlowInv, LaunchInv, BaselineBeforeLaunch
  <1>6. CallInv /\ IdInv
    BY <1>1 DEF CallInv, CallOK, IdInv
  <1>7. LinkInv
    BY <1>1 DEF LinkInv, SpendOK
  <1> QED BY <1>4, <1>5, <1>6, <1>7 DEF IInv

\* Nothing happens.
LEMMA StutterKeeps ==
  ASSUME IInv, UNCHANGED vars
  PROVE  IInv'
  <1>1. session' \in Camp /\ epoch' \in 0..budget.switches /\ active' \subseteq active
    BY DEF vars, hudson, IInv, Ground
  <1> QED BY <1>1, TheRestStands DEF vars, hudson

\* Every step of the channel connection keeps the inductive invariant.
THEOREM Inductive == Spec => [](IInv /\ SeenInv)
  <1>1. Init => IInv /\ SeenInv
    BY InitKeeps DEF Init, SeenInv
  <1>2. ASSUME IInv, SeenInv, [Next]_vars  PROVE IInv'
    <2>1. CASE Switch
      BY <1>2, <2>1, SwitchKeeps
    <2>2. CASE \E c \in Camp : SiteChanges(c) \/ Revoke(c)
      BY <1>2, <2>2, SiteChangesKeeps, RevokeKeeps
    <2>3. CASE \E f \in flows : FlowExpires(f)
      BY <1>2, <2>3, FlowExpiresKeeps
    <2>4. CASE \E i \in DOMAIN links : LinkExpires(i)
      BY <1>2, <2>4, LinkExpiresKeeps
    <2>5. ASSUME NEW s \in Slot, Start(s) \/ Snapshot(s) \/ Create(s) \/ Reset(s)
          PROVE  IInv'
      BY <1>2, <2>5, StartKeeps, SnapshotKeeps, CreateKeeps, ResetKeeps
    <2>6. ASSUME NEW s \in Slot, MakeLink(s) \/ Answer(s) \/ Complete(s) \/ Compare(s)
          PROVE  IInv'
      BY <1>2, <2>6, MakeLinkKeeps, AnswerKeeps, CompleteKeeps, CompareKeeps
    <2>7. ASSUME NEW s \in Slot, Mark(s) \/ Redeem(s) \/ ReadGrant(s)
          PROVE  IInv'
      BY <1>2, <2>7, MarkKeeps, RedeemKeeps, ReadGrantKeeps
    <2>8. ASSUME NEW s \in Slot, ReadSource(s) \/ Consume(s) \/ CallFails(s)
          PROVE  IInv'
      BY <1>2, <2>8, ReadSourceKeeps, ConsumeKeeps, CallFailsKeeps
    <2>9. CASE UNCHANGED vars
      BY <1>2, <2>9, StutterKeeps
    <2> QED BY <1>2, <2>1, <2>2, <2>3, <2>4, <2>5, <2>6, <2>7, <2>8, <2>9 DEF Next
  <1>3. IInv /\ SeenInv /\ [Next]_vars => IInv' /\ SeenInv'
    BY <1>2, SeenStep
  <1> QED BY <1>1, <1>3, PTL DEF Spec

\* Types are kept: in particular flow numbers are never reused, and where the
\* host keeps one flow for an owner there are never two.
THEOREM ChannelTypes == Spec => []TypeOK
  <1>1. ASSUME IInv  PROVE TypeOK
    <2>1. host = "memory" => Cardinality(flows) <= 1
      <3>1. SUFFICES ASSUME host = "memory"  PROVE Cardinality(flows) <= 1
        OBVIOUS
      <3>2. CASE flows = {}
        BY <3>2, FS_EmptySet
      <3>3. ASSUME NEW f \in flows  PROVE Cardinality(flows) <= 1
        <4>1. flows = {f}
          BY <1>1, <3>1 DEF IInv, FlowInv
        <4> QED BY <4>1, FS_Singleton
      <3> QED BY <3>2, <3>3
    <2>2. \A i \in DOMAIN links : links[i] \in Link
      BY <1>1 DEF IInv, LinkInv
    <2>3. \A l \in launched : l.owner \in Owner /\ l.n \in 0..budget.changes
      BY <1>1 DEF IInv, LaunchInv
    <2> QED BY <1>1, <2>1, <2>2, <2>3 DEF IInv, Ground, FlowInv, TypeOK
  <1> QED BY <1>1, Inductive, PTL

\* The baseline of an open flow is taken before its page is first launched,
\* unless it is stale: of two local starts that overlapped, the later answer.
THEOREM BaselinesComeFirst == Spec => []BaselineBeforeLaunch
  <1>1. IInv => BaselineBeforeLaunch
    BY DEF IInv, LaunchInv
  <1> QED BY <1>1, Inductive, PTL

\* A flow succeeds only on a change of its own property that is ready.
THEOREM SuccessesAreEarned == Spec => []SuccessIsEarned
  <1>1. IInv => SuccessIsEarned
    BY DEF IInv, FlowInv, Sound, SuccessIsEarned
  <1> QED BY <1>1, Inductive, PTL

\* A link opens one session, for a request that began under both grants.
THEOREM LinksOpenOnce == Spec => []LinkOpensOnce
  <1>1. IInv => LinkOpensOnce
    BY DEF IInv, LinkInv, LinkOpensOnce
  <1> QED BY <1>1, Inductive, PTL

-----------------------------------------------------------------------------
(***************************************************************************)
(* A change is counted once.                                               *)
(***************************************************************************)

\* A call of the conversation, or of the local server.
Busy(s) == pc[s] \notin {"idle"} \union Spending

\* What a call is about to keep or to mark was not seen too early: what a flow
\* is opened with again has the change that earned its success.
CallPast(s) ==
  LET c == local[s] IN
  /\ pc[s] = "mark" => c.flow.earned.side.n <= site[c.flow.camp].n
  /\ pc[s] = "reset" => c.flow.earned.side.n <= c.next
  /\ pc[s] = "create" /\ host # "ticket" =>
       \A f \in flows :
         /\ f.owner = c.flow.owner /\ f.status = "succeeded"
         /\ host = "memory" => f.id \in c.seen
         => f.earned.side.n <= c.flow.baseline

\* Successes are of the past, and a conversation's calls take turns.
PastInv ==
  /\ \A f \in flows : f.status = "succeeded" => f.earned.side.n <= site[f.camp].n
  /\ \A s \in Slot : CallPast(s)
  /\ host = "work" => \A s, t \in Slot : Busy(s) /\ Busy(t) => s = t

\* What a success was earned by stays in the past.
LEMMA EarnedStays ==
  ASSUME IInv, Onward, NEW f \in Flow, f.earned.side.n <= site[f.camp].n
  PROVE  f.earned.side.n <= site'[f.camp].n
  <1>1. f.camp \in Camp /\ f.earned.side.n \in Nat
    BY BoundsAreNumbers DEF IInv, Flow, Side
  <1>2. site[f.camp].n \in Nat /\ site'[f.camp].n \in Nat
    BY <1>1, BoundsAreNumbers DEF IInv, Ground, Onward, Side
  <1> QED BY <1>1, <1>2 DEF Onward

\* A step of one call, while the others stand still.
LEMMA OneCallPast ==
  ASSUME IInv, IInv', SeenInv, PastInv, Onward, NEW s \in Slot,
         \A t \in Slot \ {s} : pc'[t] = pc[t] /\ local'[t] = local[t],
         \A f \in flows' : f.status = "succeeded" =>
           f \in flows \/ f.earned.side.n <= site'[f.camp].n,
         host = "memory" =>
           \A f \in flows' : f.status = "succeeded" =>
             f \in flows \/ \E g \in flows : g.id = f.id /\ g.status = "pending",
         \/ \A f \in flows' : f \in flows \/ f.status = "pending"
         \/ Busy(s),
         Busy(s)' => Busy(s) \/ Free,
         CallPast(s)'
  PROVE  PastInv'
  <1>1. host' = host /\ Flow' = Flow
    BY TypesStand DEF Onward
  <1>2. ASSUME NEW f \in flows', f.status = "succeeded"
        PROVE  f.earned.side.n <= site'[f.camp].n
    BY <1>2, EarnedStays DEF PastInv, IInv, FlowInv
  <1>3. ASSUME NEW t \in Slot  PROVE CallPast(t)'
    <2>1. CASE t = s
      BY <2>1
    <2>2. CASE t # s
      <3>1. pc'[t] = pc[t] /\ local'[t] = local[t] /\ CallPast(t) /\ CallOK(t)
        BY <2>2 DEF PastInv, IInv, CallInv
      <3> DEFINE c == local[t]
      <3>2. pc[t] = "mark" => c.flow.earned.side.n <= site'[c.flow.camp].n
        BY <3>1, EarnedStays DEF CallPast, CallOK
      <3>3. ASSUME pc[t] = "create", host # "ticket", NEW f \in flows',
                   f.owner = c.flow.owner, f.status = "succeeded",
                   host = "memory" => f.id \in c.seen
            PROVE  f.earned.side.n <= c.flow.baseline
        <4>1. f \in flows
          <5>1. CASE host = "work"
            <6>1. ~Busy(s)
              BY <2>2, <3>3, <5>1 DEF PastInv, Busy
            <6> QED BY <3>3, <6>1
          <5>2. CASE host = "memory"
            BY <3>3, <5>2 DEF SeenInv
          <5> QED BY <3>3, <5>1, <5>2 DEF IInv, Ground, Hosts
        <4> QED BY <3>1, <3>3, <4>1 DEF CallPast
      <3> QED BY <1>1, <3>1, <3>2, <3>3 DEF CallPast
    <2> QED BY <2>1, <2>2
  <1>4. ASSUME host = "work", NEW t \in Slot, NEW u \in Slot, Busy(t)', Busy(u)'
        PROVE  t = u
    <2>1. \A v \in Slot \ {s} : Busy(v)' = Busy(v)
      BY DEF Busy
    <2>2. Free /\ ~Busy(s) => \A v \in Slot : ~Busy(v)
      BY <1>4 DEF Free, Redeeming, Busy, IInv, Ground
    <2> QED BY <1>4, <2>1, <2>2 DEF PastInv
  <1> QED BY <1>1, <1>2, <1>3, <1>4 DEF PastInv

\* Calls stand still, flows only go.
LEMMA NoCallPast ==
  ASSUME IInv, PastInv, Onward, UNCHANGED <<pc, local>>, flows' \subseteq flows
  PROVE  PastInv'
  <1>1. host' = host
    BY DEF Onward
  <1>2. \A f \in flows' : f.status = "succeeded" =>
          f.earned.side.n <= site'[f.camp].n
    BY EarnedStays DEF PastInv, IInv, FlowInv
  <1>3. ASSUME NEW t \in Slot  PROVE CallPast(t)'
    <2>1. CallPast(t) /\ CallOK(t)
      BY DEF PastInv, IInv, CallInv
    <2>2. pc[t] = "mark" => local[t].flow.earned.side.n <= site'[local[t].flow.camp].n
      BY <2>1, EarnedStays DEF CallPast, CallOK
    <2> QED BY <1>1, <2>1, <2>2 DEF CallPast
  <1> QED BY <1>1, <1>2, <1>3 DEF PastInv, Busy

\* A call that goes to a place where it keeps and marks nothing, flows standing
\* still.
LEMMA IdlePast ==
  ASSUME IInv, IInv', SeenInv, PastInv, NEW s \in Slot,
         pc'[s] \notin {"create", "reset", "mark"},
         \A t \in Slot \ {s} : pc'[t] = pc[t] /\ local'[t] = local[t],
         flows' = flows, Busy(s)' => Busy(s) \/ Free,
         UNCHANGED <<host, budget, session, epoch, hudson>>,
         starts' \in Nat, starts' >= starts
  PROVE  PastInv'
  <1>1. Onward
    <2>1. \A d \in Camp : site[d].n \in Nat
      BY BoundsAreNumbers DEF IInv, Ground, Side
    <2> QED BY <2>1 DEF IInv, Ground, Onward, hudson
  <1>2. CallPast(s)'
    BY DEF CallPast
  <1> QED BY <1>1, <1>2, OneCallPast

\* Starting a flow.
LEMMA StartPast ==
  ASSUME IInv, IInv', SeenInv, PastInv, NEW s \in Slot, Start(s)
  PROVE  PastInv'
  <1>1. /\ Free /\ starts' = starts + 1 /\ starts \in Nat
        /\ UNCHANGED <<host, budget, session, epoch, hudson>>
    BY BoundsAreNumbers DEF Start, IInv, Ground
  <1>2. /\ flows' = flows /\ pc'[s] \in {"idle", "snapshot"}
        /\ \A t \in Slot \ {s} : pc'[t] = pc[t] /\ local'[t] = local[t]
    BY GotoMoves DEF Start, Finish
  <1> QED BY <1>1, <1>2, IdlePast

\* The steps of a start or a completion that keep and mark no flow.
LEMMA QuietPast ==
  ASSUME IInv, IInv', SeenInv, PastInv, NEW s \in Slot, MakeLink(s) \/ Answer(s) \/ Complete(s)
  PROVE  PastInv'
  <1>1. /\ starts' = starts /\ starts \in Nat /\ flows' = flows
        /\ UNCHANGED <<host, budget, session, epoch, hudson>>
    BY BoundsAreNumbers DEF MakeLink, Answer, Complete, kept, IInv, Ground
  <1>2. /\ pc'[s] \in {"idle", "launch", "compare"}
        /\ \A t \in Slot \ {s} : pc'[t] = pc[t] /\ local'[t] = local[t]
    BY GotoMoves DEF MakeLink, Answer, Complete, Finish
  <1>3. Busy(s) \/ Free
    BY DEF MakeLink, Answer, Complete, Busy
  <1> QED BY <1>1, <1>2, <1>3, IdlePast

\* The steps of a redeem request, and a call's failure.
LEMMA AsidePast ==
  ASSUME IInv, IInv', SeenInv, PastInv, NEW s \in Slot,
         Redeem(s) \/ ReadGrant(s) \/ ReadSource(s) \/ Consume(s) \/ CallFails(s)
  PROVE  PastInv'
  <1>1. /\ starts' = starts /\ starts \in Nat /\ flows' = flows
        /\ UNCHANGED <<host, budget, session, epoch, hudson>>
    BY BoundsAreNumbers
       DEF Redeem, ReadGrant, ReadSource, Consume, CallFails, kept, IInv, Ground
  <1>2. /\ pc'[s] \in {"idle"} \union Spending
        /\ \A t \in Slot \ {s} : pc'[t] = pc[t] /\ local'[t] = local[t]
    BY GotoMoves DEF Redeem, ReadGrant, ReadSource, Consume, CallFails, Finish
  <1>3. ~Busy(s)'
    BY <1>2 DEF Busy
  <1> QED BY <1>1, <1>2, <1>3, IdlePast

\* The baseline of a flow that is about to be kept has every earlier success.
LEMMA SnapshotPast ==
  ASSUME IInv, IInv', SeenInv, PastInv, NEW s \in Slot, Snapshot(s)
  PROVE  PastInv'
  <1> DEFINE c == local[s]
  <1>1. PICK f : f = NewFlow(c, site[c.camp].n)
    OBVIOUS
  <1>2. /\ pc[s] = "snapshot" /\ Busy(s) /\ flows' = flows
        /\ Goto(s, "create", [op |-> "start", flow |-> f, seen |-> c.seen])
        /\ UNCHANGED <<host, budget, session, epoch, hudson, starts, redeems>>
    BY <1>1 DEF Snapshot, Busy, kept
  <1>3. /\ c.camp \in Camp /\ c.owner \in Owner /\ c.owner.camp = c.camp
    BY <1>2 DEF IInv, CallInv, CallOK
  <1>4. f.owner = c.owner /\ f.baseline = site[c.camp].n
    BY <1>1 DEF NewFlow
  <1>5. /\ Onward /\ pc'[s] = "create" /\ local'[s].flow = f
        /\ \A t \in Slot \ {s} : pc'[t] = pc[t] /\ local'[t] = local[t]
    BY <1>2, GotoStep DEF IInv, Ground
  <1>6. \A g \in flows : g.owner = f.owner /\ g.status = "succeeded" =>
          g.earned.side.n <= f.baseline
    BY <1>3, <1>4 DEF PastInv, IInv, FlowInv, Sound
  <1>7. CallPast(s)'
    BY <1>2, <1>5, <1>6 DEF CallPast
  <1> QED BY <1>2, <1>5, <1>7, OneCallPast

\* The flow is kept, or the row found that it opens again.
LEMMA CreatePast ==
  ASSUME IInv, IInv', SeenInv, PastInv, NEW s \in Slot, Create(s)
  PROVE  PastInv'
  <1>1. PICK h, f : h = local[s].flow /\ f = Opened(h, local[s].seen)
    OBVIOUS
  <1>2. /\ pc[s] = "create" /\ Busy(s) /\ flows' = Keep(f)
        /\ UNCHANGED <<host, budget, session, epoch, hudson, starts, redeems>>
        /\ \A g \in flows : g.id # f.id
    BY <1>1, CreateFinds DEF Busy
  <1>3. PICK g \in flows', p \in {"reset", "link", "launch"} :
          /\ Goto(s, p, [op |-> "start", flow |-> g, next |-> f.baseline])
          /\ p = "reset" <=> g.status = "succeeded"
          /\ g.id = f.id \/ (host = "work" /\ g.owner = f.owner)
    <2>1. PICK g \in flows', p \in {"reset", "link", "launch"} : GoesOn(s, f, g, p)
      BY <1>1, CreateFinds
    <2> QED BY <2>1 DEF GoesOn
  <1>4. h \in Flow /\ Sound(site, h) /\ h.status = "pending"
    BY <1>1, <1>2 DEF IInv, CallInv, CallOK
  <1>5. f.status = "pending" /\ host = "work" => f = h
    BY <1>1, <1>4, OpenedType DEF IInv
  <1>6. f.status = "pending"
    BY <1>1, <1>4, OpenedType DEF IInv
  <1>7. flows' \subseteq flows \union {f}
    BY <1>2 DEF Keep, IInv, Ground, Hosts
  <1>8. Onward
    <2>1. starts \in Nat /\ \A d \in Camp : site[d].n \in Nat
      BY BoundsAreNumbers DEF IInv, Ground, Side
    <2> QED BY <1>2, <2>1 DEF IInv, Ground, Onward, hudson
  <1>9. PICK d : d = [op |-> "start", flow |-> g, next |-> f.baseline]
    OBVIOUS
  <1>10. /\ pc'[s] = p /\ local'[s] = d /\ d.flow = g /\ d.next = f.baseline
         /\ \A t \in Slot \ {s} : pc'[t] = pc[t] /\ local'[t] = local[t]
    BY <1>3, <1>9, GotoMoves
  <1>11. CallPast(s)'
    <2>1. ASSUME p = "reset"  PROVE g.earned.side.n <= f.baseline
      <3>1. g.status = "succeeded" /\ g \in flows
        BY <1>3, <1>6, <1>7, <2>1
      <3>2. host = "work" /\ g.owner = f.owner /\ f = h
        BY <1>2, <1>3, <1>5, <1>6, <3>1
      <3> QED BY <1>1, <1>2, <3>1, <3>2 DEF PastInv, CallPast
    <2> QED BY <1>10, <2>1 DEF CallPast
  <1>12. \A k \in flows' : k \in flows \/ k.status = "pending"
    BY <1>6, <1>7
  <1>13. \A k \in flows' : k.status = "succeeded" => k \in flows
    BY <1>12
  <1> QED BY <1>2, <1>8, <1>10, <1>11, <1>12, <1>13, OneCallPast

\* The flow that succeeded is open again.
LEMMA ResetPast ==
  ASSUME IInv, IInv', SeenInv, PastInv, NEW s \in Slot, Reset(s)
  PROVE  PastInv'
  <1>1. PICK g : g = [local[s].flow EXCEPT !.status = "pending",
                        !.baseline = local[s].next, !.version = @ + 1]
    OBVIOUS
  <1>2. /\ pc[s] = "reset" /\ Busy(s) /\ flows' = Replace(local[s].flow, g)
        /\ UNCHANGED <<host, budget, session, epoch, hudson, starts, redeems>>
    BY <1>1 DEF Reset, Busy
  <1>3. /\ pc'[s] \in {"link", "idle"}
        /\ \A t \in Slot \ {s} : pc'[t] = pc[t] /\ local'[t] = local[t]
    BY GotoMoves DEF Reset, Finish
  <1>4. g.status = "pending"
    BY <1>1, <1>2 DEF IInv, CallInv, CallOK, Flow
  <1>5. \A h \in flows' : h \in flows \/ h = g
    BY <1>2 DEF Replace
  <1>6. Onward
    <2>1. starts \in Nat /\ \A d \in Camp : site[d].n \in Nat
      BY BoundsAreNumbers DEF IInv, Ground, Side
    <2> QED BY <1>2, <2>1 DEF IInv, Ground, Onward, hudson
  <1>7. CallPast(s)'
    BY <1>3 DEF CallPast
  <1> QED BY <1>2, <1>3, <1>4, <1>5, <1>6, <1>7, OneCallPast

\* What is found done is of now.
LEMMA ComparePast ==
  ASSUME IInv, IInv', SeenInv, PastInv, NEW s \in Slot, Compare(s)
  PROVE  PastInv'
  <1>1. PICK f, g : f = local[s].flow /\ g = Success(f, f.camp)
    OBVIOUS
  <1>2. /\ pc[s] = "compare" /\ Busy(s) /\ flows' = flows
        /\ UNCHANGED <<host, budget, session, epoch, hudson, starts, redeems>>
    BY DEF Compare, Busy, kept
  <1>3. f \in Flow /\ Sound(site, f) /\ local[s].camp = f.camp
    BY <1>1, <1>2 DEF IInv, CallInv, CallOK
  <1>4. \/ Goto(s, "idle", NoCall)
        \/ Done(f, f.camp) /\ Goto(s, "mark", [local[s] EXCEPT !.flow = g])
    BY <1>1, <1>3 DEF Compare, Finish
  <1>5. g.camp = f.camp /\ g.earned.side = site[f.camp]
    BY <1>1, <1>3 DEF Success, Flow
  <1>6. site[f.camp].n \in Nat
    BY <1>3, BoundsAreNumbers DEF IInv, Ground, Side, Flow
  <1>7. \A t \in Slot \ {s} : pc'[t] = pc[t] /\ local'[t] = local[t]
    BY <1>4, GotoMoves
  <1>8. site' = site /\ Onward
    <2>1. starts \in Nat /\ \A d \in Camp : site[d].n \in Nat
      BY BoundsAreNumbers DEF IInv, Ground, Side
    <2> QED BY <1>2, <2>1 DEF IInv, Ground, Onward, hudson
  <1>9. CallPast(s)'
    <2>1. CASE Goto(s, "idle", NoCall)
      BY <2>1, GotoMoves DEF CallPast
    <2>2. CASE Goto(s, "mark", [local[s] EXCEPT !.flow = g])
      <3>1. PICK d : d = [local[s] EXCEPT !.flow = g]
        OBVIOUS
      <3>2. pc'[s] = "mark" /\ local'[s] = d
        BY <2>2, <3>1, GotoMoves
      <3>3. d.flow = g
        BY <1>1, <1>2, <1>3, <3>1 DEF IInv, CallInv, CallOK
      <3> QED BY <1>5, <1>6, <1>8, <3>2, <3>3 DEF CallPast
    <2> QED BY <1>4, <2>1, <2>2
  <1> QED BY <1>2, <1>7, <1>8, <1>9, OneCallPast

\* The flow is marked with what it was judged by, and was pending before.
LEMMA MarkPast ==
  ASSUME IInv, IInv', SeenInv, PastInv, NEW s \in Slot, Mark(s)
  PROVE  PastInv'
  <1>1. PICK g : g = local[s].flow
    OBVIOUS
  <1>2. /\ pc[s] = "mark" /\ Busy(s) /\ Goto(s, "idle", NoCall)
        /\ \A h \in flows' : h \in flows \/ h = g
        /\ UNCHANGED <<host, budget, session, epoch, hudson, starts, redeems>>
    BY <1>1 DEF Mark, Finish, Busy
  <1>3. ASSUME host = "memory", NEW h \in flows', h \notin flows
        PROVE  \E f \in flows : f.id = h.id /\ f.status = "pending"
    BY <1>1, <1>3 DEF Mark
  <1>4. site' = site /\ Onward
    <2>1. starts \in Nat /\ \A d \in Camp : site[d].n \in Nat
      BY BoundsAreNumbers DEF IInv, Ground, Side
    <2> QED BY <1>2, <2>1 DEF IInv, Ground, Onward, hudson
  <1>5. g.earned.side.n <= site'[g.camp].n
    BY <1>1, <1>2, <1>4 DEF PastInv, CallPast
  <1>6. /\ pc'[s] = "idle"
        /\ \A t \in Slot \ {s} : pc'[t] = pc[t] /\ local'[t] = local[t]
    BY <1>2, GotoMoves
  <1>7. CallPast(s)'
    BY <1>6 DEF CallPast
  <1> QED BY <1>2, <1>3, <1>4, <1>5, <1>6, <1>7, OneCallPast

\* What happens around the calls.
LEMMA AroundPast ==
  ASSUME IInv, IInv', SeenInv, PastInv,
         \/ Switch
         \/ \E c \in Camp : SiteChanges(c) \/ Revoke(c)
         \/ \E f \in flows : FlowExpires(f)
         \/ \E i \in DOMAIN links : LinkExpires(i)
         \/ UNCHANGED vars
  PROVE  PastInv'
  <1>1. UNCHANGED <<pc, local, host, budget, starts>> /\ flows' \subseteq flows
    <2>1. CASE Switch \/ UNCHANGED vars
      BY <2>1 DEF Switch, vars, kept
    <2>2. CASE \E c \in Camp : SiteChanges(c) \/ Revoke(c)
      BY <2>2 DEF SiteChanges, Revoke, kept
    <2>3. CASE (\E f \in flows : FlowExpires(f)) \/ \E i \in DOMAIN links : LinkExpires(i)
      BY <2>3 DEF FlowExpires, LinkExpires, kept
    <2> QED BY <2>1, <2>2, <2>3
  <1>2. \A c \in Camp : site'[c].n >= site[c].n
    <2>1. \A c \in Camp : site[c].n \in Nat
      BY BoundsAreNumbers DEF IInv, Ground, Side
    <2>2. ASSUME NEW c \in Camp, SiteChanges(c)
          PROVE  \A d \in Camp : site'[d].n >= site[d].n
      BY <2>2, SiteMovesOn
    <2>3. CASE site' = site
      BY <2>1, <2>3
    <2> QED BY <2>2, <2>3 DEF Switch, Revoke, FlowExpires, LinkExpires, vars, hudson
  <1>3. Onward
    <2>1. starts \in Nat
      BY BoundsAreNumbers DEF IInv, Ground
    <2> QED BY <1>1, <1>2, <2>1, TypesStand DEF IInv, Ground, Onward
  <1> QED BY <1>1, <1>3, NoCallPast

\* Every step keeps successes in the past.
LEMMA PastStep ==
  ASSUME IInv, IInv', SeenInv, PastInv, [Next]_vars
  PROVE  PastInv'
  <1>1. CASE UNCHANGED vars
    BY <1>1, AroundPast
  <1>2. CASE \/ Switch
             \/ \E c \in Camp : SiteChanges(c) \/ Revoke(c)
             \/ \E f \in flows : FlowExpires(f)
             \/ \E i \in DOMAIN links : LinkExpires(i)
    BY <1>2, AroundPast
  <1>3. ASSUME NEW s \in Slot, Start(s) \/ Snapshot(s) \/ Create(s) \/ Reset(s)
        PROVE  PastInv'
    BY <1>3, StartPast, SnapshotPast, CreatePast, ResetPast
  <1>4. ASSUME NEW s \in Slot,
               MakeLink(s) \/ Answer(s) \/ Complete(s) \/ Compare(s) \/ Mark(s)
        PROVE  PastInv'
    BY <1>4, QuietPast, ComparePast, MarkPast
  <1>5. ASSUME NEW s \in Slot,
               Redeem(s) \/ ReadGrant(s) \/ ReadSource(s) \/ Consume(s) \/ CallFails(s)
        PROVE  PastInv'
    BY <1>5, AsidePast
  <1> QED BY <1>1, <1>2, <1>3, <1>4, <1>5 DEF Next

-----------------------------------------------------------------------------
(***************************************************************************)
(* Baselines of open flows.                                                *)
(***************************************************************************)

\* What ReopeningKeepsBaseline says of one step.
Carried ==
  host # "ticket" =>
    \A f \in flows, g \in flows' :
      f.owner = g.owner /\ g.status = "pending" =>
        \/ g = f \/ g.stale
        \/ f.status = "succeeded" /\ f.earned.side.n <= g.baseline

\* An open flow that was there before is its owner's only one.
LEMMA OldIsCarried ==
  ASSUME IInv, host # "ticket", NEW f \in flows, NEW g \in flows, f.owner = g.owner
  PROVE  f = g
  BY DEF IInv, Ground, Hosts, FlowInv

\* Steps that open no flow.
LEMMA OpeningNone ==
  ASSUME IInv, \A g \in flows' : g.status = "pending" => g \in flows
  PROVE  Carried
  BY OldIsCarried DEF Carried

\* A row is inserted only where its owner has none; in memory a flow that is not
\* stale replaces one that its start found, and that has succeeded.
LEMMA CreateCarries ==
  ASSUME IInv, SeenInv, PastInv, NEW s \in Slot, Create(s)
  PROVE  Carried
  <1>1. PICK h, f : h = local[s].flow /\ f = Opened(h, local[s].seen)
    OBVIOUS
  <1>2. pc[s] = "create" /\ flows' = Keep(f)
    BY <1>1, CreateFinds
  <1>3. CASE host = "work"
    <2>1. Found(f.owner) = {k \in flows : k.owner = f.owner}
      BY <1>3, FoundIsAll DEF IInv
    <2>2. \A g \in flows' : g \in flows \/ \A k \in flows : k.owner # g.owner
      BY <1>2, <1>3, <2>1 DEF Keep
    <2> QED BY <1>3, <2>2, OldIsCarried DEF Carried
  <1>4. CASE host = "ticket"
    BY <1>4 DEF Carried
  <1>5. CASE host = "memory"
    <2>1. flows' = {f}
      BY <1>2, <1>5 DEF Keep
    <2>2. h \in Flow /\ Sound(site, h)
      BY <1>1, <1>2 DEF IInv, CallInv, CallOK
    <2>3. /\ f.owner = h.owner /\ f.baseline = h.baseline
          /\ ~f.stale => \A g \in flows : g.owner = f.owner => g.id \in local[s].seen
      BY <1>1, <1>5, <2>2, OpenedType DEF IInv
    <2>4. ASSUME NEW g \in flows, g.owner = f.owner, ~f.stale
          PROVE  g.status = "succeeded" /\ g.earned.side.n <= f.baseline
      <3>1. g.id \in local[s].seen /\ g.status = "succeeded"
        BY <1>2, <1>5, <2>3, <2>4 DEF SeenInv
      <3> QED BY <1>1, <1>2, <1>5, <2>3, <2>4, <3>1 DEF PastInv, CallPast
    <2> QED BY <2>1, <2>4 DEF Carried
  <1> QED BY <1>3, <1>4, <1>5 DEF IInv, Ground, Hosts

\* What is opened again has a baseline that is no older than its success.
LEMMA ResetCarries ==
  ASSUME IInv, PastInv, NEW s \in Slot, Reset(s)
  PROVE  Carried
  <1> DEFINE f == local[s].flow
  <1>1. PICK g : g = [f EXCEPT !.status = "pending", !.baseline = local[s].next,
                               !.version = @ + 1]
    OBVIOUS
  <1>2. pc[s] = "reset" /\ flows' = Replace(f, g)
    BY <1>1 DEF Reset
  <1>3. /\ f \in Flow /\ f.status = "succeeded"
        /\ f.earned.side.n <= local[s].next
    BY <1>1, <1>2 DEF IInv, CallInv, CallOK, PastInv, CallPast
  <1>4. g.owner = f.owner /\ g.baseline = local[s].next
    BY <1>1, <1>3 DEF Flow
  <1>5. CASE f \notin flows
    BY <1>2, <1>5, OpeningNone DEF Replace
  <1>6. CASE f \in flows
    <2>1. \A h \in flows' : h \in flows \/ h = g
      BY <1>2, <1>6 DEF Replace
    <2> QED BY <1>3, <1>4, <1>6, <2>1, OldIsCarried DEF Carried
  <1> QED BY <1>5, <1>6

\* A mark only makes a flow succeed.
LEMMA MarkOpensNone ==
  ASSUME IInv, NEW s \in Slot, Mark(s)
  PROVE  Carried
  <1>1. local[s].flow.status = "succeeded"
    BY DEF Mark, IInv, CallInv, CallOK
  <1> QED BY <1>1, OpeningNone DEF Mark

\* Every step carries the baselines on.
LEMMA BaselineStep ==
  ASSUME IInv, SeenInv, PastInv, [Next]_vars
  PROVE  Carried
  <1>1. CASE UNCHANGED vars
    BY <1>1, OpeningNone DEF vars, kept
  <1>2. CASE \/ Switch
             \/ \E c \in Camp : SiteChanges(c) \/ Revoke(c)
             \/ \E i \in DOMAIN links : LinkExpires(i)
    BY <1>2, OpeningNone DEF Switch, SiteChanges, Revoke, LinkExpires, kept
  <1>3. CASE \E f \in flows : FlowExpires(f)
    BY <1>3, OpeningNone DEF FlowExpires
  <1>4. ASSUME NEW s \in Slot, Create(s) \/ Reset(s) \/ Mark(s)
        PROVE  Carried
    BY <1>4, CreateCarries, ResetCarries, MarkOpensNone
  <1>5. ASSUME NEW s \in Slot,
               Start(s) \/ Snapshot(s) \/ MakeLink(s) \/ Answer(s) \/ Complete(s) \/ Compare(s)
        PROVE  Carried
    <2>1. flows' = flows
      BY <1>5 DEF Start, Snapshot, MakeLink, Answer, Complete, Compare, kept
    <2> QED BY <2>1, OpeningNone
  <1>6. ASSUME NEW s \in Slot,
               Redeem(s) \/ ReadGrant(s) \/ ReadSource(s) \/ Consume(s) \/ CallFails(s)
        PROVE  Carried
    <2>1. flows' = flows
      BY <1>6 DEF Redeem, ReadGrant, ReadSource, Consume, CallFails, kept
    <2> QED BY <2>1, OpeningNone
  <1> QED BY <1>1, <1>2, <1>3, <1>4, <1>5, <1>6 DEF Next

\* An open flow keeps its baseline, and what is opened after a success compares
\* with a state that has the change which earned it: no change of the channel
\* side is counted twice, but for one that a stale flow of the local server
\* counts again.
THEOREM BaselinesMoveOn == Spec => ReopeningKeepsBaseline
  <1>1. Init => PastInv
    BY DEF Init, PastInv, CallPast, Busy
  <1>2. IInv /\ IInv' /\ SeenInv /\ PastInv /\ [Next]_vars => PastInv'
    BY PastStep
  <1>3. IInv /\ SeenInv /\ PastInv /\ [Next]_vars
          => [host # "ticket" =>
                \A f \in flows, g \in flows' :
                  f.owner = g.owner /\ g.status = "pending" =>
                    \/ g = f \/ g.stale
                    \/ f.status = "succeeded" /\ f.earned.side.n <= g.baseline]_flows
    BY BaselineStep DEF Carried
  <1> QED BY <1>1, <1>2, <1>3, Inductive, PTL DEF Spec, ReopeningKeepsBaseline
=============================================================================
