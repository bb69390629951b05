------------------------- MODULE LocalWrites_proofs -------------------------
(***************************************************************************)
(* The preview protocol of the local server keeps its promises for every   *)
(* number of concurrent calls, changes, sessions, previews kept, retries,  *)
(* changes by others and sign-ins, under each of the 25 write tools.       *)
(*                                                                         *)
(* The inductive invariant says where a call stands in terms of its local  *)
(* variables (CallInv), that the store holds issued previews and lost none *)
(* too early (StoreInv), that a confirmed request has the digest of its    *)
(* preview (SentInv), and that no stored preview has the digest of an      *)
(* earlier request unless it was issued after it (SpentInv).  The last one *)
(* is what makes one approval one write: it is restored by Spend and kept  *)
(* by Issue, whose previews are new.                                       *)
(***************************************************************************)
EXTENDS LocalWrites, FiniteSetTheorems, TLAPS

-----------------------------------------------------------------------------
\* What a read may have answered, and nothing yet.
Answered == (UNION {Values[f] : f \in Fact}) \union {Unread, "missing"}

Contents(t) ==
  [change : Change, camp : Session, token : Session,
   seen : [Handlers[t].shown -> Answered]]

Requests(t) == [preview : Nat, after : Nat, content : Contents(t)]

Locals(t) ==
  [confirm : BOOLEAN, change : Change \union {None}, id : Nat,
   camp : Session \union {None}, left : Seq(SUBSET Fact),
   view : [DOMAIN Handlers[t].needs -> Answered], posts : Nat]

\* A digest, with the tool as a parameter.
DigestOf(t, c) == [c EXCEPT !.seen = [f \in Handlers[t].pinned |-> @[f]]]

\* A call that has its arguments and its context, and has sent nothing.
Ready(c) == c.change \in Change /\ c.camp \in Session /\ c.posts = 0

CallOK(p, c) ==
  /\ p = "reading" => Ready(c) /\ c.left # <<>>
  /\ p = "idle" => c.posts = 0
  /\ c.posts <= 1

WorldInv ==
  /\ tool \in DOMAIN Handlers /\ session \in Session
  /\ world \in [Read -> Answered]
  /\ \A f \in Read : world[f] \in Values[f]

CallInv ==
  /\ pc \in [Slot -> {"idle", "reading", "sent"}]
  /\ local \in [Slot -> Locals(tool)]
  /\ \A s \in Slot : CallOK(pc[s], local[s])

StoreInv ==
  /\ issued \in Seq(Contents(tool))
  /\ store \subseteq DOMAIN issued /\ Cardinality(store) <= MaxStore
  /\ evicted \subseteq DOMAIN issued
  /\ OnlyTheOldestIsEvicted

Backed(r) ==
  /\ r.after <= Len(issued)
  /\ r.preview # 0 =>
       /\ r.preview \in DOMAIN issued
       /\ DigestOf(tool, issued[r.preview]) = DigestOf(tool, r.content)

SentInv ==
  /\ sent \in Seq(Requests(tool))
  /\ \A i \in DOMAIN sent : Backed(sent[i])

SpentInv ==
  \A i \in DOMAIN sent : \A q \in store :
    /\ sent[i].preview # 0
    /\ DigestOf(tool, issued[q]) = DigestOf(tool, sent[i].content)
    => q > sent[i].after

OnceInv ==
  \A i, j \in DOMAIN sent :
    /\ i < j /\ sent[i].preview # 0 /\ sent[j].preview # 0
    /\ DigestOf(tool, sent[i].content) = DigestOf(tool, sent[j].content)
    => sent[j].preview > sent[i].after

IInv == WorldInv /\ CallInv /\ StoreInv /\ SentInv /\ SpentInv /\ OnceInv

-----------------------------------------------------------------------------
(***************************************************************************)
(* Lemmas about the tools.                                                 *)
(***************************************************************************)

WellFormed(h) ==
  /\ h.reads \in Seq(SUBSET Fact)
  /\ DOMAIN h.needs \subseteq Fact
  /\ h.shown \subseteq DOMAIN h.needs

\* All that is shown enters the digest.
Pinned(h) == h.pinned = h.shown

\* The facts by name.
LEMMA FactIs ==
  Fact = {"stay", "money", "detail", "assigned", "guest", "room", "dirt",
          "vacancy", "booking", "closure", "block", "price", "quote",
          "options", "account", "poi", "count", "mapping", "target",
          "rivals", "pulled"}
  BY DEF Fact, Values

\* The domestic tools read facts, show what they read and pin what they show.
LEMMA DomesticTools ==
  \A h \in {CnCheckIn, CnCheckOut, CnCancel, CnArrange, CnExtend, CnCleanState,
            CnClose, CnOpen, CnPrices, CnCreateOrder, CnConnectPoi, CnMapListing} :
    WellFormed(h) /\ Pinned(h)
  <1> USE FactIs DEF WellFormed, Pinned, Previewed
  <1>1. WellFormed(CnCheckIn) /\ Pinned(CnCheckIn)
    BY DEF CnCheckIn
  <1>2. WellFormed(CnCheckOut) /\ Pinned(CnCheckOut)
    BY DEF CnCheckOut
  <1>3. WellFormed(CnCancel) /\ Pinned(CnCancel)
    BY DEF CnCancel
  <1>4. WellFormed(CnArrange) /\ Pinned(CnArrange)
    BY DEF CnArrange
  <1>5. WellFormed(CnExtend) /\ Pinned(CnExtend)
    BY DEF CnExtend
  <1>6. WellFormed(CnCleanState) /\ Pinned(CnCleanState)
    BY DEF CnCleanState
  <1>7. WellFormed(CnClose) /\ Pinned(CnClose)
    BY DEF CnClose, CnAvailability
  <1>8. WellFormed(CnOpen) /\ Pinned(CnOpen)
    BY DEF CnOpen, CnAvailability
  <1>9. WellFormed(CnPrices) /\ Pinned(CnPrices)
    BY DEF CnPrices
  <1>10. WellFormed(CnCreateOrder) /\ Pinned(CnCreateOrder)
    BY DEF CnCreateOrder
  <1>11. WellFormed(CnConnectPoi) /\ Pinned(CnConnectPoi)
    BY DEF CnConnectPoi
  <1>12. WellFormed(CnMapListing) /\ Pinned(CnMapListing)
    BY DEF CnMapListing
  <1> HIDE FactIs DEF WellFormed, Pinned, Previewed
  <1> QED
    BY <1>1, <1>2, <1>3, <1>4, <1>5, <1>6, <1>7, <1>8, <1>9, <1>10, <1>11, <1>12

\* So do the overseas ones, but for the clean state.
LEMMA OverseasTools ==
  /\ WellFormed(OvCleanState)
  /\ \A h \in {OvPrices, OvClose, OvOpen, OvCreateOrder, OvCreateOrderAtFare,
               OvConnectPoi, OvMapListing, OvCheckIn, OvCheckOut, OvExtend,
               OvArrange, OvImport} :
       WellFormed(h) /\ Pinned(h)
  <1> USE FactIs DEF WellFormed, Pinned, Previewed, Direct
  <1>1. WellFormed(OvCleanState)
    BY DEF OvCleanState
  <1>2. WellFormed(OvPrices) /\ Pinned(OvPrices)
    BY DEF OvPrices
  <1>3. WellFormed(OvClose) /\ Pinned(OvClose)
    BY DEF OvClose, OvAvailability
  <1>4. WellFormed(OvOpen) /\ Pinned(OvOpen)
    BY DEF OvOpen, OvAvailability
  <1>5. WellFormed(OvCreateOrder) /\ Pinned(OvCreateOrder)
    BY DEF OvCreateOrder
  <1>6. WellFormed(OvCreateOrderAtFare) /\ Pinned(OvCreateOrderAtFare)
    BY DEF OvCreateOrderAtFare, OvCreateOrder
  <1>7. WellFormed(OvConnectPoi) /\ Pinned(OvConnectPoi)
    BY DEF OvConnectPoi
  <1>8. WellFormed(OvMapListing) /\ Pinned(OvMapListing)
    BY DEF OvMapListing
  <1>9. WellFormed(OvCheckIn) /\ Pinned(OvCheckIn)
    BY DEF OvCheckIn
  <1>10. WellFormed(OvCheckOut) /\ Pinned(OvCheckOut)
    BY DEF OvCheckOut
  <1>11. WellFormed(OvExtend) /\ Pinned(OvExtend)
    BY DEF OvExtend
  <1>12. WellFormed(OvArrange) /\ Pinned(OvArrange)
    BY DEF OvArrange
  <1>13. WellFormed(OvImport) /\ Pinned(OvImport)
    BY DEF OvImport
  <1> HIDE FactIs DEF WellFormed, Pinned, Previewed, Direct
  <1> QED
    BY <1>1, <1>2, <1>3, <1>4, <1>5, <1>6, <1>7, <1>8, <1>9, <1>10, <1>11, <1>12,
       <1>13

\* Every tool of the table.
LEMMA ToolsAreWellFormed ==
  \A t \in DOMAIN Handlers :
    WellFormed(Handlers[t]) /\ (t # "ov_clean" => Pinned(Handlers[t]))
  BY DomesticTools, OverseasTools DEF Handlers

-----------------------------------------------------------------------------
(***************************************************************************)
(* Lemmas about values: digests, the least element, the store.             *)
(***************************************************************************)

\* The digest of the module, for the tool of the behaviour.
LEMMA DigestIs == ASSUME NEW c  PROVE Digest(c) = DigestOf(tool, c)
  BY DEF Digest, DigestOf, Handler

\* What two contents with one digest have in common.
LEMMA SameDigest ==
  ASSUME NEW t \in DOMAIN Handlers, NEW a \in Contents(t), NEW b \in Contents(t),
         DigestOf(t, a) = DigestOf(t, b)
  PROVE  /\ a.change = b.change /\ a.camp = b.camp /\ a.token = b.token
         /\ t # "ov_clean" => a.seen = b.seen
  <1> DEFINE seenOf(c) == [f \in Handlers[t].pinned |-> c.seen[f]]
  <1>1. \A c \in Contents(t) :
          /\ DigestOf(t, c).change = c.change
          /\ DigestOf(t, c).camp = c.camp
          /\ DigestOf(t, c).token = c.token
          /\ DigestOf(t, c).seen = seenOf(c)
    BY DEF DigestOf, Contents
  <1>2. a.change = b.change /\ a.camp = b.camp /\ a.token = b.token
    BY <1>1
  <1>3. ASSUME t # "ov_clean"  PROVE a.seen = b.seen
    <2>1. seenOf(a) = seenOf(b)
      <3> HIDE DEF seenOf
      <3> QED BY <1>1
    <2>2. Handlers[t].pinned = Handlers[t].shown
      BY <1>3, ToolsAreWellFormed DEF Pinned
    <2>3. \A c \in Contents(t) : seenOf(c) = c.seen
      BY <2>2 DEF Contents
    <2> HIDE DEF seenOf
    <2> QED BY <2>1, <2>3
  <1> QED BY <1>2, <1>3

\* A set of numbers that is not empty has a least element.
LEMMA LeastElement ==
  ASSUME NEW S \in SUBSET Nat, S # {}
  PROVE  Min(S) \in S /\ \A x \in S : Min(S) <= x
  <1> DEFINE Below == {0..k : k \in S}
  <1>1. Below \subseteq FiniteSubsetsOf(Nat) /\ Below # {}
    <2>1. \A k \in S : 0..k \in SUBSET Nat /\ IsFiniteSet(0..k)
      BY FS_Interval
    <2> QED BY <2>1 DEF FiniteSubsetsOf
  <1>2. PICK b \in Below :
          \A y \in Below : <<y, b>> \notin StrictSubsetOrdering(Nat)
    <2> HIDE DEF Below
    <2> QED BY <1>1, FS_StrictSubsetOrderingWellFounded, WFMin
  <1>3. PICK m \in S : b = 0..m
    OBVIOUS
  <1>4. ASSUME NEW y \in S, y < m  PROVE FALSE
    <2>1. 0..y \subseteq 0..m /\ m \in 0..m /\ m \notin 0..y
      BY <1>4
    <2>2. 0..y \in SUBSET Nat /\ 0..m \in SUBSET Nat
      OBVIOUS
    <2>3. <<0..y, 0..m>> \in StrictSubsetOrdering(Nat)
      BY <2>1, <2>2 DEF StrictSubsetOrdering
    <2> QED BY <1>2, <1>3, <2>3
  <1>5. \E x \in S : \A y \in S : x =< y
    BY <1>4
  <1> QED BY <1>5 DEF Min

\* The store is a finite set of numbers, the latest the last one issued.
LEMMA StoreFinite ==
  ASSUME StoreInv
  PROVE  /\ store \in SUBSET (1..Len(issued)) /\ Len(issued) \in Nat
         /\ IsFiniteSet(store) /\ Cardinality(store) \in Nat
  <1>1. store \in SUBSET (1..Len(issued)) /\ Len(issued) \in Nat
    BY DEF StoreInv
  <1>2. IsFiniteSet(1..Len(issued))
    BY <1>1, FS_Interval
  <1>3. IsFiniteSet(store)
    BY <1>1, <1>2, FS_Subset
  <1> QED BY <1>1, <1>3, FS_CardinalityType

\* Fewer previews are never too many.
LEMMA SmallerStore ==
  ASSUME StoreInv, NEW T \in SUBSET store
  PROVE  /\ IsFiniteSet(T) /\ Cardinality(T) \in Nat
         /\ Cardinality(T) <= MaxStore
  <1>1. IsFiniteSet(store) /\ Cardinality(store) \in Nat
    BY StoreFinite
  <1>2. IsFiniteSet(T) /\ Cardinality(T) <= Cardinality(store)
    BY <1>1, FS_Subset
  <1>3. Cardinality(T) \in Nat
    BY <1>2, FS_CardinalityType
  <1> QED BY <1>1, <1>2, <1>3, ConstantsOK DEF StoreInv

\* Whoever makes room finds it, and what goes is old enough.
LEMMA MakingRoom ==
  ASSUME StoreInv, NEW kept, kept = IF Full THEN Evict(store) ELSE store
  PROVE  /\ kept \in SUBSET store /\ Cardinality(kept) + 1 <= MaxStore
         /\ \A p \in store \ kept : Len(issued) + 1 - p >= MaxStore
  <1>1. /\ store \in SUBSET (1..Len(issued)) /\ Len(issued) \in Nat
        /\ IsFiniteSet(store) /\ Cardinality(store) \in Nat
        /\ MaxStore \in Nat \ {0} /\ Cardinality(store) <= MaxStore
    BY StoreFinite, ConstantsOK DEF StoreInv
  <1>2. CASE ~Full
    BY <1>1, <1>2 DEF Full
  <1>3. CASE Full
    <2>1. Cardinality(store) >= MaxStore /\ kept = store \ {Min(store)}
      BY <1>3 DEF Full, Evict
    <2>2. store # {}
      BY <1>1, <2>1, FS_EmptySet
    <2>3. PICK m \in store : m = Min(store) /\ \A x \in store : m <= x
      <3>1. store \in SUBSET Nat
        BY <1>1
      <3>2. Min(store) \in store /\ \A x \in store : Min(store) <= x
        BY <2>2, <3>1, LeastElement
      <3> QED BY <3>2
    <2>4. Cardinality(kept) = Cardinality(store) - 1
      BY <1>1, <2>1, <2>3, FS_RemoveElement
    <2>5. m \in Nat /\ m <= Len(issued)
      BY <1>1
    <2>6. Cardinality(store) <= Len(issued) + 1 - m
      <3>1. store \in SUBSET (m..Len(issued))
        BY <1>1, <2>3, <2>5
      <3>2. /\ IsFiniteSet(m..Len(issued))
            /\ Cardinality(m..Len(issued)) = Len(issued) - m + 1
        BY <1>1, <2>5, FS_Interval
      <3>3. Cardinality(store) <= Cardinality(m..Len(issued))
        BY <3>1, <3>2, FS_Subset
      <3>4. Cardinality(store) <= Len(issued) - m + 1
        BY <3>2, <3>3
      <3> QED BY <1>1, <2>5, <3>4
    <2>7. kept \in SUBSET store /\ store \ kept = {m}
      BY <2>1, <2>3
    <2>8. Cardinality(kept) + 1 <= MaxStore
      BY <1>1, <2>4
    <2>9. Len(issued) + 1 - m >= MaxStore
      BY <1>1, <2>1, <2>5, <2>6
    <2> QED BY <2>7, <2>8, <2>9
  <1> QED BY <1>2, <1>3

-----------------------------------------------------------------------------
(***************************************************************************)
(* What the parts of a step do to the invariant.                           *)
(***************************************************************************)

\* An idle place has its type.
LEMMA NoCallType ==
  ASSUME WorldInv
  PROVE  NoCall \in Locals(tool) /\ CallOK("idle", NoCall)
  <1>1. Nothing \in [DOMAIN Handlers[tool].needs -> Answered]
    <2>1. Unread \in Answered
      BY DEF Answered
    <2> QED BY <2>1 DEF Nothing, Read, Handler
  <1>2. <<>> \in Seq(SUBSET Fact)
    OBVIOUS
  <1> QED BY <1>1, <1>2 DEF NoCall, Locals, CallOK

\* A call that ends leaves an idle place.
LEMMA FinishKeepsCalls ==
  ASSUME WorldInv, CallInv, NEW s \in Slot, Finish(s), tool' = tool
  PROVE  CallInv'
  <1>1. NoCall \in Locals(tool) /\ CallOK("idle", NoCall)
    BY NoCallType
  <1>2. pc' = [pc EXCEPT ![s] = "idle"] /\ local' = [local EXCEPT ![s] = NoCall]
    BY DEF Finish, Goto
  <1>3. local' \in [Slot -> Locals(tool)]
    BY <1>1, <1>2 DEF CallInv
  <1>4. \A q \in Slot : CallOK(pc'[q], local'[q])
    BY <1>1, <1>2 DEF CallInv
  <1>5. pc' \in [Slot -> {"idle", "reading", "sent"}]
    BY <1>2 DEF CallInv
  <1> QED BY <1>3, <1>4, <1>5 DEF CallInv

\* A call that goes on reading.
LEMMA ReadingKeepsCalls ==
  ASSUME CallInv, NEW s \in Slot, NEW c \in Locals(tool), Ready(c), c.left # <<>>,
         pc' = [pc EXCEPT ![s] = "reading"], local' = [local EXCEPT ![s] = c],
         tool' = tool
  PROVE  CallInv'
  <1>1. CallOK("reading", c)
    BY DEF CallOK, Ready
  <1>2. local' \in [Slot -> Locals(tool)]
    BY DEF CallInv
  <1>3. \A q \in Slot : CallOK(pc'[q], local'[q])
    BY <1>1 DEF CallInv
  <1>4. pc' \in [Slot -> {"idle", "reading", "sent"}]
    BY DEF CallInv
  <1> QED BY <1>2, <1>3, <1>4 DEF CallInv

\* A call that sends its request has sent one.
LEMMA PostKeepsCalls ==
  ASSUME CallInv, NEW s \in Slot, NEW c \in Locals(tool), Ready(c), NEW p,
         Post(s, c, p), tool' = tool
  PROVE  CallInv'
  <1> DEFINE d == [c EXCEPT !.posts = @ + 1]
  <1>1. d \in Locals(tool) /\ d.posts = 1
    BY DEF Locals, Ready
  <1>2. pc' = [pc EXCEPT ![s] = "sent"] /\ local' = [local EXCEPT ![s] = d]
    BY DEF Post, Goto
  <1> HIDE DEF d
  <1>3. CallOK("sent", d)
    BY <1>1 DEF CallOK
  <1>4. local' \in [Slot -> Locals(tool)]
    BY <1>1, <1>2 DEF CallInv
  <1>5. \A q \in Slot : CallOK(pc'[q], local'[q])
    BY <1>2, <1>3 DEF CallInv
  <1>6. pc' \in [Slot -> {"idle", "reading", "sent"}]
    BY <1>2 DEF CallInv
  <1> QED BY <1>4, <1>5, <1>6 DEF CallInv

\* What a ready call is about.
LEMMA ContentType ==
  ASSUME WorldInv, NEW c \in Locals(tool), Ready(c)
  PROVE  Content(c) \in Contents(tool)
  <1>1. Handlers[tool].shown \subseteq DOMAIN Handlers[tool].needs
    BY ToolsAreWellFormed DEF WorldInv, WellFormed
  <1>2. \A f \in Handlers[tool].shown : c.view[f] \in Answered
    BY <1>1 DEF Locals
  <1>3. [f \in Handlers[tool].shown |-> c.view[f]]
          \in [Handlers[tool].shown -> Answered]
    BY <1>2
  <1> QED BY <1>3 DEF Content, Contents, Ready, WorldInv, Handler

\* A new preview: room is made, and it is later than all that was sent.
LEMMA IssueKeeps ==
  ASSUME IInv, NEW s \in Slot, NEW c \in Locals(tool), Ready(c), Issue(s, c),
         tool' = tool
  PROVE  StoreInv' /\ SentInv' /\ SpentInv' /\ OnceInv'
  <1> DEFINE n == Len(issued) + 1
  <1>0. PICK kept : kept = IF Full THEN Evict(store) ELSE store
    OBVIOUS
  <1>1. /\ issued' = Append(issued, Content(c))
        /\ store' = kept \union {n}
        /\ evicted' = evicted \union (store \ kept)
        /\ sent' = sent
    BY <1>0 DEF Issue
  <1>2. /\ kept \in SUBSET store /\ Cardinality(kept) + 1 <= MaxStore
        /\ \A p \in store \ kept : Len(issued) + 1 - p >= MaxStore
    <2> HIDE DEF n
    <2> QED BY <1>0, MakingRoom DEF IInv
  <1>3. Content(c) \in Contents(tool)
    BY ContentType DEF IInv
  <1>4. /\ issued' \in Seq(Contents(tool)) /\ Len(issued') = n
        /\ DOMAIN issued = 1..Len(issued) /\ DOMAIN issued' = 1..n
        /\ Len(issued) \in Nat
        /\ \A p \in DOMAIN issued : issued'[p] = issued[p]
    BY <1>1, <1>3 DEF IInv, StoreInv
  <1>5. StoreInv'
    <2>1. IsFiniteSet(kept) /\ Cardinality(kept) \in Nat
      BY <1>2, SmallerStore DEF IInv
    <2>2. Cardinality(store') <= Cardinality(kept) + 1
      <3>1. Cardinality(kept \union {n})
              = IF n \in kept THEN Cardinality(kept) ELSE Cardinality(kept) + 1
        BY <2>1, FS_AddElement
      <3> QED BY <1>1, <2>1, <3>1
    <2>3. IsFiniteSet(store') /\ Cardinality(store') \in Nat
      BY <1>1, <2>1, FS_AddElement, FS_CardinalityType
    <2>4. Cardinality(store') <= MaxStore
      BY <1>2, <2>1, <2>2, <2>3, ConstantsOK
    <2>5. store' \subseteq DOMAIN issued'
      BY <1>1, <1>2, <1>4 DEF IInv, StoreInv
    <2>6. evicted' \subseteq DOMAIN issued'
      BY <1>1, <1>4 DEF IInv, StoreInv
    <2>7. \A p \in evicted' : Len(issued') - p >= MaxStore
      <3>1. \A p \in evicted : p \in Nat /\ Len(issued) - p >= MaxStore
        BY <1>4 DEF IInv, StoreInv, OnlyTheOldestIsEvicted
      <3>2. \A p \in evicted : Len(issued) + 1 - p >= MaxStore
        BY <1>4, <3>1, ConstantsOK
      <3>3. \A p \in evicted \union (store \ kept) : Len(issued) + 1 - p >= MaxStore
        BY <1>2, <3>2
      <3>4. Len(issued') = Len(issued) + 1
        BY <1>4
      <3>5. evicted' = evicted \union (store \ kept)
        BY <1>1
      <3>6. \A p \in evicted' : p \in Nat
        BY <1>4, <2>6
      <3>7. \A p \in evicted' : Len(issued) + 1 - p >= MaxStore
        BY <3>3, <3>5
      <3> QED BY <1>4, <3>4, <3>6, <3>7
    <2> QED BY <1>4, <2>4, <2>5, <2>6, <2>7 DEF StoreInv, OnlyTheOldestIsEvicted
  <1>6. \A i \in DOMAIN sent : sent[i] \in Requests(tool) /\ Backed(sent[i])
    BY DEF IInv, SentInv
  <1>7. SentInv'
    <2>1. ASSUME NEW i \in DOMAIN sent  PROVE Backed(sent[i])'
      <3>1. sent[i].after <= Len(issued) /\ sent[i].after \in Nat
        BY <1>6 DEF Backed, Requests
      <3>2. sent[i].after <= n
        BY <1>4, <3>1
      <3>3. sent[i].preview # 0 =>
              /\ sent[i].preview \in DOMAIN issued
              /\ DigestOf(tool, issued[sent[i].preview])
                   = DigestOf(tool, sent[i].content)
        BY <1>6 DEF Backed
      <3>4. sent[i].preview # 0 =>
              /\ sent[i].preview \in DOMAIN issued'
              /\ issued'[sent[i].preview] = issued[sent[i].preview]
        BY <1>4, <3>3
      <3> QED BY <1>1, <1>4, <3>2, <3>3, <3>4 DEF Backed
    <2>2. sent' \in Seq(Requests(tool'))
      BY <1>1 DEF IInv, SentInv
    <2> QED BY <1>1, <2>1, <2>2 DEF SentInv
  <1>8. SpentInv'
    <2>1. ASSUME NEW i \in DOMAIN sent', NEW q \in store', sent'[i].preview # 0,
                 DigestOf(tool', issued'[q]) = DigestOf(tool', sent'[i].content)
          PROVE  q > sent'[i].after
      <3>1. sent'[i] = sent[i] /\ i \in DOMAIN sent
        BY <1>1
      <3>2. CASE q = n
        <4>1. sent[i].after <= Len(issued) /\ sent[i].after \in Nat
          BY <1>6, <3>1 DEF Backed, Requests
        <4> QED BY <1>4, <3>1, <3>2, <4>1
      <3>3. CASE q # n
        <4>1. q \in store /\ q \in DOMAIN issued
          BY <1>1, <1>2, <3>3 DEF IInv, StoreInv
        <4>2. DigestOf(tool, issued[q]) = DigestOf(tool, sent[i].content)
          BY <1>4, <2>1, <3>1, <4>1
        <4> QED BY <2>1, <3>1, <4>1, <4>2 DEF IInv, SpentInv
      <3> QED BY <3>2, <3>3
    <2> QED BY <2>1 DEF SpentInv
  <1>9. OnceInv'
    BY <1>1 DEF IInv, OnceInv
  <1> QED BY <1>5, <1>7, <1>8, <1>9

\* A request that is backed joins the others.
LEMMA RequestJoins ==
  ASSUME SentInv, NEW r \in Requests(tool), Backed(r),
         sent' = Append(sent, r), tool' = tool, issued' = issued
  PROVE  /\ SentInv'
         /\ \A i \in DOMAIN sent' :
              \/ i = Len(sent) + 1 /\ sent'[i] = r
              \/ i \in DOMAIN sent /\ i <= Len(sent) /\ sent'[i] = sent[i]
  <1>1. sent' \in Seq(Requests(tool')) /\ Len(sent) \in Nat
    BY DEF SentInv
  <1>2. \A i \in DOMAIN sent' :
          \/ i = Len(sent) + 1 /\ sent'[i] = r
          \/ i \in DOMAIN sent /\ i <= Len(sent) /\ sent'[i] = sent[i]
    BY DEF SentInv
  <1>3. ASSUME NEW i \in DOMAIN sent'  PROVE Backed(sent[i])'
    <2>1. PICK q : q = sent'[i] /\ Backed(q)
      BY <1>2 DEF SentInv
    <2>2. Backed(q)' <=> Backed(q)
      BY DEF Backed
    <2> QED BY <2>1, <2>2 DEF Backed
  <1> QED BY <1>1, <1>2, <1>3 DEF SentInv

\* A request of a tool without stored previews.
LEMMA DirectPostKeeps ==
  ASSUME IInv, NEW s \in Slot, NEW c \in Locals(tool), Ready(c), Post(s, c, 0),
         UNCHANGED <<tool, store, issued, evicted, session>>
  PROVE  StoreInv' /\ SentInv' /\ SpentInv' /\ OnceInv'
  <1> DEFINE r == [preview |-> 0, after |-> Len(issued), content |-> Content(c)]
  <1>1. r \in Requests(tool) /\ Backed(r) /\ r.preview = 0
    BY ContentType DEF IInv, StoreInv, Requests, Backed
  <1>2. sent' = Append(sent, r)
    BY DEF Post
  <1> HIDE DEF r
  <1>3. /\ SentInv'
        /\ \A i \in DOMAIN sent' :
             \/ sent'[i].preview = 0
             \/ i \in DOMAIN sent /\ sent'[i] = sent[i]
    BY <1>1, <1>2, RequestJoins DEF IInv
  <1>4. SpentInv'
    BY <1>3 DEF IInv, SpentInv
  <1>5. OnceInv'
    BY <1>3 DEF IInv, OnceInv
  <1>6. StoreInv'
    BY DEF IInv, StoreInv, OnlyTheOldestIsEvicted
  <1> QED BY <1>3, <1>4, <1>5, <1>6

\* A confirmed request: its preview is later than any request of its digest,
\* and what is left in the store has another digest.
LEMMA ExecuteKeeps ==
  ASSUME IInv, NEW s \in Slot, NEW c \in Locals(tool), Ready(c),
         c.id \in store, Digest(issued[c.id]) = Digest(Content(c)),
         store' = Spend(store, c.id), Post(s, c, c.id),
         UNCHANGED <<tool, issued, evicted, session>>
  PROVE  StoreInv' /\ SentInv' /\ SpentInv' /\ OnceInv'
  <1> DEFINE r == [preview |-> c.id, after |-> Len(issued), content |-> Content(c)]
  <1>1. c.id \in DOMAIN issued /\ c.id \in Nat /\ c.id # 0 /\ Len(issued) \in Nat
    BY DEF IInv, StoreInv
  <1>2. DigestOf(tool, issued[c.id]) = DigestOf(tool, Content(c))
    BY DigestIs
  <1>3. r \in Requests(tool) /\ Backed(r)
    BY <1>1, <1>2, ContentType DEF IInv, Requests, Backed
  <1>4. r.preview = c.id /\ r.after = Len(issued) /\ r.content = Content(c)
    OBVIOUS
  <1>5. sent' = Append(sent, r)
    BY DEF Post
  <1> HIDE DEF r
  <1>6. /\ SentInv'
        /\ \A i \in DOMAIN sent' :
             \/ i = Len(sent) + 1 /\ sent'[i] = r
             \/ i \in DOMAIN sent /\ i <= Len(sent) /\ sent'[i] = sent[i]
    BY <1>3, <1>5, RequestJoins DEF IInv
  <1>7. store' \in SUBSET store
    BY DEF Spend
  <1>8. StoreInv'
    <2>1. Cardinality(store') <= MaxStore
      BY <1>7, SmallerStore DEF IInv
    <2> QED BY <1>7, <2>1 DEF IInv, StoreInv, OnlyTheOldestIsEvicted
  <1>9. \A q \in store' : DigestOf(tool, issued[q]) # DigestOf(tool, r.content)
    BY <1>2, <1>4, DigestIs DEF Spend
  <1>10. SpentInv'
    <2>1. ASSUME NEW i \in DOMAIN sent', NEW q \in store', sent'[i].preview # 0,
                 DigestOf(tool', issued'[q]) = DigestOf(tool', sent'[i].content)
          PROVE  q > sent'[i].after
      <3>1. sent'[i] # r
        BY <1>9, <2>1
      <3> QED BY <1>6, <1>7, <2>1, <3>1 DEF IInv, SpentInv
    <2> QED BY <2>1 DEF SpentInv
  <1>11. OnceInv'
    <2>1. ASSUME NEW i \in DOMAIN sent', NEW j \in DOMAIN sent', i < j,
                 sent'[i].preview # 0, sent'[j].preview # 0,
                 DigestOf(tool', sent'[i].content) = DigestOf(tool', sent'[j].content)
          PROVE  sent'[j].preview > sent'[i].after
      <3>1. Len(sent) \in Nat /\ i \in Nat /\ j \in Nat /\ j <= Len(sent) + 1
        BY <1>6 DEF IInv, SentInv
      <3>2. i \in DOMAIN sent /\ sent'[i] = sent[i]
        BY <1>6, <2>1, <3>1
      <3>3. CASE sent'[j] = r
        <4>1. DigestOf(tool, issued[c.id]) = DigestOf(tool, sent[i].content)
          BY <1>2, <1>4, <2>1, <3>2, <3>3
        <4> QED BY <1>4, <2>1, <3>2, <3>3, <4>1 DEF IInv, SpentInv
      <3>4. CASE sent'[j] # r
        BY <1>6, <2>1, <3>2, <3>4 DEF IInv, OnceInv
      <3> QED BY <3>3, <3>4
    <2> QED BY <2>1 DEF OnceInv
  <1> QED BY <1>6, <1>8, <1>10, <1>11

-----------------------------------------------------------------------------
(***************************************************************************)
(* The actions.                                                            *)
(***************************************************************************)

\* What stands still keeps its part of the invariant.
LEMMA WorldStands ==
  ASSUME WorldInv, UNCHANGED <<tool, world, session>>
  PROVE  WorldInv'
  BY DEF WorldInv, Read, Handler

\* Nothing stored, issued or sent has changed.
LEMMA StoreStands ==
  ASSUME IInv, UNCHANGED <<tool, store, history>>
  PROVE  StoreInv' /\ SentInv' /\ SpentInv' /\ OnceInv'
  <1>1. UNCHANGED <<issued, evicted, sent>>
    BY DEF history
  <1>2. StoreInv' /\ SpentInv' /\ OnceInv'
    BY <1>1 DEF IInv, StoreInv, OnlyTheOldestIsEvicted, SpentInv, OnceInv
  <1>3. SentInv'
    BY <1>1 DEF IInv, SentInv, Backed
  <1> QED BY <1>2, <1>3

\* A call that ends and keeps nothing.
LEMMA EndKeeps ==
  ASSUME IInv, NEW s \in Slot, Finish(s),
         UNCHANGED <<tool, world, session, store, history>>
  PROVE  IInv'
  BY WorldStands, FinishKeepsCalls, StoreStands DEF IInv

\* The end of previewOrExecute, or of a direct write.
LEMMA DecideKeeps ==
  ASSUME IInv, NEW s \in Slot, NEW c \in Locals(tool), Ready(c), Decide(s, c),
         UNCHANGED <<tool, world, session>>
  PROVE  IInv'
  <1>1. WorldInv'
    BY WorldStands DEF IInv
  <1>2. CASE WriteDirectly(s, c)
    <2>1. UNCHANGED <<store, issued, evicted>>
      BY <1>2 DEF WriteDirectly
    <2>2. CASE Post(s, c, 0)
      <3>1. CallInv'
        BY <2>2, PostKeepsCalls DEF IInv
      <3> QED BY <1>1, <2>1, <2>2, <3>1, DirectPostKeeps DEF IInv
    <2>3. CASE Finish(s) /\ UNCHANGED sent
      BY <2>1, <2>3, EndKeeps DEF history
    <2> QED BY <1>2, <2>2, <2>3 DEF WriteDirectly
  <1>3. CASE Issue(s, c)
    <2>1. CallInv'
      BY <1>3, FinishKeepsCalls DEF IInv, Issue
    <2> QED BY <1>1, <1>3, <2>1, IssueKeeps DEF IInv
  <1>4. CASE Execute(s, c)
    <2>1. CASE c.id \in store /\ Digest(issued[c.id]) = Digest(Content(c))
      <3>1. /\ store' = Spend(store, c.id) /\ Post(s, c, c.id)
            /\ UNCHANGED <<issued, evicted>>
        BY <1>4, <2>1 DEF Execute
      <3>2. CallInv'
        BY <3>1, PostKeepsCalls DEF IInv
      <3> QED BY <1>1, <2>1, <3>1, <3>2, ExecuteKeeps DEF IInv
    <2>2. CASE ~(c.id \in store /\ Digest(issued[c.id]) = Digest(Content(c)))
      <3>1. Finish(s) /\ UNCHANGED <<store, history>>
        BY <1>4, <2>2 DEF Execute
      <3> QED BY <3>1, EndKeeps
    <2> QED BY <2>1, <2>2
  <1> QED BY <1>2, <1>3, <1>4 DEF Decide

\* A call begins.
LEMMA BeginKeeps ==
  ASSUME IInv, NEW s \in Slot, NEW confirm \in BOOLEAN, NEW x \in Change,
         NEW p \in Nat, Begin(s, confirm, x, p)
  PROVE  IInv'
  <1>1. PICK c : c = [NoCall EXCEPT !.confirm = confirm, !.change = x, !.id = p,
                                    !.camp = session, !.left = Handler.reads]
    OBVIOUS
  <1>2. /\ IF c.left = <<>> THEN Decide(s, c)
           ELSE /\ Goto(s, "reading") /\ local' = [local EXCEPT ![s] = c]
                /\ UNCHANGED <<store, history>>
        /\ UNCHANGED <<tool, world, session>>
    BY <1>1 DEF Begin
  <1>3. c \in Locals(tool) /\ Ready(c)
    <2>1. NoCall \in Locals(tool) /\ NoCall.posts = 0
      BY NoCallType DEF IInv, NoCall
    <2>2. Handler.reads \in Seq(SUBSET Fact) /\ session \in Session
      BY ToolsAreWellFormed DEF IInv, WorldInv, WellFormed, Handler
    <2> QED BY <1>1, <2>1, <2>2 DEF Locals, Ready
  <1>4. CASE c.left = <<>>
    <2>1. Decide(s, c)
      BY <1>2, <1>4
    <2> QED BY <1>2, <1>3, <2>1, DecideKeeps
  <1>5. CASE c.left # <<>>
    <2>1. /\ pc' = [pc EXCEPT ![s] = "reading"] /\ local' = [local EXCEPT ![s] = c]
          /\ UNCHANGED <<store, history>>
      BY <1>2, <1>5 DEF Goto
    <2>2. CallInv'
      BY <1>2, <1>3, <1>5, <2>1, ReadingKeepsCalls DEF IInv
    <2> QED BY <1>2, <2>1, <2>2, WorldStands, StoreStands DEF IInv
  <1> QED BY <1>4, <1>5

\* After an answer, or after a failed read that can be done without: the call
\* reads on, or decides.
LEMMA AnswerKeeps ==
  ASSUME IInv, NEW s \in Slot, pc[s] = "reading",
         NEW view \in [DOMAIN Handlers[tool].needs -> Answered],
         NEW c, c = [local[s] EXCEPT !.left = Tail(@), !.view = view],
         \/ /\ c.left # <<>> /\ local' = [local EXCEPT ![s] = c]
            /\ UNCHANGED <<pc, store, history>>
         \/ c.left = <<>> /\ Decide(s, c),
         UNCHANGED <<tool, world, session>>
  PROVE  IInv'
  <1>1. local[s] \in Locals(tool) /\ Ready(local[s]) /\ local[s].left # <<>>
    BY DEF IInv, CallInv, CallOK
  <1>2. Tail(local[s].left) \in Seq(SUBSET Fact)
    BY <1>1 DEF Locals
  <1>3. c \in Locals(tool) /\ Ready(c)
    BY <1>1, <1>2 DEF Locals, Ready
  <1>4. CASE c.left # <<>> /\ local' = [local EXCEPT ![s] = c]
             /\ UNCHANGED <<pc, store, history>>
    <2>1. pc' = [pc EXCEPT ![s] = "reading"]
      BY <1>4 DEF IInv, CallInv
    <2>2. CallInv'
      BY <1>3, <1>4, <2>1, ReadingKeepsCalls DEF IInv
    <2> QED BY <1>4, <2>2, WorldStands, StoreStands DEF IInv
  <1>5. CASE c.left = <<>> /\ Decide(s, c)
    BY <1>3, <1>5, DecideKeeps
  <1> QED BY <1>4, <1>5

\* An answer arrives.
LEMMA ReadNextKeeps ==
  ASSUME IInv, NEW s \in Slot, ReadNext(s)
  PROVE  IInv'
  <1> DEFINE facts == Head(local[s].left)
             view  == [f \in Read |->
                         IF f \in facts THEN world[f] ELSE local[s].view[f]]
             c     == [local[s] EXCEPT !.left = Tail(@), !.view = view]
  <1>1. pc[s] = "reading" /\ UNCHANGED <<tool, world, session>>
    BY DEF ReadNext
  <1>2. local[s] \in Locals(tool)
    BY DEF IInv, CallInv
  <1>3. view \in [DOMAIN Handlers[tool].needs -> Answered]
    <2>1. \A f \in Read : world[f] \in Answered /\ local[s].view[f] \in Answered
      BY <1>2 DEF IInv, WorldInv, Locals, Read, Handler
    <2> QED BY <2>1 DEF Read, Handler
  <1>4. c = [local[s] EXCEPT !.left = Tail(@),
                             !.view = [f \in Read |->
                                         IF f \in facts THEN world[f] ELSE @[f]]]
    BY <1>2 DEF Locals
  <1>5. \/ Finish(s) /\ UNCHANGED <<store, history>>
        \/ /\ c.left # <<>> /\ local' = [local EXCEPT ![s] = c]
           /\ UNCHANGED <<pc, store, history>>
        \/ c.left = <<>> /\ Decide(s, c)
    BY <1>4 DEF ReadNext
  <1>6. PICK v : v = view
    OBVIOUS
  <1>7. PICK d : d = c
    OBVIOUS
  <1>8. d = [local[s] EXCEPT !.left = Tail(@), !.view = v]
    BY <1>6, <1>7
  <1> HIDE DEF view, c
  <1> QED BY <1>1, <1>3, <1>5, <1>6, <1>7, <1>8, EndKeeps, AnswerKeeps

\* A read fails.
LEMMA ReadFailsKeeps ==
  ASSUME IInv, NEW s \in Slot, ReadFails(s)
  PROVE  IInv'
  <1> DEFINE facts == Head(local[s].left)
             view  == [f \in Read |->
                         IF f \in facts THEN "missing" ELSE local[s].view[f]]
             c     == [local[s] EXCEPT !.left = Tail(@), !.view = view]
  <1>1. pc[s] = "reading" /\ UNCHANGED <<tool, world, session>>
    BY DEF ReadFails
  <1>2. local[s] \in Locals(tool)
    BY DEF IInv, CallInv
  <1>3. view \in [DOMAIN Handlers[tool].needs -> Answered]
    <2>1. "missing" \in Answered
      BY DEF Answered
    <2>2. \A f \in Read : local[s].view[f] \in Answered
      BY <1>2 DEF Locals, Read, Handler
    <2> QED BY <2>1, <2>2 DEF Read, Handler
  <1>4. c = [local[s] EXCEPT !.left = Tail(@),
                             !.view = [f \in Read |->
                                         IF f \in facts THEN "missing" ELSE @[f]]]
    BY <1>2 DEF Locals
  <1>5. \/ Finish(s) /\ UNCHANGED <<store, history>>
        \/ /\ c.left # <<>> /\ local' = [local EXCEPT ![s] = c]
           /\ UNCHANGED <<pc, store, history>>
        \/ c.left = <<>> /\ Decide(s, c)
    BY <1>4 DEF ReadFails
  <1>6. PICK v : v = view
    OBVIOUS
  <1>7. PICK d : d = c
    OBVIOUS
  <1>8. d = [local[s] EXCEPT !.left = Tail(@), !.view = v]
    BY <1>6, <1>7
  <1> HIDE DEF view, c
  <1> QED BY <1>1, <1>3, <1>5, <1>6, <1>7, <1>8, EndKeeps, AnswerKeeps

\* A failed write is not sent again: the retry handler never sees an error it
\* would retry.
LEMMA WriteFailsKeeps ==
  ASSUME IInv, NEW s \in Slot, WriteFails(s)
  PROVE  IInv'
  <1>1. ~Retryable(HandleError)
    BY DEF Retryable, HandleError
  <1>2. Finish(s) /\ UNCHANGED <<tool, world, session, store, history>>
    BY <1>1 DEF WriteFails, history
  <1> QED BY <1>2, EndKeeps

\* A preview expires.
LEMMA ExpireKeeps ==
  ASSUME IInv, Expire
  PROVE  IInv'
  <1>1. /\ store' \in SUBSET store
        /\ UNCHANGED <<tool, world, session, history, pc, local>>
    BY DEF Expire
  <1>2. UNCHANGED <<issued, evicted, sent>>
    BY <1>1 DEF history
  <1>3. Cardinality(store') <= MaxStore
    BY <1>1, SmallerStore DEF IInv
  <1>4. StoreInv'
    BY <1>1, <1>2, <1>3 DEF IInv, StoreInv, OnlyTheOldestIsEvicted
  <1>5. SpentInv' /\ OnceInv'
    BY <1>1, <1>2 DEF IInv, SpentInv, OnceInv
  <1>6. SentInv'
    BY <1>1, <1>2 DEF IInv, SentInv, Backed
  <1>7. WorldInv' /\ CallInv'
    BY <1>1, WorldStands DEF IInv, CallInv
  <1> QED BY <1>4, <1>5, <1>6, <1>7 DEF IInv

\* Others change what the tool reads, or another call signs in.
LEMMA SurroundingsKeep ==
  ASSUME IInv, WorldMoves \/ SignInElsewhere
  PROVE  IInv'
  <1>1. UNCHANGED <<tool, store, history, pc, local>>
    BY DEF WorldMoves, SignInElsewhere
  <1>2. CallInv'
    BY <1>1 DEF IInv, CallInv
  <1>3. WorldInv'
    <2>1. CASE SignInElsewhere
      BY <2>1 DEF IInv, WorldInv, SignInElsewhere, Read, Handler
    <2>2. CASE WorldMoves
      <3>1. PICK f \in Read, v \in UNION {Values[g] : g \in Read} :
              v \in Values[f] /\ world' = [world EXCEPT ![f] = v]
        BY <2>2 DEF WorldMoves
      <3>2. tool' = tool /\ session' = session
        BY <2>2 DEF WorldMoves
      <3>3. DOMAIN Handlers[tool].needs \subseteq Fact
        BY ToolsAreWellFormed DEF IInv, WorldInv, WellFormed
      <3>4. v \in Answered
        BY <3>1, <3>3 DEF Answered, Read, Handler
      <3>5. world' \in [Read -> Answered] /\ \A g \in Read : world'[g] \in Values[g]
        BY <3>1, <3>4 DEF IInv, WorldInv
      <3> QED BY <3>2, <3>5 DEF IInv, WorldInv, Read, Handler
    <2> QED BY <2>1, <2>2
  <1> QED BY <1>1, <1>2, <1>3, StoreStands DEF IInv

-----------------------------------------------------------------------------
(***************************************************************************)
(* The theorems.                                                           *)
(***************************************************************************)

\* In the initial states the invariant holds.
LEMMA InitKeeps == Init => IInv
  <1> SUFFICES ASSUME Init  PROVE IInv
    OBVIOUS
  <1>1. /\ tool \in DOMAIN Handlers /\ session \in Session
        /\ store = {} /\ issued = <<>> /\ evicted = {} /\ sent = <<>>
        /\ pc = [s \in Slot |-> "idle"] /\ local = [s \in Slot |-> NoCall]
    BY DEF Init
  <1>2. /\ world \in [Read -> UNION {Values[f] : f \in Read}]
        /\ \A f \in Read : world[f] \in Values[f]
    BY DEF Init
  <1>3. WorldInv
    <2>1. DOMAIN Handlers[tool].needs \subseteq Fact
      BY <1>1, ToolsAreWellFormed DEF WellFormed
    <2>2. \A f \in Read : Values[f] \subseteq Answered
      BY <2>1 DEF Answered, Read, Handler
    <2>3. world \in [Read -> Answered]
      BY <1>2, <2>2
    <2> QED BY <1>1, <1>2, <2>3 DEF WorldInv
  <1>4. CallInv
    <2>1. NoCall \in Locals(tool) /\ CallOK("idle", NoCall)
      BY <1>3, NoCallType
    <2> QED BY <1>1, <2>1 DEF CallInv
  <1>5. StoreInv
    <2>1. Cardinality(store) <= MaxStore
      BY <1>1, FS_EmptySet, ConstantsOK
    <2> QED BY <1>1, <2>1 DEF StoreInv, OnlyTheOldestIsEvicted
  <1>6. SentInv /\ SpentInv /\ OnceInv
    BY <1>1 DEF SentInv, SpentInv, OnceInv
  <1> QED BY <1>3, <1>4, <1>5, <1>6 DEF IInv

\* The invariant is inductive.
THEOREM Inductive == Spec => []IInv
  <1>1. IInv /\ [Next]_vars => IInv'
    <2> SUFFICES ASSUME IInv, [Next]_vars  PROVE IInv'
      OBVIOUS
    <2>1. ASSUME NEW s \in Slot, Call(s)  PROVE IInv'
      <3>1. PICK x \in Change :
              \/ Begin(s, FALSE, x, 0)
              \/ \E p \in DOMAIN issued : Begin(s, TRUE, x, p)
              \/ Begin(s, TRUE, x, 0)
        BY <2>1 DEF Call
      <3>2. \A p \in DOMAIN issued : p \in Nat
        BY DEF IInv, StoreInv
      <3> QED BY <3>1, <3>2, BeginKeeps
    <2>2. ASSUME NEW s \in Slot, WriteAnswered(s)  PROVE IInv'
      BY <2>2, EndKeeps DEF WriteAnswered
    <2>3. CASE UNCHANGED vars
      <3>1. UNCHANGED <<tool, world, session, store, history, pc, local>>
        BY <2>3 DEF vars
      <3>2. CallInv'
        BY <3>1 DEF IInv, CallInv
      <3> QED BY <3>1, <3>2, WorldStands, StoreStands DEF IInv
    <2> QED
      BY <2>1, <2>2, <2>3, ReadNextKeeps, ReadFailsKeeps, WriteFailsKeeps,
         ExpireKeeps, SurroundingsKeep
      DEF Next
  <1> QED BY InitKeeps, <1>1, PTL DEF Spec

\* Every variable keeps its type, and the store its bound: at most MaxStore
\* previews, all of them issued.
THEOREM LocalWritesTypes == Spec => []TypeOK
  <1>1. IInv => TypeOK
    BY DEF IInv, WorldInv, CallInv, StoreInv, TypeOK, Locals, Views, Answered, Read,
           Handler
  <1> QED BY <1>1, Inductive, PTL

\* One approval is one write, however confirms of one preview, or of two
\* previews of one change, overlap.
THEOREM ApprovalsAreSpent == Spec => []OneApprovalOneWrite
  <1>1. IInv => OneApprovalOneWrite
    BY DigestIs DEF IInv, OnceInv, OneApprovalOneWrite, Confirmed
  <1> QED BY <1>1, Inductive, PTL

\* What is sent with a preview is what that preview showed.
THEOREM WhatIsShownIsSent == Spec => []SentAsApproved
  <1>1. ASSUME IInv, NEW i \in Confirmed
        PROVE  /\ sent[i].content.change = issued[sent[i].preview].change
               /\ sent[i].content.camp = issued[sent[i].preview].camp
               /\ sent[i].content.token = issued[sent[i].preview].token
               /\ tool # "ov_clean" =>
                    sent[i].content.seen = issued[sent[i].preview].seen
    <2>1. /\ i \in DOMAIN sent /\ sent[i] \in Requests(tool)
          /\ sent[i].preview \in DOMAIN issued
          /\ DigestOf(tool, issued[sent[i].preview]) = DigestOf(tool, sent[i].content)
      BY <1>1 DEF IInv, SentInv, Backed, Confirmed
    <2>2. /\ issued[sent[i].preview] \in Contents(tool)
          /\ sent[i].content \in Contents(tool)
      BY <1>1, <2>1 DEF IInv, StoreInv, Requests
    <2>3. tool \in DOMAIN Handlers
      BY <1>1 DEF IInv, WorldInv
    <2> QED BY <2>1, <2>2, <2>3, SameDigest
  <1>2. IInv => SentAsApproved
    BY <1>1 DEF SentAsApproved
  <1> QED BY <1>2, Inductive, PTL

\* A call sends its request once, whatever fails.
THEOREM OneRequestInACall == Spec => []DirectWriteIsSentOnce
  <1>1. IInv => DirectWriteIsSentOnce
    BY DEF IInv, CallInv, CallOK, DirectWriteIsSentOnce
  <1> QED BY <1>1, Inductive, PTL

\* A preview stays while fewer than MaxStore later ones have been issued,
\* unless it is used or expires.
THEOREM EvictionIsFair == Spec => []OnlyTheOldestIsEvicted
  <1>1. IInv => OnlyTheOldestIsEvicted
    BY DEF IInv, StoreInv
  <1> QED BY <1>1, Inductive, PTL
=============================================================================
