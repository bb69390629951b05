------------------------------ MODULE LocalWrites ------------------------------
(***************************************************************************)
(* Writes through the local server.  A handler reads what it needs from    *)
(* Hudson, refuses what it must, and ends in previewOrExecute, which either*)
(* stores the digest of a preview or compares a confirmed call with a      *)
(* stored one and sends the request; five older overseas tools send it     *)
(* whenever they are called with confirm.                                  *)
(*                                                                         *)
(* A Slot holds one running call; each awaited answer begins a step.  One  *)
(* tool is used in a behaviour: the digest names the tool, so previews of  *)
(* different tools have nothing to do with each other.  Between any two    *)
(* steps other people change what the handler reads, and a sign-in may     *)
(* replace the session.                                                    *)
(*                                                                         *)
(* Abstracted: a change is what the arguments ask for; a session is a      *)
(* property with its App Secret, so that a property and a token are each   *)
(* the name of a session; the digest is the record it is computed from;    *)
(* currency and time zone are the property's.  The read-back after a write *)
(* keeps nothing and its failure changes nothing.  An expired preview is   *)
(* gone at once: every use of the store first deletes the expired ones.    *)
(***************************************************************************)
EXTENDS LocalHandlers, FiniteSets, FiniteSetsExt

CONSTANTS
  Slot,        \* calls that can be running at once
  Change,      \* what a call may ask for
  Session,     \* signed-in sessions
  None,        \* of no session
  MaxStore,    \* previews kept (100 in the code)
  MaxRetries,  \* of the retry handler
  MaxCalls,    \* bound: calls in one behaviour
  MaxMoves,    \* bound: changes by others
  MaxSignIns   \* bound: sign-ins

ASSUME ConstantsOK ==
  /\ None \notin Session \union Change
  /\ MaxStore \in Nat \ {0}
  /\ MaxRetries \in Nat /\ MaxCalls \in Nat /\ MaxMoves \in Nat
  /\ MaxSignIns \in Nat

\* The tools by name: LocalHandlers says what each one is.
Handlers ==
  [cn_check_in |-> CnCheckIn, cn_check_out |-> CnCheckOut,
   cn_cancel |-> CnCancel, cn_arrange |-> CnArrange, cn_extend |-> CnExtend,
   cn_clean |-> CnCleanState, cn_close |-> CnClose, cn_open |-> CnOpen,
   cn_prices |-> CnPrices, cn_order |-> CnCreateOrder,
   cn_connect |-> CnConnectPoi, cn_map |-> CnMapListing,
   ov_prices |-> OvPrices, ov_close |-> OvClose, ov_open |-> OvOpen,
   ov_order |-> OvCreateOrder, ov_order_at |-> OvCreateOrderAtFare,
   ov_clean |-> OvCleanState, ov_connect |-> OvConnectPoi,
   ov_map |-> OvMapListing, ov_check_in |-> OvCheckIn,
   ov_check_out |-> OvCheckOut, ov_extend |-> OvExtend,
   ov_arrange |-> OvArrange, ov_import |-> OvImport]

VARIABLES
  tool,     \* the tool of this behaviour
  world,    \* what Hudson would answer, for each fact the tool reads
  session,  \* the session in force
  store,    \* the preview store: numbers tell the order of insertion
  issued,   \* history: every preview issued, its number its previewId
  evicted,  \* history: the previews that were evicted
  sent,     \* history: every write request sent
  pc,       \* where each call stands
  local,    \* its local variables
  calls,    \* calls so far, for MaxCalls
  moves,    \* changes by others so far, for MaxMoves
  signIns   \* sign-ins so far, for MaxSignIns

history == <<issued, evicted, sent>>
vars == <<tool, world, session, store, history, pc, local, calls, moves, signIns>>

Handler == Handlers[tool]
Read    == DOMAIN Handler.needs
Unread  == "unread"
Nothing == [f \in Read |-> Unread]

Views == [Read -> (UNION {Values[f] : f \in Fact}) \union {Unread, "missing"}]

NoCall ==
  [confirm |-> FALSE, change |-> None, id |-> 0,
   camp |-> None, left |-> <<>>, view |-> Nothing,
   posts |-> 0]

\* At first the change could go through: others may see to it that it cannot.
Init ==
  /\ tool \in DOMAIN Handlers
  /\ world \in {w \in [Read -> UNION {Values[f] : f \in Read}] :
                  \A f \in Read : w[f] \in Values[f] \intersect Handler.needs[f]}
  /\ session \in Session
  /\ store = {} /\ issued = <<>> /\ evicted = {} /\ sent = <<>>
  /\ pc = [s \in Slot |-> "idle"] /\ local = [s \in Slot |-> NoCall]
  /\ calls = 0 /\ moves = 0 /\ signIns = 0

-----------------------------------------------------------------------------
(***************************************************************************)
(* The digest and the store.  A slip is a definition as a plausible bug    *)
(* would have it; no action uses one.                                      *)
(***************************************************************************)

\* What a call is about, with what it showed the user.
Content(c) ==
  [change |-> c.change, camp |-> c.camp, token |-> session,
   seen |-> [f \in Handler.shown |-> c.view[f]]]

SlipDigestOfRequest(c) == [c EXCEPT !.seen = <<>>]

SlipDigestWithoutToken(c) ==
  [change |-> c.change, camp |-> c.camp,
   seen |-> [f \in Handler.pinned |-> c.seen[f]]]

\* The digest is taken over the snapshot, the arguments, the property of the
\* call and the token of the moment.
Digest(c) == [c EXCEPT !.seen = [f \in Handler.pinned |-> @[f]]]

SlipFull == Cardinality(store) > MaxStore

\* previews.size has reached MAX_PREVIEWS.
Full == Cardinality(store) >= MaxStore

SlipEvict(s) == s \ {Max(s)}

\* A full store loses its oldest preview.
Evict(s) == s \ {Min(s)}

SlipSpend(s, p) == s \ {p}

\* A confirmed preview goes, with every other one of the same digest.
Spend(s, p) == {q \in s : Digest(issued[q]) # Digest(issued[p])}

-----------------------------------------------------------------------------

Goto(s, p) == pc' = [pc EXCEPT ![s] = p]
Finish(s) ==
  /\ Goto(s, "idle")
  /\ local' = [local EXCEPT ![s] = NoCall]

\* The request is on its way.  after is the number of previews issued so far.
Post(s, c, p) ==
  /\ sent' = Append(sent, [preview |-> p, after |-> Len(issued),
                           content |-> Content(c)])
  /\ Goto(s, "sent")
  /\ local' = [local EXCEPT ![s] = [c EXCEPT !.posts = @ + 1]]

\* previewOrExecute without confirm.
Issue(s, c) ==
  LET kept == IF Full THEN Evict(store) ELSE store
  IN /\ issued' = Append(issued, Content(c))
     /\ store' = kept \union {Len(issued) + 1}
     /\ evicted' = evicted \union (store \ kept)
     /\ Finish(s)
     /\ UNCHANGED sent

\* previewOrExecute with confirm: the preview must be stored and agree.
Execute(s, c) ==
  IF c.id \in store /\ Digest(issued[c.id]) = Digest(Content(c))
  THEN /\ store' = Spend(store, c.id)
       /\ Post(s, c, c.id)
       /\ UNCHANGED <<issued, evicted>>
  ELSE Finish(s) /\ UNCHANGED <<store, history>>

\* A tool without stored previews: text, or the request once the booking is
\* identified.
WriteDirectly(s, c) ==
  /\ IF c.confirm /\ \A f \in Read : c.view[f] \in Handler.needs[f] \union {Unread}
     THEN Post(s, c, 0)
     ELSE Finish(s) /\ UNCHANGED sent
  /\ UNCHANGED <<store, issued, evicted>>

\* What follows the last read without an await.
Decide(s, c) ==
  \/ Handler.direct /\ WriteDirectly(s, c)
  \/ ~Handler.direct /\ ~c.confirm /\ Issue(s, c)
  \/ ~Handler.direct /\ c.confirm /\ Execute(s, c)

-----------------------------------------------------------------------------
(***************************************************************************)
(* A call: its arguments and context, its reads, its write.                *)
(***************************************************************************)

Begin(s, confirm, change, p) ==
  /\ pc[s] = "idle" /\ calls < MaxCalls
  /\ LET c == [NoCall EXCEPT !.confirm = confirm, !.change = change, !.id = p,
                             !.camp = session, !.left = Handler.reads]
     IN IF c.left = <<>>
        THEN Decide(s, c)
        ELSE /\ Goto(s, "reading")
             /\ local' = [local EXCEPT ![s] = c]
             /\ UNCHANGED <<store, history>>
  /\ calls' = calls + 1
  /\ UNCHANGED <<tool, world, session, moves, signIns>>

\* An answer arrives.  A call that finds what it must not find ends there.
ReadNext(s) ==
  /\ pc[s] = "reading"
  /\ LET facts == Head(local[s].left)
         c == [local[s] EXCEPT
                 !.left = Tail(@),
                 !.view = [f \in Read |-> IF f \in facts THEN world[f] ELSE @[f]]]
         refused == /\ ~Handler.direct
                    /\ \E f \in facts : world[f] \notin Handler.needs[f]
     IN \/ refused /\ Finish(s) /\ UNCHANGED <<store, history>>
        \/ /\ ~refused /\ c.left # <<>>
           /\ local' = [local EXCEPT ![s] = c]
           /\ UNCHANGED <<pc, store, history>>
        \/ ~refused /\ c.left = <<>> /\ Decide(s, c)
  /\ UNCHANGED <<tool, world, session, calls, moves, signIns>>

\* A read fails: the call ends, unless it can do without it.
ReadFails(s) ==
  /\ pc[s] = "reading"
  /\ LET facts == Head(local[s].left)
         c == [local[s] EXCEPT
                 !.left = Tail(@),
                 !.view = [f \in Read |-> IF f \in facts THEN "missing" ELSE @[f]]]
         tolerated == facts \subseteq Handler.lenient
     IN \/ ~tolerated /\ Finish(s) /\ UNCHANGED <<store, history>>
        \/ /\ tolerated /\ c.left # <<>>
           /\ local' = [local EXCEPT ![s] = c]
           /\ UNCHANGED <<pc, store, history>>
        \/ tolerated /\ c.left = <<>> /\ Decide(s, c)
  /\ UNCHANGED <<tool, world, session, calls, moves, signIns>>

SlipHandleError == "AxiosError"

\* handleError: the response interceptor makes an MCPError of every failure.
HandleError == "MCPError"

\* isRetryableError: only a failure of the transport itself.
Retryable(error) == error = "AxiosError"

\* The write is answered, acknowledged or not.
WriteAnswered(s) ==
  /\ pc[s] = "sent"
  /\ Finish(s)
  /\ UNCHANGED <<tool, world, session, store, history, calls, moves, signIns>>

\* It is not answered, or with an error status: previewOrExecute asks for no
\* retry; hudsonPost leaves it to the retry handler.
WriteFails(s) ==
  /\ pc[s] = "sent"
  /\ IF /\ Handler.direct
        /\ Retryable(HandleError)
        /\ local[s].posts <= MaxRetries
     THEN Post(s, local[s], 0)
     ELSE Finish(s) /\ UNCHANGED sent
  /\ UNCHANGED <<tool, world, session, store, issued, evicted, calls, moves, signIns>>

-----------------------------------------------------------------------------
(***************************************************************************)
(* What happens around the calls.                                          *)
(***************************************************************************)

\* The oldest preview reaches the end of its ten minutes.
Expire ==
  /\ store # {}
  /\ store' = store \ {Min(store)}
  /\ UNCHANGED <<tool, world, session, history, pc, local, calls, moves, signIns>>

\* Another user of Hudson changes something.
WorldMoves ==
  /\ moves < MaxMoves
  /\ \E f \in Read : \E v \in Values[f] \ {world[f]} :
       world' = [world EXCEPT ![f] = v]
  /\ moves' = moves + 1
  /\ UNCHANGED <<tool, session, store, history, pc, local, calls, signIns>>

\* applyHudsonSession, in another call.
SignInElsewhere ==
  /\ signIns < MaxSignIns
  /\ session' \in Session \ {session}
  /\ signIns' = signIns + 1
  /\ UNCHANGED <<tool, world, store, history, pc, local, calls, moves>>

\* A call to preview, or to confirm a preview or, of a direct tool, nothing.
Call(s) ==
  \E x \in Change :
    \/ Begin(s, FALSE, x, 0)
    \/ \E p \in DOMAIN issued : Begin(s, TRUE, x, p)
    \/ Handler.direct /\ Begin(s, TRUE, x, 0)

Next ==
  \/ Expire \/ WorldMoves \/ SignInElsewhere
  \/ \E s \in Slot : \/ Call(s) \/ ReadNext(s) \/ ReadFails(s)
                     \/ WriteAnswered(s) \/ WriteFails(s)

Spec == Init /\ [][Next]_vars

-----------------------------------------------------------------------------
(***************************************************************************)
(* Properties.                                                             *)
(***************************************************************************)

TypeOK ==
  /\ tool \in DOMAIN Handlers
  /\ \A f \in Read : world[f] \in Values[f]
  /\ session \in Session
  /\ store \subseteq DOMAIN issued /\ Cardinality(store) <= MaxStore
  /\ evicted \subseteq DOMAIN issued
  /\ pc \in [Slot -> {"idle", "reading", "sent"}]
  /\ \A s \in Slot : local[s].view \in Views /\ local[s].camp \in Session \union {None}

Confirmed == {i \in DOMAIN sent : sent[i].preview # 0}

\* One approval, one write: of two requests with the same digest, the later
\* one was confirmed with a preview issued after the earlier one was sent, so
\* a user who approves once, or sees two previews of one change, never has it
\* sent twice, however confirms overlap (mutationPreview.ts:137-138).
OneApprovalOneWrite ==
  \A i, j \in Confirmed :
    i < j /\ Digest(sent[i].content) = Digest(sent[j].content)
      => sent[j].preview > sent[i].after

\* What is sent is what the user was shown: the same change, property and
\* token, also when a sign-in replaced the session between the start of the
\* call and its last read, and every resource read again and found as shown,
\* but for the clean state the overseas tool shows and leaves out
\* (mutationPreview.ts:135-137, operations.ts:402).
SentAsApproved ==
  \A i \in Confirmed :
    LET shown == issued[sent[i].preview] IN
    /\ sent[i].content.change = shown.change
    /\ sent[i].content.camp = shown.camp /\ sent[i].content.token = shown.token
    /\ tool # "ov_clean" => sent[i].content.seen = shown.seen

\* hudsonPost leaves the retry handler on, yet a write it carries is sent once
\* in a call: no failure reaches the retry handler in a form it would retry
\* (httpClient.ts:63-131, retryHandler.ts:50-69).
DirectWriteIsSentOnce == \A s \in Slot : local[s].posts <= 1

\* A preview makes room only for MaxStore later ones: the one the user is most
\* likely about to approve is not the one that goes (mutationPreview.ts:116).
OnlyTheOldestIsEvicted ==
  \A p \in evicted : Len(issued) - p >= MaxStore

\* "All mutations require a current preview and confirmation." (README.md:72)
EveryWriteWasPreviewed == \A i \in DOMAIN sent : sent[i].preview # 0
=============================================================================
