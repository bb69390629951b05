------------------------------ MODULE WriteLedger ------------------------------
(***************************************************************************)
(* What the preview/confirm protocol promises, without sessions, rows,     *)
(* versions or calls: a ledger of operations, each requested at most once, *)
(* with at most one outstanding operation per scope, and no way back from  *)
(* an unresolved one except an operator's decision that closes it.         *)
(***************************************************************************)
CONSTANTS WorkId, ScopeSet, NoScope

VARIABLES
  stage,   \* where each operation stands
  home     \* the scope it was offered in

Stage == {"none", "offered", "claimed", "requested", "accepted",
          "unresolved", "closed", "gone"}

Outstanding == {"claimed", "requested", "unresolved"}

LedgerTypeOK ==
  /\ stage \in [WorkId -> Stage]
  /\ home \in [WorkId -> ScopeSet \union {NoScope}]

Init ==
  /\ stage = [w \in WorkId |-> "none"]
  /\ home = [w \in WorkId |-> NoScope]

Move(w, from, to) ==
  /\ stage[w] \in from
  /\ stage' = [stage EXCEPT ![w] = to]

Offer(w) ==
  /\ Move(w, {"none"}, "offered")
  /\ home'[w] \in ScopeSet
  /\ home' = [home EXCEPT ![w] = home'[w]]

\* Claiming needs a scope in which nothing is outstanding.
Claim(w) ==
  /\ \A v \in WorkId : home[v] = home[w] => stage[v] \notin Outstanding
  /\ Move(w, {"offered"}, "claimed")
  /\ UNCHANGED home

Send(w) == Move(w, {"claimed"}, "requested") /\ UNCHANGED home

Accept(w) == Move(w, {"requested"}, "accepted") /\ UNCHANGED home

Doubt(w) == Move(w, {"claimed", "requested"}, "unresolved") /\ UNCHANGED home

Close(w) == Move(w, {"unresolved"}, "closed") /\ UNCHANGED home

\* Only offers and acknowledged operations may be forgotten.
Forget(w) == Move(w, {"offered", "accepted"}, "gone") /\ UNCHANGED home

Next ==
  \E w \in WorkId :
    \/ Offer(w) \/ Claim(w) \/ Send(w) \/ Accept(w) \/ Doubt(w) \/ Close(w) \/ Forget(w)

Spec == Init /\ [][Next]_<<stage, home>>
=============================================================================
