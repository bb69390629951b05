------------------------------- MODULE TokenChain -------------------------------
(***************************************************************************)
(* What an authorization is worth to whoever holds its tokens, without     *)
(* records, compare-and-set loops or two stores: one chain of token pairs, *)
(* in which a pair is spent when the next one takes its place, nothing is  *)
(* handed out that the chain has not made, and which is closed for good    *)
(* once the grant it stands on has ended.                                  *)
(***************************************************************************)
EXTENDS Naturals

CONSTANT MaxUsed  \* pairs that a chain may spend

VARIABLES
  chain,     \* "none", "open", "closed" by a replay or a revocation, "lapsed"
  made,      \* pairs made so far, numbered from 0; the last is the current one
  spent,     \* pairs that were exchanged for the next one
  handed,    \* pairs that reached a client
  standing   \* the grant has not ended

chainVars == <<chain, made, spent, handed, standing>>

Init ==
  /\ chain = "none" /\ made = 0
  /\ spent = {} /\ handed = {} /\ standing = TRUE

\* One authorization opens one chain.
Open ==
  /\ chain = "none" /\ chain' = "open"
  /\ made' = 1
  /\ UNCHANGED <<spent, handed, standing>>

\* The current pair is spent for a new one.
Exchange ==
  /\ chain = "open"
  /\ made <= MaxUsed
  /\ made' = made + 1
  /\ spent' = spent \union {made - 1}
  /\ UNCHANGED <<chain, handed, standing>>

\* A pair that was made reaches a client, at the earliest then.
Hand ==
  /\ \E t \in 0 .. (made - 1) : handed' = handed \union {t}
  /\ UNCHANGED <<chain, made, spent, standing>>

\* The grant ends, and does not come back.
End ==
  /\ standing /\ standing' = FALSE
  /\ UNCHANGED <<chain, made, spent, handed>>

\* Only then is a chain closed, and a closed one stays so.
Close ==
  /\ chain = "open" /\ ~standing
  /\ chain' = "closed"
  /\ UNCHANGED <<made, spent, handed, standing>>

Lapse ==
  /\ chain \in {"open", "closed"}
  /\ chain' = "lapsed"
  /\ UNCHANGED <<made, spent, handed, standing>>

Next == Open \/ Exchange \/ Hand \/ End \/ Close \/ Lapse

Spec == Init /\ [][Next]_chainVars
=============================================================================
