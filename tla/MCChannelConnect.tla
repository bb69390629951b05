--------------------------- MODULE MCChannelConnect ---------------------------
(***************************************************************************)
(* A small instance of ChannelConnect: in one half of the behaviours flows *)
(* are started again and again while the channel side changes, in the other*)
(* links are redeemed while grants are revoked.  Slots are interchangeable.*)
(***************************************************************************)
EXTENDS ChannelConnect, TLC

MCBudgets ==
  {[starts |-> 3, redeems |-> 0, revokes |-> 0, changes |-> 2, switches |-> 1],
   [starts |-> 2, redeems |-> 3, revokes |-> 1, changes |-> 0,
    switches |-> 1]}

Interchangeable == Permutations(Slot)
=============================================================================
