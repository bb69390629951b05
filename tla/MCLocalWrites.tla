---------------------------- MODULE MCLocalWrites ----------------------------
(***************************************************************************)
(* A small instance of LocalWrites.  Slots and sessions are           *)
(* interchangeable.                                                        *)
(***************************************************************************)
EXTENDS LocalWrites, TLC

Interchangeable == Permutations(Slot) \union Permutations(Session)
=============================================================================
