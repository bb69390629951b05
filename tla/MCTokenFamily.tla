----------------------------- MODULE MCTokenFamily -----------------------------
(***************************************************************************)
(* A small instance of TokenFamily.  The requests are interchangeable.     *)
(***************************************************************************)
EXTENDS TokenFamily, TLC

Interchangeable == Permutations(Request)
=============================================================================
