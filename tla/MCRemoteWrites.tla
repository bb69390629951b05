---------------------------- MODULE MCRemoteWrites ----------------------------
(***************************************************************************)
(* RemoteWrites on small instances.                                        *)
(***************************************************************************)
EXTENDS RemoteWrites, TLC

\* Calls are interchangeable: nothing tells one from another but its state.
\* Rows and digests are not permuted, for NoLocals picks one of each.
Interchangeable == Permutations(Call)
=============================================================================
