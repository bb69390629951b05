---------------------------- MODULE MCRemoteAccess ----------------------------
(***************************************************************************)
(* RemoteAccess on small instances.  No symmetry: with one call and one    *)
(* request at a time there is none to use.                                 *)
(***************************************************************************)
EXTENDS RemoteAccess
=============================================================================
