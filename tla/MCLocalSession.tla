---------------------------- MODULE MCLocalSession ----------------------------
(***************************************************************************)
(* A small instance of LocalSession: a domestic and an overseas property,  *)
(* with one user each, and three ways to set the process up.                *)
(***************************************************************************)
EXTENDS LocalSession, TLC

CONSTANTS c1, c2, u1, u2

MCCampOf == (u1 :> c1) @@ (u2 :> c2)
MCOverseas == {c2}

Bare == [env |-> None, halfEnv |-> FALSE, apiKey |-> "none", saved |-> {}]
MCSetups ==
  {[Bare EXCEPT !.saved = {u1}],
   [Bare EXCEPT !.env = Given(u2)],
   [Bare EXCEPT !.halfEnv = TRUE, !.apiKey = "limited"]}
=============================================================================
