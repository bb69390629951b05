---------------------------- MODULE ConsentDecision ----------------------------
(***************************************************************************)
(* What one browser authorization promises to the client that opened it,   *)
(* without ciphertexts, claims or POSTs: the user signs in, is asked once, *)
(* and the decision stands.  A decision may be taken back before it is     *)
(* recorded, but only with nothing left in force, so a second attempt does *)
(* not add to the first.  Once recorded it is kept, and only a grant whose *)
(* recording was in doubt is withdrawn all the same.                       *)
(***************************************************************************)
CONSTANTS
  GrantId,    \* the ids a grant may have
  NoGrant     \* no grant: the user has not decided, or has denied

VARIABLES
  stage,      \* "signing", "ready" to be asked, "deciding", "decided"
  live,       \* the authorization has not expired
  force,      \* grants in force
  withdrawn,  \* grants that were taken back
  coded,      \* grants with an authorization code
  choice,     \* the grant the client is redirected with
  doubt,      \* the server was not told that the decision is recorded
  registered  \* an account was asked for

decisionVars == <<stage, live, force, withdrawn, coded, choice, doubt,
                  registered>>

Init ==
  /\ stage = "signing" /\ live = TRUE
  /\ force = {} /\ withdrawn = {} /\ coded = {}
  /\ choice = NoGrant /\ doubt = FALSE /\ registered = FALSE

Register ==
  /\ ~registered /\ registered' = TRUE
  /\ UNCHANGED <<stage, live, force, withdrawn, coded, choice, doubt>>

SignIn ==
  /\ live
  /\ stage = "signing" /\ stage' = "ready"
  /\ UNCHANGED <<live, force, withdrawn, coded, choice, doubt, registered>>

Decide ==
  /\ live
  /\ stage = "ready" /\ stage' = "deciding"
  /\ UNCHANGED <<live, force, withdrawn, coded, choice, doubt, registered>>

\* One grant at a time, and never one that was taken back.
Grant ==
  /\ stage = "deciding" /\ force = {}
  /\ \E g \in GrantId \ withdrawn : force' = {g}
  /\ UNCHANGED <<stage, live, withdrawn, coded, choice, doubt, registered>>

\* A code is for the grant in force.
Code ==
  /\ stage = "deciding" /\ force # {}
  /\ coded' = coded \union force
  /\ UNCHANGED <<stage, live, force, withdrawn, choice, doubt, registered>>

\* The decision is recorded: the grant in force, with its code, or none.
Settle ==
  /\ live
  /\ stage = "deciding" /\ stage' = "decided"
  /\ choice' \in GrantId \union {NoGrant} /\ doubt' \in BOOLEAN
  /\ force = {choice'} \ {NoGrant} /\ force \subseteq coded
  /\ UNCHANGED <<live, force, withdrawn, coded, registered>>

Withdraw ==
  /\ stage = "deciding" \/ (stage = "decided" /\ doubt)
  /\ force # {}
  /\ withdrawn' = withdrawn \union force /\ force' = {}
  /\ UNCHANGED <<stage, live, coded, choice, doubt, registered>>

\* The user may be asked again, with nothing in force.
GiveBack ==
  /\ live /\ force = {}
  /\ stage = "deciding" /\ stage' = "ready"
  /\ UNCHANGED <<live, force, withdrawn, coded, choice, doubt, registered>>

Expire ==
  /\ live /\ live' = FALSE
  /\ UNCHANGED <<stage, force, withdrawn, coded, choice, doubt, registered>>

Next ==
  \/ Register \/ SignIn \/ Decide \/ Grant \/ Code \/ Settle \/ Withdraw
  \/ GiveBack \/ Expire

Spec == Init /\ [][Next]_decisionVars
=============================================================================
