----------------------------- MODULE RemoteAccess -----------------------------
(***************************************************************************)
(* The remote server as a whole, around one authorization: the OAuth       *)
(* requests of TokenFamily and the tool calls of RemoteWrites, in the one  *)
(* process of runtimeServer.ts.                                            *)
(*                                                                         *)
(* They meet in two places.  A tool call runs only behind a request whose  *)
(* access token was verified, and HomeGrant, the grant that token names,   *)
(* is one row of PostgreSQL for both: what TokenFamily calls grantActive   *)
(* is here HomeGrant \notin revoked.  So a replay or a revocation at the   *)
(* OAuth endpoints races with calls that were admitted before it.          *)
(*                                                                         *)
(* Every step is a step of one of the two modules, or of both where they   *)
(* share the row, so that what each promises alone holds here too.         *)
(***************************************************************************)
EXTENDS RemoteWrites

CONSTANTS
  Request,      \* how many OAuth requests and verifications run at once
  MaxAttempts,  \* attempts of the compare-and-set loops
  MaxUsed,      \* refresh tokens a family remembers
  MaxRequests   \* bound: requests in one behaviour

ASSUME RequestConstantsOK ==
  /\ MaxAttempts \in Nat /\ MaxAttempts >= 2
  /\ MaxUsed \in Nat
  /\ MaxRequests \in Nat

VARIABLES
  code, family, familyLive, accessLive,       \* the stores of TokenFamily
  rpc, rlocal,                                \* its requests
  given, issued, answered, repeated, doomed,  \* its histories
  requests,                                   \* its requests so far
  admitted,  \* places of calls behind a verified token, not yet begun
  late       \* history: calls that read their preview when it was over

Tokens == INSTANCE TokenFamily
  WITH grantActive <- HomeGrant \notin revoked, pc <- rpc, local <- rlocal,
       arrived <- requests, MaxArrivals <- MaxRequests

tokenVars  == <<code, family, familyLive, accessLive, rpc, rlocal,
                given, issued, answered, repeated, doomed, requests>>
callVars   == <<session, work, pc, local, sent, acked, era, arrived>>
accessVars == <<callVars, revoked, tokenVars, admitted, late>>

AccessInit ==
  /\ Init
  /\ Tokens!Init
  /\ admitted = {} /\ late = {}

-----------------------------------------------------------------------------
\* A request of the OAuth endpoints, or a verification that fails or leads to
\* no business call; it may end the grant, and no other.
OAuth(r) ==
  /\ revoked' \in {revoked, revoked \union {HomeGrant}}
  /\ Tokens!Arrive(r) \/ Tokens!Step(r) \/ Tokens!Fail(r)
  /\ UNCHANGED <<callVars, admitted, late>>

\* verify returned an identity: a call of a business tool may begin.
Admit(r, c) ==
  /\ rlocal[r].op = "verify"
  /\ pc[c] = "idle"
  /\ UNCHANGED <<callVars, revoked, late>>
  /\ Tokens!Answer(r)
  /\ admitted' = admitted \union {c}

\* business.call, with the identity that was verified.
Begin(c) ==
  /\ c \in admitted
  /\ admitted' = admitted \ {c}
  /\ Arrive(c)
  /\ UNCHANGED <<tokenVars, late>>

\* The call goes on; nothing verifies its token again.
Continue(c) ==
  /\ Step(c) \/ Failure(c)
  /\ late' = IF pc[c] = "lookup"
             THEN IF doomed THEN late \union {c} ELSE late \ {c}
             ELSE late
  /\ UNCHANGED <<tokenVars, admitted>>

\* Time, the operator, and the owners of grants; of HomeGrant too, by another
\* consent or its expiry.
Outside ==
  \/ Environment /\ UNCHANGED <<tokenVars, admitted, late>>
  \/ /\ UNCHANGED <<callVars, revoked, admitted, late>>
     /\ \/ Tokens!CodeExpires
        \/ Tokens!FamilyExpires
        \/ Tokens!AccessExpires

AccessNext ==
  \/ \E r \in Request : OAuth(r) \/ \E c \in Call : Admit(r, c)
  \/ \E c \in Call : Begin(c) \/ Continue(c)
  \/ Outside

AccessSpec == AccessInit /\ [][AccessNext]_accessVars

-----------------------------------------------------------------------------
(***************************************************************************)
(* Properties                                                              *)
(***************************************************************************)

\* Once a replay or a revocation was answered at the OAuth endpoints, no call
\* that reads its preview afterwards writes: not one whose token was verified
\* before, nor one on a property with a grant of its own.
EndedAccessWritesNothing ==
  \A c \in Call : c \in late => pc[c] \notin Claimed
=============================================================================
