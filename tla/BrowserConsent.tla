---------------------------- MODULE BrowserConsent ----------------------------
(***************************************************************************)
(* One browser authorization: the pending transaction that GET /authorize  *)
(* leaves in Redis, and the POSTs to /signup, /login and /consent that     *)
(* turn it into a grant, an authorization code and a redirect.             *)
(*                                                                         *)
(* A Post is a place for one running POST; a user who clicks twice, goes   *)
(* back, or has two tabs open has several.  Every await ends a step.       *)
(*                                                                         *)
(* Every write seals the record with a fresh nonce, so a ciphertext is a   *)
(* number, `ver`, and compareAndSet compares numbers.  The restore after a *)
(* failed consent puts the old ciphertext back, number included.  The      *)
(* fields of the forms, the account and its properties are left out.       *)
(***************************************************************************)
EXTENDS Naturals, FiniteSets

CONSTANTS
  Post,         \* how many POSTs can be running at once
  GrantId,      \* the random ids given to grants
  NoGrant,      \* no grant: before one is named, and after a denial
  Faults,       \* which of "redis", "postgres" and "process" may fail
  MaxArrivals   \* bound: POSTs in one behaviour

ASSUME ConstantsOK ==
  /\ NoGrant \notin GrantId
  /\ IsFiniteSet(Post)
  /\ Faults \subseteq {"redis", "postgres", "process"}
  /\ MaxArrivals \in Nat

VARIABLES
  tx,         \* the transaction's record in Redis
  txLive,     \* it has not expired
  cooling,    \* less than 60 s since signupSentAt
  seals,      \* ciphertexts made so far
  grants,     \* rows of mcp_auth.grants
  codes,      \* grants whose authorization code is in Redis
  pc,         \* where each POST stands
  local,      \* its local variables
  mails,      \* history: sign-up codes requested from the backend
  windows,    \* history: cool-downs that have ended
  signups,    \* history: registrations requested from the backend
  doubtful,   \* history: the completion was stored, but not its POST told
  arrived     \* POSTs so far, for MaxArrivals

vars == <<tx, txLive, cooling, seals, grants, codes, pc, local, mails, windows,
          signups, doubtful, arrived>>

Operations == {"send", "complete", "login", "approve", "deny"}

\* Where a POST can stand: each value names the statement it awaits next.
Signing   == {"claimSend", "send", "writeSend",
              "claimSignup", "signup", "writeSignup", "login", "writeLogin"}
Try       == {"verify", "create", "issue", "complete"}
Catching  == {"revoke", "restore"}
Pc        == {"idle", "read", "claimConsent", "redirect"}
               \union Signing \union Try \union Catching

\* Pending, as far as it decides anything.
Tx ==
  [ver : Nat, session : BOOLEAN, email : BOOLEAN, attempted : BOOLEAN,
   processing : BOOLEAN, completed : BOOLEAN, code : GrantId \union {NoGrant}]

FreshTx ==
  [ver |-> 0, session |-> FALSE, email |-> FALSE, attempted |-> FALSE,
   processing |-> FALSE, completed |-> FALSE, code |-> NoGrant]

Locals ==
  [op : Operations,
   raw : Tx,                           \* the record as read
   claimed : Nat,                      \* the ciphertext this POST wrote
   ok : BOOLEAN,                       \* the bridge's answer
   grant : GrantId \union {NoGrant}]

NoLocals ==
  [op |-> "login", raw |-> FreshTx, claimed |-> 0, ok |-> FALSE,
   grant |-> NoGrant]

Init ==
  /\ tx = FreshTx /\ txLive = TRUE /\ cooling = FALSE /\ seals = 0
  /\ grants = [g \in GrantId |-> "none"] /\ codes = {}
  /\ pc = [x \in Post |-> "idle"]
  /\ local = [x \in Post |-> NoLocals]
  /\ mails = 0 /\ windows = 0 /\ signups = 0
  /\ doubtful = FALSE /\ arrived = 0

-----------------------------------------------------------------------------
(***************************************************************************)
(* Conditions and small steps.  A slip is a condition as a plausible bug   *)
(* would have it; no action uses one.                                      *)
(***************************************************************************)

Goto(x, p) == pc' = [pc EXCEPT ![x] = p]
Proceed(x, p) == Goto(x, p) /\ UNCHANGED local
Reply(x) == Goto(x, "idle") /\ local' = [local EXCEPT ![x] = NoLocals]

SlipCas(v, next) ==
  /\ txLive
  /\ seals' = seals + 1
  /\ tx' = [next EXCEPT !.ver = seals + 1]

\* compareAndSet of a freshly sealed record.
Cas(v, next) ==
  /\ txLive /\ tx.ver = v
  /\ seals' = seals + 1
  /\ tx' = [next EXCEPT !.ver = seals + 1]

CasFails(v) == ~(txLive /\ tx.ver = v) /\ UNCHANGED <<tx, seals>>

SlipMayRegister == ~tx.session /\ tx.email

\* What each form asks of the record, checked right after it is read.
MayRegister == ~tx.session /\ tx.email /\ ~tx.attempted

MaySend == ~tx.session /\ ~tx.email /\ ~cooling

MayConsent == tx.session /\ ~tx.processing

SlipCatch(x) == Proceed(x, "restore")

SlipNoCatch(x) == Reply(x)

\* The catch block of /consent: revoke the grant if one was named.
Catch(x) ==
  Proceed(x, IF local[x].grant = NoGrant THEN "restore" ELSE "revoke")

-----------------------------------------------------------------------------
\* store.read and the checks that follow it without an await.
Read(x) ==
  /\ pc[x] = "read"
  /\ \/ /\ txLive
        /\ \/ local[x].op = "send" /\ MaySend /\ Goto(x, "claimSend")
           \/ local[x].op = "complete" /\ MayRegister /\ Goto(x, "claimSignup")
           \/ local[x].op = "login" /\ ~tx.session /\ Goto(x, "login")
           \/ /\ local[x].op \in {"approve", "deny"}
              /\ ~tx.completed /\ MayConsent
              /\ Goto(x, "claimConsent")
        /\ local' = [local EXCEPT ![x].raw = tx]
     \/ Reply(x)
  /\ UNCHANGED <<tx, txLive, cooling, seals, grants, codes, mails, windows,
                 signups, doubtful, arrived>>

\* A consent on a completed record is sent where the first one was.
Replay(x) ==
  /\ pc[x] = "read" /\ local[x].op \in {"approve", "deny"}
  /\ txLive /\ tx.completed
  /\ Goto(x, "redirect")
  /\ local' = [local EXCEPT ![x].grant = tx.code]
  /\ UNCHANGED <<tx, txLive, cooling, seals, grants, codes, mails, windows,
                 signups, doubtful, arrived>>

\* Sign-up, first form: the claim is written before the code is requested.
ClaimSend(x) ==
  /\ pc[x] = "claimSend"
  /\ \/ /\ Cas(local[x].raw.ver, local[x].raw)
        /\ cooling' = TRUE
        /\ local' = [local EXCEPT ![x].claimed = seals + 1]
        /\ Goto(x, "send")
     \/ CasFails(local[x].raw.ver) /\ Reply(x) /\ UNCHANGED cooling
  /\ UNCHANGED <<txLive, grants, codes, mails, windows, signups, doubtful,
                 arrived>>

SendCode(x) ==
  /\ pc[x] = "send"
  /\ mails' = mails + 1
  /\ \E ok \in BOOLEAN : local' = [local EXCEPT ![x].ok = ok]
  /\ Goto(x, "writeSend")
  /\ UNCHANGED <<tx, txLive, cooling, seals, grants, codes, windows, signups,
                 doubtful, arrived>>

WriteSend(x) ==
  /\ pc[x] = "writeSend"
  /\ \/ Cas(local[x].claimed, [local[x].raw EXCEPT !.email = local[x].ok])
     \/ CasFails(local[x].claimed)
  /\ Reply(x)
  /\ UNCHANGED <<txLive, cooling, grants, codes, mails, windows, signups,
                 doubtful, arrived>>

\* Sign-up, second form: signupAttempted is written before the registration.
ClaimSignup(x) ==
  /\ pc[x] = "claimSignup"
  /\ \/ /\ Cas(local[x].raw.ver, [local[x].raw EXCEPT !.attempted = TRUE])
        /\ local' = [local EXCEPT ![x].claimed = seals + 1]
        /\ Goto(x, "signup")
     \/ CasFails(local[x].raw.ver) /\ Reply(x)
  /\ UNCHANGED <<txLive, cooling, grants, codes, mails, windows, signups,
                 doubtful, arrived>>

SignUp(x) ==
  /\ pc[x] = "signup"
  /\ signups' = signups + 1
  /\ \E ok \in BOOLEAN : local' = [local EXCEPT ![x].ok = ok]
  /\ Goto(x, "writeSignup")
  /\ UNCHANGED <<tx, txLive, cooling, seals, grants, codes, mails, windows,
                 doubtful, arrived>>

WriteSignup(x) ==
  /\ pc[x] = "writeSignup"
  /\ \/ Cas(local[x].claimed, [local[x].raw EXCEPT !.attempted = TRUE,
                                                   !.session = local[x].ok])
     \/ CasFails(local[x].claimed)
  /\ Reply(x)
  /\ UNCHANGED <<txLive, cooling, grants, codes, mails, windows, signups,
                 doubtful, arrived>>

\* Login asks the backend first and writes the session over what it read; a
\* request for an e-mail code (ok = FALSE) is written too.
LogIn(x) ==
  /\ pc[x] = "login"
  /\ \/ /\ \E ok \in BOOLEAN : local' = [local EXCEPT ![x].ok = ok]
        /\ Goto(x, "writeLogin")
     \/ Reply(x)
  /\ UNCHANGED <<tx, txLive, cooling, seals, grants, codes, mails, windows,
                 signups, doubtful, arrived>>

WriteLogin(x) ==
  /\ pc[x] = "writeLogin"
  /\ \/ Cas(local[x].raw.ver, [local[x].raw EXCEPT !.session = local[x].ok])
     \/ CasFails(local[x].raw.ver)
  /\ Reply(x)
  /\ UNCHANGED <<txLive, cooling, grants, codes, mails, windows, signups,
                 doubtful, arrived>>

-----------------------------------------------------------------------------
(***************************************************************************)
(* /consent                                                                *)
(***************************************************************************)

\* consentProcessing is written before anything is created.
ClaimConsent(x) ==
  /\ pc[x] = "claimConsent"
  /\ \/ /\ Cas(local[x].raw.ver, [local[x].raw EXCEPT !.processing = TRUE])
        /\ local' = [local EXCEPT ![x].claimed = seals + 1]
        /\ Goto(x, IF local[x].op = "deny" THEN "complete" ELSE "verify")
     \/ CasFails(local[x].raw.ver) /\ Reply(x)
  /\ UNCHANGED <<txLive, cooling, grants, codes, mails, windows, signups,
                 doubtful, arrived>>

\* bridge.authorize; the grant's id is drawn when it succeeds.
Verify(x) ==
  /\ pc[x] = "verify"
  /\ \/ \E g \in GrantId :
          /\ grants[g] = "none"
          /\ grants' = [grants EXCEPT ![g] = "named"]
          /\ local' = [local EXCEPT ![x].grant = g]
          /\ Goto(x, "create")
     \/ Catch(x) /\ UNCHANGED grants
  /\ UNCHANGED <<tx, txLive, cooling, seals, codes, mails, windows, signups,
                 doubtful, arrived>>

CreateGrant(x) ==
  /\ pc[x] = "create"
  /\ grants' = [grants EXCEPT ![local[x].grant] = "active"]
  /\ Proceed(x, "issue")
  /\ UNCHANGED <<tx, txLive, cooling, seals, codes, mails, windows, signups,
                 doubtful, arrived>>

\* The client is looked up again and codes.issue stores the code; either may
\* refuse.
IssueCode(x) ==
  /\ pc[x] = "issue"
  /\ \/ codes' = codes \union {local[x].grant} /\ Proceed(x, "complete")
     \/ Catch(x) /\ UNCHANGED codes
  /\ UNCHANGED <<tx, txLive, cooling, seals, grants, mails, windows, signups,
                 doubtful, arrived>>

SlipCompleted(x) ==
  [local[x].raw EXCEPT !.session = FALSE, !.processing = FALSE,
                       !.completed = TRUE, !.code = local[x].op]

\* The record that later POSTs will be redirected by.
Completed(x) ==
  [local[x].raw EXCEPT !.session = FALSE, !.processing = FALSE,
                       !.completed = TRUE, !.code = local[x].grant]

Complete(x) ==
  /\ pc[x] = "complete"
  /\ \/ Cas(local[x].claimed, Completed(x)) /\ Proceed(x, "redirect")
     \/ CasFails(local[x].claimed) /\ Catch(x)
  /\ UNCHANGED <<txLive, cooling, grants, codes, mails, windows, signups,
                 doubtful, arrived>>

\* 303 to the client's redirect URI.
Redirect(x) ==
  /\ pc[x] = "redirect"
  /\ Reply(x)
  /\ UNCHANGED <<tx, txLive, cooling, seals, grants, codes, mails, windows,
                 signups, doubtful, arrived>>

\* UPDATE ... WHERE revoked_at IS NULL: a grant that was never inserted stays
\* what it is.
RevokeGrant(x) ==
  /\ pc[x] = "revoke"
  /\ grants' = [grants EXCEPT ![local[x].grant] =
                  IF @ = "active" THEN "revoked" ELSE @]
  /\ Proceed(x, "restore")
  /\ UNCHANGED <<tx, txLive, cooling, seals, codes, mails, windows, signups,
                 doubtful, arrived>>

\* The ciphertext read at the start goes back, unless the claim is gone.
Restore(x) ==
  /\ pc[x] = "restore"
  /\ tx' = IF txLive /\ tx.ver = local[x].claimed THEN local[x].raw ELSE tx
  /\ Reply(x)
  /\ UNCHANGED <<txLive, cooling, seals, grants, codes, mails, windows,
                 signups, doubtful, arrived>>

-----------------------------------------------------------------------------
(***************************************************************************)
(* Arrivals, failures and the passing of time.                             *)
(***************************************************************************)

Arrive(x, op) ==
  /\ pc[x] = "idle"
  /\ arrived < MaxArrivals /\ arrived' = arrived + 1
  /\ Goto(x, "read")
  /\ local' = [local EXCEPT ![x] = [NoLocals EXCEPT !.op = op]]
  /\ UNCHANGED <<tx, txLive, cooling, seals, grants, codes, mails, windows,
                 signups, doubtful>>

\* Where a rejected command of each store is met outside the try block, and
\* inside it.
Uncaught(store) ==
  IF store = "postgres" THEN {"revoke"}
  ELSE {"read", "claimSend", "writeSend", "claimSignup", "writeSignup",
        "writeLogin", "claimConsent", "restore"}

Caught(store) ==
  IF store = "postgres" THEN {"create", "issue"} ELSE {"issue", "complete"}

\* Nothing catches it: the POST ends with an error page.  That a command took
\* effect and its reply was lost is this rejection one step later, except
\* after a claim and after the completion.
CommandFails(x) ==
  /\ \E store \in Faults \ {"process"} : pc[x] \in Uncaught(store)
  /\ Reply(x)
  /\ UNCHANGED <<tx, txLive, cooling, seals, grants, codes, mails, windows,
                 signups, doubtful, arrived>>

TryFails(x) ==
  /\ \E store \in Faults \ {"process"} : pc[x] \in Caught(store)
  /\ Catch(x)
  /\ UNCHANGED <<tx, txLive, cooling, seals, grants, codes, mails, windows,
                 signups, doubtful, arrived>>

\* A claim is stored, but its reply is lost: the backend is not called.
ClaimReplyLost(x) ==
  /\ "redis" \in Faults
  /\ \/ pc[x] \in {"send", "signup", "verify"}
     \/ pc[x] = "complete" /\ local[x].op = "deny"
  /\ Reply(x)
  /\ UNCHANGED <<tx, txLive, cooling, seals, grants, codes, mails, windows,
                 signups, doubtful, arrived>>

\* The completed record is stored, but the reply is lost.
CompleteReplyLost(x) ==
  /\ "redis" \in Faults
  /\ pc[x] = "complete"
  /\ Cas(local[x].claimed, Completed(x))
  /\ doubtful' = TRUE
  /\ Catch(x)
  /\ UNCHANGED <<txLive, cooling, grants, codes, mails, windows, signups,
                 arrived>>

Crash(x) ==
  /\ "process" \in Faults
  /\ pc[x] # "idle"
  /\ Reply(x)
  /\ UNCHANGED <<tx, txLive, cooling, seals, grants, codes, mails, windows,
                 signups, doubtful, arrived>>

Expire ==
  /\ txLive /\ txLive' = FALSE
  /\ UNCHANGED <<tx, cooling, seals, grants, codes, pc, local, mails, windows,
                 signups, doubtful, arrived>>

\* 60 s have passed since signupSentAt.
CoolDown ==
  /\ cooling /\ cooling' = FALSE /\ windows' = windows + 1
  /\ UNCHANGED <<tx, txLive, seals, grants, codes, pc, local, mails, signups,
                 doubtful, arrived>>

-----------------------------------------------------------------------------
Step(x) ==
  \/ Read(x) \/ Replay(x)
  \/ ClaimSend(x) \/ SendCode(x) \/ WriteSend(x)
  \/ ClaimSignup(x) \/ SignUp(x) \/ WriteSignup(x)
  \/ LogIn(x) \/ WriteLogin(x)
  \/ ClaimConsent(x) \/ Verify(x) \/ CreateGrant(x) \/ IssueCode(x)
  \/ Complete(x) \/ Redirect(x) \/ RevokeGrant(x) \/ Restore(x)

Failure(x) ==
  \/ CommandFails(x) \/ ClaimReplyLost(x) \/ TryFails(x)
  \/ CompleteReplyLost(x) \/ Crash(x)

Next ==
  \/ \E x \in Post :
       (\E op \in Operations : Arrive(x, op)) \/ Step(x) \/ Failure(x)
  \/ Expire \/ CoolDown

Spec == Init /\ [][Next]_vars

\* Every await of a running POST returns: the backend client times out, the
\* stores answer or reject.
FairSpec == Spec /\ \A x \in Post : WF_vars(Step(x))

-----------------------------------------------------------------------------
(***************************************************************************)
(* Properties                                                              *)
(***************************************************************************)

\* Every variable keeps its type.
TypeOK ==
  /\ tx \in Tx
  /\ txLive \in BOOLEAN /\ cooling \in BOOLEAN
  /\ seals \in Nat
  /\ grants \in [GrantId -> {"none", "named", "active", "revoked"}]
  /\ codes \in SUBSET GrantId
  /\ pc \in [Post -> Pc]
  /\ local \in [Post -> Locals]
  /\ mails \in Nat /\ windows \in Nat /\ signups \in Nat
  /\ doubtful \in BOOLEAN /\ arrived \in Nat

\* However often the consent form is sent, and whatever fails between, the
\* transaction never has two grants in force.
OneGrantInForce ==
  \A g, h \in GrantId : grants[g] = "active" /\ grants[h] = "active" => g = h

\* A POST that redirects, be it the first or a repeated one, does so with the
\* grant on record, whose code was stored and which is in force.  Only when the
\* reply to the completion was lost may the catch block have revoked that grant
\* (browserAuthorization.ts:345, 518, 536).
RedirectIsBacked ==
  \A x \in Post :
    pc[x] = "redirect" /\ local[x].grant # NoGrant =>
      /\ tx.code = local[x].grant
      /\ local[x].grant \in codes
      /\ grants[local[x].grant] = "active" \/ doubtful

\* Duplicate POSTs neither register twice nor request a second e-mail code
\* in one window of 60 s, wherever the claim and the request to the backend
\* fall in it.
SignupOnce == signups <= 1 /\ mails <= windows + 1

\* No write undoes another: a registration stays attempted, a completed
\* consent stays completed, and a session lasts until the consent.
NothingIsUndone ==
  [][/\ tx.attempted => tx'.attempted
     /\ tx.completed => tx'.completed /\ tx'.code = tx.code
     /\ tx.session => tx'.session \/ tx'.completed]_tx

\* A consent under way is in the hands of a POST: after an upstream or database
\* failure the transaction is there for a retry.
RetryStaysPossible ==
  tx.processing /\ txLive =>
    \E x \in Post :
      pc[x] \in Try \union Catching /\ local[x].claimed = tx.ver

\* Whatever the backend answers, a claimed consent is completed or given
\* back, unless it expires first.
ConsentSettles == tx.processing ~> (~tx.processing \/ ~txLive)

-----------------------------------------------------------------------------
(***************************************************************************)
(* The abstract specification.                                             *)
(***************************************************************************)

\* The record in Redis, seen as a stage of ConsentDecision.
Stage ==
  IF tx.completed THEN "decided"
  ELSE IF tx.processing THEN "deciding"
  ELSE IF tx.session THEN "ready" ELSE "signing"

GrantsThatAre(state) == {g \in GrantId : grants[g] = state}

Decision == INSTANCE ConsentDecision
  WITH stage <- Stage, live <- txLive, force <- GrantsThatAre("active"),
       withdrawn <- GrantsThatAre("revoked"), coded <- codes,
       choice <- tx.code, doubt <- doubtful,
       registered <- signups > 0

\* However POSTs race, break off or repeat, the user is asked once: no second
\* grant beside one in force, none offered again while one is, none recorded
\* that was not created and given its code, the record of the decision never
\* rewritten, and its grant taken back only if its recording was in doubt
\* (browserAuthorization.ts, /consent).
ImplementsDecision == Decision!Spec
=============================================================================
