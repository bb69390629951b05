# Verification of the LocalsBnb MCP servers

TLA+ specifications of the two MCP servers in this repository, TLC
configurations that check them on small instances, and TLAPS proofs of the
properties that matter most. Paths below are relative to the repository's
`src/` directory unless they begin with `docs/` or `README`.

1. [The system](#1-the-system)
2. [Plan](#2-plan)
3. [Modules and their correspondence to the code](#3-modules-and-their-correspondence-to-the-code)
4. [Runs, bounds and what they show](#4-runs-bounds-and-what-they-show)
5. [Fairness](#5-fairness)
6. [Proofs](#6-proofs)
7. [Disagreements found](#7-disagreements-found)
8. [What is not modelled](#8-what-is-not-modelled)
9. [Running the checks](#9-running-the-checks)

## 1. The system

One code base, two servers. The *local* server is a Node process started by an
MCP client over stdio: one user, state in memory and in two files. The *remote*
server is an HTTP service for many users: OAuth in front, PostgreSQL and Redis
behind, no state of its own between requests, so that any number of processes
may serve one user. Both turn tool calls into requests to the property
management backend ("Hudson"), which is outside the repository.

    browser --POST /signup /login /consent--> browserAuthorization --> grant (PG), code (Redis)
    client  --POST /oauth/token, /revoke----> httpHandler -----------> token family (Redis), grant (PG)
    client  --POST /mcp, Bearer token-------> runtimeServer.verify --> BusinessEngine.call
                                                                         | sessions, previews, flows: work_items (PG)
                                                                         +--> Hudson, 15 s timeout, no retry

### Remote server

| Component | State | Operations | What is hard | What makes it correct |
| --- | --- | --- | --- | --- |
| Write protocol (`remote/business/engine.ts`, `mutations.ts`, `workStore.ts`) | `work_items` rows of kind *session* and *mutation* with status, version and expiry | open a session, switch property, status, preview, confirm, operator review | calls of one conversation interleave between awaits; a request may commit after its timeout; replies of committed updates get lost; rows expire and are purged; grants are revoked meanwhile | one call at a time per session; a confirmed change is sent at most once; an unresolved one blocks its scope and is never forgotten; switches and revocations void previews |
| Channel flows, handshake tickets (`remote/business/channelFlows.ts`, `handshake.ts`) | `work_items` of kind *channel* and *handshake* | start, complete, create and redeem a one-time ticket | restart of an open flow against completion and expiry; a ticket redeemed twice, or after revocation | the first baseline survives while the flow is open; a ticket is redeemed once and only while both grants are in force |
| Grants (`remote/oauth/postgresGrantStore.ts`) | `mcp_auth.grants` | create, readActive, revoke | read long before it is used | a revoked grant grants nothing |
| Authorization codes (`remote/oauth/authorizationCode.ts`, `redisCodeStore.ts`) | one Redis key per code | issue, redeem (read, then consume if equal) | concurrent redemption, consumption before issue | one code, one token family |
| Token families (`remote/oauth/tokenService.ts`, `redisTokenStore.ts`) | one Redis record per family: current pair, used refresh tokens, revoked | issue, refresh, verify, revoke, each a read and a compare-and-set in a loop | concurrent refresh with one token, replay, two stores written one after the other, contention, a capped history | reuse ends the grant; after that nothing is granted; the history never blocks its own reading |
| Browser authorization (`remote/oauth/browserAuthorization.ts`, the login bridges) | one sealed Redis record per transaction | GET /authorize, POST /signup, /login, /consent | double clicks, tabs and the back button; a store failing between grant, code and redirect; clean-up that fails too | one grant in force; a redirect backed by it, unless its recording is in doubt; sign-up once; a retry stays possible |
| OAuth endpoints (`remote/oauth/httpHandler.ts`, `workbuddyClients.ts`) | none | token, revoke, metadata, client authentication | the order redeem, issue | errors tell the client apart from the service |
| Runtime, configuration (`remote/runtimeServer.ts`, `runtimeIndex.ts`, `config.ts`) | connections | routing, verification of a token, dispatch of a tool call, start-up, shutdown | a token is verified once, and the call goes on while a replay or revocation is answered | once access was answered as ended, no call writes |
| Rate limit (`remote/rateLimit.ts`) | a Redis counter per client and 60 s | one atomic script | - | - |
| Credential cipher (`remote/oauth/credentialCipher.ts`) | keys | seal, open | - | - |

### Local server

| Component | State | Operations | What is hard | What makes it correct |
| --- | --- | --- | --- | --- |
| MCP server (`server.ts`) | camp, token, region profile and its expiry, active tools, extra headers, last auth error | list tools, call a tool, apply a session | the profile is resolved across awaits and cached 30 s; a sign-in may change the camp meanwhile | profile, headers and tools belong to the current camp |
| Sign-in (`tools/auth/onboarding.ts`, `auth/credentialsStore.ts`, `auth/apiKeyManager.ts`) | the client's token, `credentials.json` | login, sign-up, load or create the App Secret | two sign-ins interleave through the shared client token | token and camp that are stored belong together |
| Previews (`tools/overseas/mutationPreview.ts`) | a map of at most 100 previews per client, 10 minutes each | preview, confirm | concurrent confirms, eviction of the oldest, changes between preview and confirm | a preview is consumed before its request is sent, in the turn that checked it; what is sent is what was shown |
| Channel connection (`tools/overseas/channelConnectionFlow.ts`) | one flow per client | start, complete | the baseline is read between the check for an open flow and the write of the new one | one baseline, from before the user was sent to the browser |
| Handshake tickets (`auth/handshakeTickets.ts`, `tools/auth/handshake.ts`) | `handshakes.json` | save, read, read latest | read, change and write back without a lock | no live ticket is lost |
| HTTP client (`client/httpClient.ts`, `retryHandler.ts`) | token, extra headers | request with retries | which errors are retried, and where they are converted | reads are retried, writes never |
| Region, dates, money (`region/*.ts`) | none | resolve a profile, calendar arithmetic in a zone | clock changes, month ends | the range of a calendar day is that day |
| Write tools (`tools/overseas/{writes,operations,channels}.ts`, `tools/domestic/operations.ts`, `tools/auth/handshake.ts`) | none | read what they depend on, refuse what they must, preview or send | others change what was read, between the reads and between preview and confirm | everything shown is pinned by the preview, or read again |
| Query tools (`tools/orders`, `tools/rooms`, `tools/finance`, `tools/overseas/{orders,rooms,finance}.ts`) | none | build a request, format an answer | - | - |

### How they interact

* The token family decides only which access token is current; every business
  request is decided by the grant row. `tokenService.verify` therefore reads both,
  and revocation writes the grant first (`tokenService.ts:253`).
* `BusinessEngine.call` reads the grants again when it authorizes a tool and
  again right before a write (`engine.ts:302-313`): between the two lie all the
  backend queries of the tool's handler.
* `previewOrExecute` (`mutationPreview.ts:79`) is shared: with a remote context
  it hands over to `persistentPreview`, without one it uses the local map.
* A consent creates the grant, then the code; the code carries the grant to
  `/token`, where `issue` reads the grant again.

`PROJECT.json` lists the hazards of this code at their lines, each with
the properties that cover it or the module of the plan that will.

## 2. Plan

Done, in this order:

1. `WriteLedger`, `RemoteWrites`: what this repository is most careful about, a
   write to somebody's property that must not happen twice. Proofs of its
   invariants, and that it implements the ledger.
2. `TokenChain`, `TokenFamily`: the loops over Redis and PostgreSQL behind
   `/token` and `/revoke`. Proofs of its invariants, and that it implements the
   chain.
3. `ConsentDecision`, `BrowserConsent`: the transaction that creates grants and
   codes. Proofs of its invariants and of `NothingIsUndone`, and that it
   implements the decision.
4. `LocalSession`: the session of the local server with Hudson, which all its
   tools share across their awaits. Proofs of its invariants.
5. `LocalHandlers`, `LocalWrites`: the preview protocol of the local server under
   each of its 25 write tools, with the HTTP client's retries. Proofs of its
   invariants.
6. `ChannelConnect`: connecting a channel, in its three hosts, with the one-time
   links of the remote service. Proofs of its invariants and of
   `ReopeningKeepsBaseline`.
7. `RemoteAccess`: `TokenFamily` and `RemoteWrites` composed around one grant row.
   Proof of its invariant, and that it implements both of its parts.

Left, in the order of what it would add:

| Work | Why it is not here yet |
| --- | --- |
| `BrowserConsent` in the composition | a new consent ends the grant of an earlier one, which `RemoteAccess` has as a revocation from outside; the POSTs and the calls share nothing else |
| Two server processes on one ticket file | the loss is by construction of the code (section 8) |

## 3. Modules and their correspondence to the code

In all modules an `await` on shared state ends a step, whatever is done between
two awaits is one step, and a place for a running request (`Call`, `Request`,
`Post`) is reused when the request is over. `pc` names the statement a request
awaits next; `local` holds what it was asked and what it has read. Variables
marked *history* in the modules are never read by an action's guard; they exist
for the properties. An operator named `Slip...` is a condition as a plausible
bug would have it: no action uses one, and each property is known to fail when
its slip takes the place of the real condition.

### `RemoteWrites` (abstract specification: `WriteLedger`)

| TLA+ | Code |
| --- | --- |
| `session`, `work` | `work_items` of kind *session* and *mutation*. `ver` is `version`, `live` is `expires_at > now()`, `nack` the outcome that operator review asks for |
| `Scope` | `BusinessEngine.scope`, `engine.ts:114-124`: session, epoch, property's grant |
| `OpenSession`, `ReadSession`, `Lock`, `Release` | `engine.ts:152-205`, `351-355`; `create`, `get` and `replace` of `WorkStore` |
| `Switch`, `Status`, `Authorize` | `engine.ts:206-350` up to the call of the tool's handler |
| `CheckBlocked`, `Purge`, `Insert` | `persistentPreview` without confirm, `mutations.ts:27-51`; `create` is two statements and so two steps |
| `LookUp`, `Recheck`, `CheckGrants`, `Claim`, `Send`, `Answer`, `Record` | `persistentPreview` with confirm, `mutations.ts:52-128` |
| `RejectAfterReview` | `workStore.ts:110-140` |
| `Crash`, `QueryFails`, `LockReplyLost`, `ClaimReplyLost` | the process stops; a query rejects; an UPDATE commits and its reply is lost |
| `ExpireSession`, `ExpireWork`, `Revoke` | time and the owner of the grant |

Abstracted: digest, payload, summary and encryption (a digest is a model
value); the handlers between `Authorize` and `preview()`, which only read. All
sessions belong to one identity: rows are keyed by a hash of the owner.
`sent`, `acked`, `era` and the fields `stale` and `switched` are history.

`WriteLedger` says what a user may rely on without knowing about rows: an
operation is offered, claimed when nothing is outstanding in its scope,
requested once, then accepted or unresolved, and an unresolved one is closed by
an operator or stays. `RemoteWrites!ImplementsLedger` maps statuses to stages;
*running* is *claimed* before and *requested* after the request left.

### `TokenFamily` (abstract specification: `TokenChain`)

| TLA+ | Code |
| --- | --- |
| `code` | the code's Redis key; `consumeIfEqual` deletes it |
| `family`, `familyLive`, `accessLive` | the family's record, its expiry and `accessExpiresAt`. A token is the number of its pair, so `pair` stands for both hashes and `used` for `usedRefreshHashes` |
| `grantActive` | `readActive` of this grant returns a row |
| `ReadCode`, `Consume`, `Approve`, `StoreFamily` | the authorization_code branch, `httpHandler.ts:235-250`, `authorizationCode.ts:151-182`, `tokenService.ts:137-162` |
| `ReadForRefresh`, `Reapprove`, `Rotate` | `refresh`, `tokenService.ts:165-200`; `Retry` is the next turn of its loop |
| `ReadForVerify`, `Check` | `verify`, 201-237 |
| `ReadForRevoke` | `revoke`, 239-268 |
| `Owner`, `Punish`, `Mark` | the branch refresh and revoke share: readActive, `grants.revoke`, compare-and-set of `revoked` |
| `Answer` | the 200 response reaches the client; without it (`Fail`) a committed rotation is unknown to the client |

One authorization is modelled; others live under other keys. Client
authentication, PKCE, scopes and resources are conditions on the request alone
and are taken to be met.

`TokenChain` says what an authorization is worth without records and loops: one
chain of pairs, opened once, each pair spent when the next takes its place,
nothing handed out that was not made, and closed for good only after the grant
has ended. `TokenFamily!ImplementsChain` maps the record to it: `ChainState` is
none before `StoreFamily`, then lapsed, closed (`revoked`) or open, `PairsMade`
counts the pairs, and `used`, `given` and `grantActive` are what is spent, handed out
and standing. A refresh token that is used twice is thus a pair that cannot be
spent twice, and a rotation that would write over a mark it has not read is no
step of the chain.

### `BrowserConsent` (abstract specification: `ConsentDecision`)

| TLA+ | Code |
| --- | --- |
| `tx` | `Pending`, `browserAuthorization.ts:20-39`: `session`, `email` (`signupEmail`), `attempted`, `processing`, `completed` and the grant of the code in `completedRedirect`. `ver` numbers the ciphertexts, because compare-and-set compares those |
| `Read` | 303-384, 435-436, 481-486: everything checked in the turn after `store.read` |
| `Replay` | 345-357: a consent on a completed record is redirected like the first one; later than 120 s after the completion it is refused, which `Read` has |
| `ClaimSend`, `SendCode`, `WriteSend`, `ClaimSignup`, `SignUp`, `WriteSignup` | POST /signup, 385-433 |
| `LogIn`, `WriteLogin` | POST /login, 435-479 |
| `ClaimConsent`, `Verify`, `CreateGrant`, `IssueCode`, `Complete`, `Redirect` | POST /consent, 487-553 |
| `Catch`, `RevokeGrant`, `Restore` | its catch block, 536-545. `Restore` puts the old ciphertext back, number included |
| `CommandFails`, `TryFails` | a store rejects outside or inside the `try` |
| `ClaimReplyLost`, `CompleteReplyLost`, `Crash` | a write commits without its reply; the process stops |
| `doubtful` | history: the reply to a completion was lost |

A request for an e-mail code at login is written to the record and changes only
its ciphertext. The accounts, forms and pages are left out.

`ConsentDecision` says what the client that opened the authorization may rely on
without knowing about ciphertexts and POSTs: the user signs in, is asked, and the
decision stands. A grant comes into force only while none is, and never one that
was withdrawn; a code is for the grant in force; what is recorded is the grant in
force with its code, or a denial; the user is asked again only with nothing in
force. `BrowserConsent!ImplementsDecision` maps the record to a `Stage` and the rows of
PostgreSQL to the grants in force and withdrawn.

A decided consent keeps its grant, with one exception: the completion can commit and
its reply be lost (`CompleteReplyLost`), after which the catch block revokes a grant
whose redirect is recorded. A repeated POST is then sent to the client with the code
of a revoked grant, which the client cannot redeem. The runs reach this state, and it
is named in both modules: `ConsentDecision` lets a decided grant be withdrawn
only in `doubt`, and `RedirectIsBacked` asks of every redirect, first or repeated, that it
carries the recorded grant and that its code was stored, and that the grant is in
force unless the completion is `doubtful`.

### `LocalSession`

| TLA+ | Code |
| --- | --- |
| `keys`, `campId`, `clientToken` | `apiKeyManager`, `server.campId`, `HTTPClient.hudsonAccessToken`: three places that hold what one sign-in gave |
| `file` | `credentials.json`, replaced by a rename |
| `profile`, `fresh`, `authError`, `tools` | the members of `LukeyunMCPServer`; `fresh` is `Date.now() < profileExpiresAt`. `tools` is "startup" (the list of `server.ts:37`, without sign-in tools), "auth" or a region's |
| `Start`, `Loaded` | `initialize`, `server.ts:63-86`, `loadFromEnv` |
| `Arrive`, `EnsureProfile`, `CampAnswer`, `SettingsAnswer`, `Adopt` | both handlers up to and with `ensureRegionProfile` and `resolveRegionProfile` |
| `Continue`, `Dispatch` | what follows `ensureRegionProfile`: end of `initialize`, the list, the call's tool lookup and permission, the end of a sign-in |
| `LoginAnswer`, `CampsAnswer`, `SecretMissing`, `SecretAnswer`, `SignInFails` | `signInHandler` and `completeSignUpHandler` with `persistSession` and `applyHudsonSession` |
| `ToolReturns` | any tool that keeps nothing of the session |

A token is a record of what it was issued for. `by` and `n` in the credentials,
`applied`, `reported` and `strayed` are history.

Reading the model beside the code shows a few things the properties do not
forbid: a failed sign-in leaves its login token on the client
(`onboarding.ts:85`), so later calls carry it until a sign-in succeeds or the
process restarts (`strayed`); a sign-in is reported done also when Hudson then
refuses the profile (`server.ts:207-215`); and while Hudson refuses the
credentials at start-up, `sign_in` is not among the tools. That is the case
`SignInIsOffered` names.

### `LocalHandlers` and `LocalWrites`

A handler is a record in `LocalHandlers`: the facts it reads in the order it
awaits them (`reads`), the values with which it goes on (`needs`), what it shows
(`shown`) and what of that enters the digest (`pinned`). `LocalWrites` gives the
records their behaviour.

| TLA+ | Code |
| --- | --- |
| `Begin`, `ReadNext`, `ReadFails` | a tool call up to its decision: the context is built once (`server.ts:147-155`), so the property is the one of the start, while the token is asked for at the end |
| `Issue`, `Execute`, `Content`, `Digest`, `Evict`, `Spend` | `previewOrExecute`, `mutationPreview.ts:92-150`, in one turn |
| `WriteDirectly` | the five older overseas tools: text without `confirm`, the request with it |
| `WriteAnswered`, `WriteFails`, `HandleError`, `Retryable` | `httpClient.ts`, `retryHandler.ts` |
| `Expire`, `WorldMoves`, `SignInElsewhere` | time, other users of Hudson, `applyHudsonSession` of another call |
| `Cn...`, `Ov...` | the tools of `tools/domestic/operations.ts`, `tools/overseas/*.ts` and `importAirbnbListings` |

`SentAsApproved` exempts the overseas clean state, which is shown and left out of the
digest on purpose (`operations.ts:402`).

### `ChannelConnect`

| TLA+ | Code |
| --- | --- |
| `host` | which code keeps the flow: `channelConnectionFlow.ts` ("memory"), `handshake.ts` with `handshakeTickets.ts` ("ticket"), `channelFlows.ts` with `workStore.ts` ("work") |
| `Scope` | `channelConnectionFlow.ts:22`, `handshake.ts:79`, `engine.ts:114`: property and token locally, session epoch and grant remotely |
| `Start`, `Snapshot`, `Create`, `Reset`, `MakeLink`, `Answer` | the three `start` functions, up to the page reaching the user. The awaited read of the channel side (`Snapshot`) and the keeping of the flow (`Create`) are two steps in every host |
| `Complete`, `Compare`, `Mark` | `completeChannelConnection`, `pollHandshakeHandler`, `ChannelFlows.complete`. What is read at Hudson (`Compare`) is marked one step later |
| `Keep`, `Replace`, `Found` | `flows.set`; save, read and latest of the tickets; create, replace and find of `WorkStore` |
| `Redeem`, `ReadGrant`, `ReadSource`, `Consume` | `RemoteHandshake.redeem`, behind `/internal/handshake/redeem` |
| `SiteChanges`, `Switch`, `Revoke`, `FlowExpires`, `LinkExpires` | the channel page or the channel; a sign-in or `switch_property`; the grant's owner; time |

The three hosts share one module because they make one promise. Two things
were seen while it was built. First, two overlapping starts of the local server both
find no open flow, and the later answer takes the place of the earlier flow whatever
became of it, because nothing is looked at again between the await
(`channelConnectionFlow.ts:54`) and `flows.set` (63). The baseline of the flow that
stays may then contain what the user did on the page the first one opened, against the
comment at line 53. Or, when the later answer belongs to the slower read, it is older
than the change the other flow succeeded on meanwhile, and that change counts a
second time. Both are within the bounds of the run. The model names such a flow:
`seen` is what a start found, and a flow kept over one its start did not find is
`stale`. `BaselineBeforeLaunch` and `ReopeningKeepsBaseline` exempt the stale flow and no
other, so that without an overlap on one client neither happens. Second, a handshake that
is started again takes a new baseline by design, so neither property is asked of
tickets.

`ReopeningKeepsBaseline` compares two states. An open flow gives way to no other;
and when a flow is opened after a success, its baseline already contains the change that
earned the success, so that one connection is counted twice by a stale flow at most. The field
`earned` of a flow is history: what was found when it succeeded.

### `RemoteAccess`

| TLA+ | Code |
| --- | --- |
| `Tokens`, with `HomeGrant \notin revoked` for `grantActive` | one `PostgresGrantStore` for both parts, `runtimeServer.ts:48-107`; the grant of an access token is the one the calls work with |
| `OAuth` | a request to the OAuth endpoints, or to `/mcp` with a token that fails, 178-219 |
| `Admit` | `tokens.verify` returned an identity, up to the dispatch of a business tool, 219-243 |
| `Begin`, `Continue` | `business.call`, 363-389; the call is `RemoteWrites` from there on |
| `Outside` | time, operator review, and the end of a grant by other means |

The module adds no step of its own: each is one of `TokenFamily` or of
`RemoteWrites`, and one that ends `HomeGrant` is a step of both. `late` is
history: the calls that read their preview after a replay or a revocation had
been answered. A request whose scopes do not suffice, or that asks for another
tool, ends as a request and admits no call.

## 4. Runs, bounds and what they show

| Run | Instance | What it shows |
| --- | --- | --- |
| `writes_safety` | 1 session, 2 calls at once, 5 calls in all, 2 rows, 2 digests, 2 grants, all faults | the nine invariants of `RemoteWrites` |
| `writes_progress` | 2 calls at once, 4 in all, 3 rows, no faults | `SessionComesBack`, `ClaimIsSettled`, and the refinement of `WriteLedger` |
| `writes_lost_operation` | 1 call, 2 grants, no faults | a violation, see section 7 |
| `tokens_safety` | 3 requests at once, 5 in all, loops of 2 attempts, a history of 2 tokens, lost requests | the four invariants of `TokenFamily`, and the refinement of `TokenChain` |
| `consent_safety` | 2 POSTs at once, 5 in all, 2 grant ids, Redis, PostgreSQL and the process may fail | `TypeOK`, `RedirectIsBacked`, `SignupOnce`, `NothingIsUndone`, and the refinement of `ConsentDecision` |
| `consent_progress` | 2 POSTs at once, 4 in all, no faults | `RetryStaysPossible` and `ConsentSettles`, which hold as long as the stores answer |
| `consent_stuck` | only PostgreSQL fails | a violation, see section 7 |
| `local_session` | 2 requests at once, 2 properties (one overseas) with a user each, 3 set-ups, 2 sign-ins, 1 crash | the four invariants of `LocalSession` and `ProfileFollowsCamp` |
| `local_writes` | each of 25 tools; 2 calls at once, 4 in all, a store of 2 previews, 1 change by others, 1 sign-in, 1 retry | the five invariants of `LocalWrites` |
| `local_unpreviewed` | the same, 3 calls | a violation, see section 7 |
| `channel_connect` | 3 hosts, 2 calls at once, 2 properties, 1 switch; either 3 starts and 2 changes, or 2 starts, 3 redemptions and 1 revocation | the four invariants of `ChannelConnect` and `ReopeningKeepsBaseline` |
| `access_revoked` | 1 call and 1 request at a time, 3 calls and 6 requests in all, 2 grants, all faults | `EndedAccessWritesNothing` |

Why the bounds are enough for what is asked:

* *Requests at once.* The properties relate at most two writers of one record;
  the third request of `tokens_safety` is the one that keeps making a
  compare-and-set fail while two others race.
* *Requests in all.* `RemoteWrites` needs open, preview, confirm, and then a
  switch or a second preview and confirm of the same change: five calls.
  `TokenFamily` needs redeem, two refreshes, a revocation and a request that
  begins afterwards. `BrowserConsent` needs two POSTs of each sign-up form, or
  a login and three consents.
* *One session* suffices because `Scope` and the session row make another
  session's calls touch nothing of this one; `SessionExclusive` is stated, and
  proved, for all sessions.
* *Two attempts* stand for eight: the assumption `MaxAttempts >= 2` is what
  `ReuseIsReplay` needs, in its proof too (the loser of a race must be able to read again), and
  the code gives more. *Two used tokens* stand for 1000: the cap is reached.
* *One tool in a behaviour* (`local_writes`): the digest names the tool, so
  previews of different tools only share the room in the store, and
  `OnlyTheOldestIsEvicted` counts previews of any kind. *A store of two* stands for
  100: it fills and evicts within four calls. *One change by others and one
  sign-in* can fall into every gap of preview and confirm.
* *Three set-ups* (`local_session`): credentials in the file, in the environment,
  and half an environment with an API key of the wrong scope. Two overlapping sign-ins of
  two users are the least that can mix sessions; one crash lies between
  a write to the file and its report.
* *Budgets* (`channel_connect`): a behaviour draws one of two sets of bounds, so
  that flows started again and links that are raced for are explored each at the
  size they need.
* *Six requests, one at a time* (`access_revoked`): redeem, refresh and replay, or
  a revocation, and a verification for each of open, preview and confirm. What overlaps is
  a call with the requests; requests that overlap each other are
  `tokens_safety`, calls that do are `writes_safety`, and the proof has both.
* *One digest* (`writes_progress`): the refinement is checked on previews of one change;
  two confirms of it, and changes that differ, are in `writes_safety` (`NoBlindRepeat`) and in
  the proof of the refinement, which is for every set of digests.
* *The capped history* (`tokens_safety`): a cap above the bound of the parser is what
  `ImplementsChain` would notice; one below it refuses to go on sooner, which the chain allows.
* *Three starts, two changes* (`channel_connect`) let a slow start answer after another
  flow was opened, launched and completed, so that the exemption of stale flows is
  reached and nothing else is exempt.
* *Symmetry* is used only in safety runs and only over sets from which no
  definition chooses an element.
* Deadlock is not checked: a request place may stay idle when the bound on
  arrivals is reached, and the system may stop there.

`NothingForgotten`, `NoBlindRepeat` and `RevocationStopsWrites` rest on history
variables, because the rows alone cannot tell what happened outside the
database.

## 5. Fairness

In `RemoteWrites` and `BrowserConsent` liveness is checked under weak fairness of a running request's own steps,
`WF_vars(Step(c))`, and of nothing else: no arrival, no expiry, no operator and no
retry by a user is assumed. The code justifies it: every step ends an `await` on
PostgreSQL (10 s query timeout), on Redis (which answers or rejects) or on
the backend (15 s timeout), and Node runs the continuation of a settled promise.
Crashes and lost replies are switched off in the liveness runs of the remote modules, since a crashed
call takes no step: after a crash a session is locked until its row expires, which
the code accepts. `TokenFamily` states no liveness: a request that breaks off
decides nothing, and one that does not writes its decision to PostgreSQL in its
next two steps.

`LocalSession` assumes `WF_vars(Answer(s))`, every HTTP request of the local
server is answered or times out (`config.api.timeout`), and `WF_vars(Expire)`,
time passes the 30 s of a profile. `ProfileFollowsCamp` does not assume that calls arrive: it
says what holds when they keep arriving.

## 6. Proofs

`RemoteWrites_proofs` proves, for every set of sessions, calls, rows, digests
and grants, with and without faults, from the named assumption `ConstantsOK`:

| Theorem | Property |
| --- | --- |
| `TypeCorrect` | `TypeOK` |
| `SessionsAreExclusive` | `SessionExclusive` |
| `RequestsAreSentOnce` | `AtMostOneRequest` |
| `ScopesHaveOneOpenWrite` | `OneUnresolvedPerScope` |
| `RequestsAreRemembered` | `NothingForgotten` |
| `SubmittedMeansAcked` | `SubmittedWasAcked` |
| `ChangesAreNotRepeated` | `NoBlindRepeat` |
| `SwitchesVoidPreviews` | `PreviewsDieOnSwitch` |
| `RevocationIsHeeded` | `RevocationStopsWrites` |

None of these is inductive as it stands. The proof is built in layers, each
proved inductive relative to the ones below it:

1. `TypeOK`.
2. `LockInv`: a call that holds a session finds its row busy at the version
   after the one it read, with the epoch and grant it read; a call about to lock
   has read a version that is not ahead of the row. A second lock would need the
   row pending at a version it no longer has, which gives `SessionExclusive`.
3. `WriteInv`: where in the protocol a call stands determines the status and
   version of the row it works on and whether its request is out. It needs
   `LockInv`, because scopes belong to sessions: the check for an unresolved
   operation and the claim stay valid between their steps only as no other call
   can be at work in the scope. It gives the request, scope, memory and repeat
   properties.
4. `EraInv`: epochs count the completed switches, so a row that is visible in
   the present scope was made since the last one. It gives `PreviewsDieOnSwitch`.
5. `StaleInv`: grants revoked at look-up are still revoked at the check. It
   stands on its own and gives `RevocationStopsWrites`.

The layered invariant was checked by TLC before it was proved.

`RemoteWrites_refinement` proves `ProtocolImplementsLedger`, that is `Spec =>
ImplementsLedger`, under the same assumption and with faults too, which the run
`writes_progress` leaves out. A step of the protocol moves the stage of one
operation (`OneMoves`) or of none (`NothingMoves`). That the move is one the
ledger allows rests on the layers: a purge forgets only one operation, and a
forgotten one is not unresolved; a claim finds nothing outstanding in its scope;
a request leaves only after its claim, and once. The one new fact is `SentFirst`:
what the backend has acknowledged was sent.

`TokenFamily_proofs` proves, for every number of requests, every number of
attempts from two up, every length of the history, with and without lost
requests, from the assumption `ConstantsOK` of `TokenFamily`:

| Theorem | Property |
| --- | --- |
| `TypeCorrect` | `TypeOK` |
| `OneCodeOneFamily` | `CodeMakesOneFamily` |
| `DoomIsFinalCorrect` | `DoomIsFinal` |
| `ReuseIsReplayCorrect` | `ReuseIsReplay` |
| `RecordIsAChain` | `ImplementsChain` |
| `HistoryIsComplete`, `HistoryIsBounded`, `MarkFollowsGrantCorrect` | `OldTokensAreKnown`, `FamilyStaysReadable`, `MarkFollowsGrant`: what the chain means for the record, defined beside their proofs and not checked by a run of their own |

Again in layers:

1. `TypeOK`.
2. `CodeInv`: at most one request has consumed the code and not yet made the
   family.
3. `HistoryInv`: pairs are numbered from 0, and the used tokens are exactly the
   pairs before the current one. A refresh that has read an older record fails
   its compare-and-set, and when it reads again it finds the family expired,
   marked, or its token among the used ones (`LoserIsTooLate`). This is where two
   attempts are needed. It gives the two properties of the history.
4. `DoomInv`: a request past `Owner` has seen the grant end, and
   the grant does not come back, so at every later place where a request asks for it
   the answer is no. It gives `MarkFollowsGrant` and `DoomIsFinal`.
5. `ReuseInv`: two rotations never succeed with one token, so a second answer for
   a token comes from a request that met the end of the grant.
6. `ChainInv`: a first pair is granted only by the request that made the family,
   and nothing lapses that was not made. With it and `TypeOK`, `CodeInv`,
   `HistoryInv` and `DoomInv`, every step of a
   request maps to one step of the chain or to none: a rotation to an exchange (the
   history is exactly the pairs before the current one, so what the code pushes
   is what the chain spends), a mark to a close (the grant has ended by then), an
   answer to a hand-out of a pair that was made.

`BrowserConsent_proofs` proves, for every finite set of concurrent POSTs, every
set of grants, every number of arrivals and every combination of failing stores, from
the named assumption of `BrowserConsent`:

| Theorem | Property |
| --- | --- |
| `ConsentTypes` | `TypeOK` |
| `OneConsentOneGrant` | `OneGrantInForce`, a part of the inductive invariant that no run states by itself |
| `RedirectsAreBacked` | `RedirectIsBacked` |
| `SignupsHappenOnce` | `SignupOnce` |
| `WritesLast` | `NothingIsUndone`, a property of steps |
| `TransactionIsADecision` | `ImplementsDecision` |
| `RetriesSurviveUpstream` | `RetryStaysPossible`, where no store and no process fails (`Faults = {}`) |

The difficulty is that a restore puts an old ciphertext back, so that the number of a
record says less than it seems to. `ContentInv` says what it does say: equal numbers
seal equal contents, and no two claims have one number. With it, `PlaceInv` (nobody has passed
the checks on a record that is claimed) and `OwnerInv` (the record stays with the POST
that claimed the consent until it is completed or given back) are kept. `GrantInv`
follows: a grant is in force only for that owner, or when the record is completed.
`SignupInv` and `MailInv` count registrations and mails against the claims
written. `RedirectsAreBacked` follows the recorded grant rather than the POST that recorded
it: what is recorded was in force with its code at the completion, and the only step
that revokes it is that of a catch block entered after a lost reply, which is the
doubt.

The refinement adds `NamedInv`: the grant a POST is about to create has been
named by it and by no other, and so was never withdrawn. A claim of the consent is the
step into *deciding* and a restore the step back; a restore finds nothing in force
because the catch block revoked first. All other writes leave the stage as it is
(`ClaimsStutter`, `DecisionStutters`) or sign the user in (`ResultSignsIn`).

`RetriesSurviveUpstream` is the counterpart of the disagreement that `consent_stuck` finds
(section 7): every write leaves the consent either free or with the
POST that wrote it (`WritesKeepOrFree`), and that POST leaves its try and catch blocks
only by completing or restoring (`KeeperStays`). The hypothesis is needed as it is: a rejected
revocation, a lost reply of the claim and a stopped process each break the
property, as PostgreSQL does in the run.

`LocalSession_proofs` proves, for every finite set of concurrent requests and every number of
users, properties, sign-ins and crashes, from `ConstantsOK` and `NoneOK`:

| Theorem | Property |
| --- | --- |
| `SessionTypes` | `TypeOK` |
| `SessionsDoNotMix` | `OneSession` |
| `SavedBeforeReported` | `ReportedIsSaved` |
| `SignInStaysReachable` | `SignInIsOffered` |

`OneSession` needs to know of a sign-in between its requests that the property it
asks about is its user's (`PlaceInv`), and `ReportedIsSaved` that the file cannot fall behind a
sign-in that is about to be reported (`SavedInv`). `Budget` counts sign-ins applied
and under way, without which the number in the credentials would leave its
type; it is why the set of requests has to be finite.

`LocalWrites_proofs` proves, for each of the 25 tools and every number of concurrent calls, changes,
sessions, previews kept, retries, changes by others and sign-ins:

| Theorem | Property |
| --- | --- |
| `LocalWritesTypes` | `TypeOK` |
| `ApprovalsAreSpent` | `OneApprovalOneWrite` |
| `WhatIsShownIsSent` | `SentAsApproved` |
| `OneRequestInACall` | `DirectWriteIsSentOnce` |
| `EvictionIsFair` | `OnlyTheOldestIsEvicted` |

The heart is `SpentInv`: no stored preview has the digest of an earlier request, unless
it was issued after that request. Sending a request deletes every preview with its
digest, which restores it; a new preview is issued after everything sent so far,
which keeps it. `SentInv` (a confirmed request has the digest of its preview) gives
`SentAsApproved`, since all that a tool shows enters the digest, a fact about the 25 records of
`LocalHandlers` that the proof checks one by one. `StoreInv` bounds the
store and says that its numbers are those of issued previews, so that whatever is
issued after the oldest one kept either is kept too or has gone otherwise.

`ChannelConnect_proofs` proves, for each of the three hosts and every number of concurrent calls,
properties, starts, redeem requests, revocations, changes and switches:

| Theorem | Property |
| --- | --- |
| `ChannelTypes` | `TypeOK` |
| `BaselinesComeFirst` | `BaselineBeforeLaunch` |
| `SuccessesAreEarned` | `SuccessIsEarned` |
| `LinksOpenOnce` | `LinkOpensOnce` |
| `BaselinesMoveOn` | `ReopeningKeepsBaseline`, a property of steps |

A flow is kept, held by a call, or both in different versions. `Sound` is what holds of
each copy: its property is its owner's, its baseline is not from the future, its success
was earned. It survives every change because those are numbered upwards. `IdInv` says
that the number of a flow about to be kept is nobody else's, and that copies with one
number have one owner; `Mark`, which finds the row by number and version, rests
on it. `LaunchInv` says that what was launched is still pending, so that a
flow which is opened again after a success is launched again. `LinkInv` says
that the grants a redeem request found in force were in force when it began,
since grants never come back.

`BaselinesMoveOn` needs two more invariants. `PastInv` says that what a success was
earned by is not later than the channel page is now, that a call about to insert a row
has a baseline no earlier than any success of its owner, and that in the remote host
two calls of one conversation are never both at work. The last is what the
session lock of `engine.ts:202` gives (`SessionExclusive` in `RemoteWrites`); without it a slow start
could insert a row whose baseline was read before another call's success.
In memory nothing gives it, and the claim is made only of the flows that a start has
seen: `SeenInv` says that what a start found and is still kept has succeeded before the
read of the channel side, so that a flow which replaces it either has its change in
the baseline or is stale.
`PastStep` proves it inductive, one lemma per action, and `BaselineStep` gives the
property from it: opening and resetting are the only steps that put a pending flow
in place of one that is not (`MarkOpensNone`).

`RemoteAccess_proofs` proves `PartsKeepTheirPromises`, that is `AccessSpec => Spec /\
Tokens!Spec`, and `EndedAccessIsHeeded`, that is `AccessSpec =>
[]EndedAccessWritesNothing`, for every number of requests and calls, from the
assumptions of both parts. `SeenByCalls` shows that a behaviour of the
composition is one of `RemoteWrites`, so that `RevocationStopsWrites` holds in it as proved.
`SeenByRequests` shows the same, step by step, for `TokenFamily`; since a theorem
cannot be cited through an `INSTANCE`, the types of its state are shown once
more. Then `EndedInv`, that the grant has ended whenever a replay or revocation is
past its decision, and `LateInv`, that a late call which found a preview saw
the grant revoked, give the property: such a call fails its check before the claim.

Only model-checked: the liveness
properties `ProfileFollowsCamp`, `ConsentSettles`, `SessionComesBack` and
`ClaimIsSettled`. Out of the prover's reach and left to TLC for good:
liveness under fairness and `ENABLED`, induction over data, and `RECURSIVE`
operators (no module here has one).

## 7. Disagreements found

* **An unresolved operation is answered `not_found` after a property switch**
  (`writes_lost_operation`). `get_operation_status` looks operations up under the
  scope of the session's present epoch (`engine.ts:220-231`), which
  `switch_property` has raised. The tool's description (`engine.ts:59`) and
  `README.md:72` send the user to that very tool when a result is unknown.
* **A consent that PostgreSQL interrupts cannot be retried** (`consent_stuck`).
  The catch block revokes before it restores (`browserAuthorization.ts:537-539`);
  when PostgreSQL is what failed, the revocation rejects too and the
  transaction keeps `consentProcessing` until it expires, against the comment at
  lines 487-488.
* **Five write tools need no preview** (`local_unpreviewed`). Check-in, check-out,
  extension and room assignment of overseas properties (`tools/overseas/writes.ts`)
  and the Airbnb import (`tools/auth/handshake.ts:225-268`) write in the first call that
  carries `confirm: true`; `README.md:72` says "All mutations require a current
  preview and confirmation." On the remote server the first four do go through a
  preview (`context.remote.preview`).

## 8. What is not modelled

* The backend, PostgreSQL and Redis themselves: each command is atomic and
  either answers or rejects, with or without having taken effect.
* Encryption, hashing and random ids: ideal. A random id is one not used yet.
* Page layout, texts, logging, parsing of forms, validation of payloads.
* Query tools: they read and format.
* Calendar arithmetic (`region/dates.ts`) and money: pure, without state or another
  actor. The two offset guesses of `toZoneStartMs` (line 77) depend on the zone database;
  a table of the clock changes near midnight tests them better than a model would.
* The domestic channel connection (`domestic/operations.ts:324-372`): its baseline
  travels in a token the client holds, so the server has no state to protect.
* Two local processes on one `handshakes.json`: the file is read and written without a
  lock (`handshakeTickets.ts:46`), so the later save loses the earlier ticket.
* What a new App Secret does to other installations: `/user/secret/generate` is asked
  after any failure of `/user/secret/get` (`onboarding.ts:113-120`); `LocalSession`
  has the step, the consequence lies in Hudson.
* The read-back after a local write: it keeps nothing.
* The runtime's routing, start-up and shutdown, the rate limit, the cipher: see
  `PROJECT.json`.

## 9. Running the checks

    tlc -workers 2 -config RemoteWrites_safety.cfg  MCRemoteWrites.tla
    tlc -workers 2 -config TokenFamily_safety.cfg   MCTokenFamily.tla
    tlc -workers 2 -config BrowserConsent_safety.cfg MCBrowserConsent.tla
    tlc -workers 2 -config LocalSession_overlap.cfg MCLocalSession.tla
    tlc -workers 2 -config LocalWrites_previewed.cfg MCLocalWrites.tla
    tlc -workers 2 -config ChannelConnect_races.cfg MCChannelConnect.tla
    tlc -workers 2 -config RemoteAccess_revoked.cfg MCRemoteAccess.tla
    tlapm RemoteWrites_proofs.tla
    tlapm RemoteWrites_refinement.tla
    tlapm TokenFamily_proofs.tla
    tlapm BrowserConsent_proofs.tla
    tlapm LocalSession_proofs.tla
    tlapm LocalWrites_proofs.tla
    tlapm ChannelConnect_proofs.tla
    tlapm RemoteAccess_proofs.tla

Each `.cfg` belongs to the MC module whose name it begins with. Each proof module takes
up to a few minutes from nothing, the runs from a few seconds to three minutes.
