# TLA+ models of litestar-security

litestar-security adds authentication, authorization and account lifecycles to Litestar
applications.  Most of its code is one `asyncio` process that talks to stores, to providers
and to browsers through `await`.  Between two awaits a coroutine runs alone; at every await any
other request, timer or cancellation may run.  The models here are about what happens at those
awaits.  They are specifications of the code in `src/src/litestar_security`, checked with TLC on
small instances; what matters most in fifteen of the components is proved with TLAPS for all instances.

How to run, inside this directory:

    tlc -workers 2 -config MCRefreshCallers.cfg MCRefreshCallers
    tlapm RefreshFamilyProofs.tla

`PROJECT.json` lists the runs, the source lines every definition stands for, and the hazards.

Contents: 1 inventory, 2 the models and the code, 3 what the runs show, 4 disagreements found,
5 what is proved, 6 what is not modelled, 7 plan.

## 1. Inventory

Paths are relative to `src/src/litestar_security`.  "Hard" is what a test hardly reaches;
"correct" is the property that decides.

| component (files) | state | operations | hard | correct when |
|---|---|---|---|---|
| Refresh token families (`accounts/_refresh.py`, refresh part of `testing.py`) | token records of a family, consumed flags, receipts sealed under an idempotency key, revocation, account epoch | `issue`, `rotate`, `revoke`, `revoke_for_account`, store `prepare_rotation`/`rotate`/`create_family` | prepare and commit are two store calls with three awaits between; answers are lost and retried; the epoch moves meanwhile | a family never forks, reuse revokes it, an honest retry does not, a revoked family stays as it is |
| JWKS provider (`providers/jwks/_provider.py`, `_cache.py`, `_fetching.py`) | cached key snapshot, shared coordinator (refresh task, attached users, last forced generation), negative entries, provider lifecycle | `select_key`, `warmup`, `aclose`, the refresh task | several providers share one task and lock; close, cancellation and eviction fall anywhere | one refresh at a time; answers only from usable keys; unknown keys do not drive the source; nobody waits for ever |
| JWKS documents and fetcher (`providers/jwks/_documents.py`, `_http.py`) | none | fetch, parse | none beyond I/O | pure |
| Sessions (`accounts/_sessions.py`) | registry records, the browser's session mapping, binding cookie | `establish` (create or rebind), `authenticate`, `logout`, `revoke*`, `activate_password_rebind` | record, account and epoch are three reads; concurrent responses overwrite the mapping | only sessions of the current epoch are accepted; revoked ones do not return |
| Login, second factor (`accounts/_login.py`, `_auth_service.py`, `_mfa_login.py`) | challenges | password login, rehash, challenge, completion | proof, snapshot and completion are apart in time | a session proves the current password; a challenge is spent once |
| Password change and recovery (`accounts/_recovery.py`) | password digest and epoch | change, force reset, recovery, cleanup | partial failure after the password is replaced | older sessions are dead, the caller's survives |
| In-memory local account store (`testing.py`) | accounts, identifiers, passwords, tokens | register, consume, compare-and-set | one lock per operation, not per use case | each compare-and-set decides |
| WebSocket tokens and lifetimes (`websocket/`, WebSocket half of `authentication.py`) | connect tokens, socket state, supervising task group | issue, consume, admission, send, close, expire, revoke, refresh | four tasks close one socket; the lock has a queue; cancellation during a send | one socket per token; nothing after a close; a doomed socket ends |
| Provider tokens and links (`providers/oauth/_accounts.py`) | accounts, links, method counts, token vault, retry store, refresh locks | login, link, upgrade, unlink, refresh, revoke | rotation at the provider cannot be undone; refresh and revoke hold no aggregate lock | no token without link; counts right; nothing forgotten while it lives |
| OAuth transactions and lifecycle (`providers/oauth/_transactions.py`, `_routes.py`) | pending transactions, step-up grants | begin, callback, link, confirm, unlink, revoke, logout | minutes between begin and callback; the epoch moves | grants and transactions count once, for the epoch, session and identity they began with |
| OIDC logout (`_routes.py`, `providers/oidc/_logout.py`, `testing.py`) | session mappings, consumed logout tokens and provider sessions | back- and front-channel logout | both arrive, in any order, repeatedly | a session the provider was told is gone admits nobody; each token counts once |
| OAuth and OIDC clients (`providers/oauth/_provider.py`, `providers/oidc/`) | prepared verifiers, open or closed HTTP clients, the tokens of a login in progress | discover, authorize, exchange, refresh, revoke, resolve identity, close | the issuer replaces its key between two steps; answers are lost after the server rotated; clients are closed meanwhile | an identity is the word of the right issuer for the right client; a valid token is accepted; a live grant is not taken for dead |
| Purpose tokens, registration, recovery (`accounts/_purpose_tokens.py`, `_registration.py`, `_recovery.py`, `testing.py`) | hashed tokens with attempts, accounts, epochs | invite, register, resend, confirm, request recovery, reset | wrong guesses and consumption race; a token outlives the password it was asked for | one success, bounded guesses, epoch checked |
| MFA, recovery codes, step-up (`accounts/_mfa.py`, `controllers/_mfa.py`, `testing.py`) | enrolments, counters, codes, grants | enrol, activate, verify, replace, remove, step up | one code presented twice; a change of a factor spans three requests | each code counts once; every factor comes from a grant for it |
| Passkeys (`accounts/_passkeys.py`) | credentials, challenges | register, authenticate, rename, remove | verification in a worker thread between read and write | the signature counter never goes back unnoticed |
| Rate limits (`accounts/_rate_limits.py`) | buckets in a store | acquire | two buckets, two store calls each | no more than the limit is admitted |
| API keys (`providers/api_key/`) | keys, rotation overlap, usage buffer | issue, rotate, revoke, authenticate, observe, flush | rotation against revocation; a flush against new uses | a dead key stays dead; uses are lost only within the documented window |
| Evaluator, registry, middleware (`authentication.py`, `_openapi.py`, `guards.py`, `context.py`) | compiled policies; the request in progress | extract, authenticate, resolve, quorum, authorize, guard | several credentials with different outcomes; the world moves while one is verified | unavailable is never taken for denied or admitted; authority only narrows |
| JWT, key ring, access tokens (`providers/jwt/`, `accounts/_access_tokens.py`) | signing keys per deployment, tokens in circulation | sign, rotate, select a trust slot, verify | slots share issuers, keys and audiences; clock skew | a token has one use; expired evidence gives no assurance |
| Store conformance suite (`testing.py`, `assert_*_conformance`) | the scenario in progress | sixteen suites of calls and races | a store that awaits between check and write; faults that hide each other | a correct store passes in every order; a faulty one is reported |
| Plugin, configuration, wire formats, controllers, CLI, protocols | configuration | start-up, adapters | none | pure |

Interactions.  The account's *security epoch* ties them together: every password change bumps it
in the same critical section that replaces the digest, and sessions, refresh families, connect
tokens, challenges and OAuth transactions carry the epoch they were made under and compare it
later.  The JWKS provider is called by the JWT, OIDC and IAP verifiers.  The controllers and
the middleware call the services; services call stores through protocols.  The reference stores in
`testing.py` say what those protocols mean, and the models use them.  An operation of such a store
under its lock is one step; the service around it is split at its awaits.

## 2. The models and the code

Every module names its source at its head, and every action has the name of the code it models
(`rotate`, `_acquire_refresh_lock` as `acquire`, ...) or a comment with it.  A request is a record with a program
counter and what the coroutine remembers in local variables; one action is the code from one
await to the next.  Cancellation is an action (`Abort`, `fail`, `Abandon`) wherever
the code can be cancelled.  An operator placed directly before a definition and with the same
parameters (`ConsumeKeyless` before `Consume`, `JoinsUnforced` before `Joins`, ...) is the way that definition could be wrong; it is used nowhere, and
`PROJECT.json` "mutants" says which property notices if it were.

**RefreshFamily** (`RefreshTokenService` over `InMemoryLocalAccountStore`).  `tokens` is the
store's dictionary, `account` the epoch and activity, `request` the coroutines, `delivered` the answers that
reached a caller (history, and the source of the tokens callers know).
`BeginIssue .. AnswerIssue` is `issue`; `BeginRotate`, the four outcomes
of `prepare_rotation` (`PrepareRejected`, `PrepareReplay`, `PrepareReuse`, `PrepareActive`), `GetAccount`,
`GetEpoch`, `Rotate`, `Recover`, `FailClosed` are `rotate`.  A receipt records
what AES-GCM binds: token, context, key.  A successor is an id nobody has used: `secrets.token_urlsafe` does not repeat.
**TokenChain** is the abstract promise (one tip per
family, no token used twice, closed is closed), implemented by `RefreshFamily` through `Chain`.
**RefreshCallers** adds who calls: `honest` picks, at the start, arbitrary callers or the one the documentation
describes (one key per token, retries inside the receipt window, nobody revokes); `first` is what that caller remembers.

**JWKSProvider** (`_provider.py`, `_cache.py`).  `cache` is the store entry, `coordination` the
shared coordinator, `tasks` the refresh tasks that are not finished, `provider` each provider's lifecycle, `request` the
calls of `select_key` and `warmup`.  `CheckNegative`, `CoordinateImmediate`/`Join`/`Start`, `Resume`, `Remember`
are the critical sections of a selection; `StartFetch`, `FetchDocument`/`NotModified`/`Failed`,
`Publish` those of the task; `BeginClose`, `Detach`, `Gather`, `CloseFetcher`, `CancelClose` are
`aclose`.  A key set is the set of key ids it holds, a cache header a lifetime and no-store.
`served` and `spent` are history, rewritten with every step that concerns them.

**AccountSessions** composes the session registry, password login with rehash and second factor, the
password change with its shielded cleanup, and forced reset.  The browser is part of the request:
`sid` is the session that its copy of the mapping names, so two requests of one browser are two copies.
The digest of a password is a number that grows with every replacement.

**WebSocketConnections**: `store` is the connect-token store, `conn` the handshake and the task
group of a socket, `sock` the close coordinator: its state, the line of its lock, whether
the holder is transmitting, what the client has seen.  `Turn` hands the lock to the next in line,
`TurnDropped` is a turn whose event no longer applies, `Transmitted` the end of a `send_callable`.

**ProviderTokens** composes the link aggregate, the vault, the retry store, the per-account
refresh lock and an external actor, the provider's token endpoint (`upstream`).  `login`, `provision`,
`link`, `upgrade`, `unlink` hold the store's lock throughout and are one action each, with their
rollback; `refresh` and `revoke` are split at every await.  A token set is named by its refresh token.
`settled` (history) are the tokens whose successor the service received.

**OAuthFlows** (`OAuthLifecycleService` over `MemoryOAuthTransactionStore` and the step-up store).
`transactions` is the transaction store, `grants` the step-up store, `links` and `epoch` what the lifecycle
reads of the accounts, `req` the requests.  A `Begin..` action goes to its first await; `ReadEpoch` and `ConsumeGrant` are
the two halves of `authorize`, `Create` and `Refuse` the store's `create`.  `Callback` is `consume`, which
gives the request what the transaction bound; then `Exchange`, and either `Proof` and a commit, or
`Confirming`, `Confirm`, `Reread`, `Issue` for the confirmations.  `Unlink` and `Revoke` follow their grant in the same request.
`StepUp` and `BumpEpoch` belong to the application.  `effects`, `outcomes` and the fields named
in the module are history.  What a store does under its lock is one step here too; tokens and counts are in `ProviderTokens`.

**Factors** (`MFAService`, `StepUpService`, `PasskeyService` and the generated MFA routes over the reference stores).
`issued` is everything revealed once (grants, pending enrolments, challenges) and `open` what is still stored of it;
`methods`, `codes`, `passkeys` are the factors, `inventory` the login methods of an account; `spent` (history) is a bag of
what was accepted.  `BeginManaged` and `ConsumeGrant` precede every change of a factor; `Enroll`, `Activate`, `ReadMethod` and
`AdvanceCounter` are TOTP; `ReplaceRecoveryCodes` and `ConsumeRecoveryCode` the codes;
`BeginRegistration .. AddCredential` and `BeginAuthentication .. RecordAssertion` the two ceremonies, with the
worker thread between `ReadCredential` and `RecordAssertion`.

**RateLimits** is the limiter: `Acquire` waits for the process lock and reads the first bucket, `ChargeClient` and `ChargeSubject`
write a bucket and read the next, `LimiterFails` is a store that raises.  **AccountTokens** puts registration, resend, confirmation,
recovery and reset behind it (`Limit` is the 429): `account` and `issued` are the store's accounts and purpose tokens, `records`
the sessions and refresh families still kept, `request` the coroutines.  `Register`, `Confirm` and `ConsumeAndReset` are the store's critical sections,
`HashReplacement` the worker thread before the last, `RevokeSessions` and `RevokeFamilies` the cleanup after it.

**RequestPipeline** is the middleware, one request at a time while the world moves between its awaits.  It is put together from
five modules: **APIKeys** (records, rotation with overlap, revocation, the usage buffer and its flush),
**BearerTokens** (the signing key ring and its deployments, access tokens, capabilities, trust slots, verification), **OIDCLogout** (the two logout
channels over session mappings), **RoutePolicies** (`_openapi.py` and the exclusion rules: from the declarations of a handler and its owners to
the compiled alternatives) and **Authorization** (narrowing by bounds, merging evidence, the guards; operators only).
`Arrive` extracts the slots, `Authenticate` and `Raise` settle one credential, `ResolveIdentity` one principal, `Terminal` and `Quorum`
are the evaluator's decision, `Authorize` the application's resolver and the bounds, `Guard` the guards.
`KeyStep`, `TokenStep`, `LogoutStep`, `Flush`, `ChangeAuthority`, `Tick` are the world.
On a WebSocket the slots are read on every handshake that is not excluded, public ones included (`Extracts`), so a slot that raises fails them all.
`Expect` says by hand what each route is meant to demand, so that the compiler is not checked against itself.

**StorePorts** gives each store port as a function from a state and a call to a state and an answer, with a set of defects a store may have;
**StoreConformance** runs the published suites against it.  A suite is a sequence of steps: one call with the answers
it admits, or a race of two contenders (four at a limit of two for the limiter).  The port and the defects are chosen at the start; `Contend`, `ReadStore`
and `WriteStore` are the races, where the defect `yields` lets a store await between its check and its write, and the defect `raises` lets it raise at
a contender that came too late and should have been answered; only the API key suite takes an exception for an answer.

**ProviderClients** is one login from `authorization_url` to the identity, then refreshes and the revocation of its grant, for a
discovered OIDC client and for GitHub.  `Discover .. FetchDocument` prepare a client, `Begin`, `Exchange`, `Redeem`, `Receive` obtain tokens,
`SelectKey` and `Verify` check the ID token (a worker thread between them), `ResolveGitHub` reads the email list, `Renew`, `Refuse` and `Lose`
are the server's answers, `Revoke`, `Forget` and `Close` end things.  The authorization server is external: `grant` is what it holds of a login.

The modules named `..Proofs` hold the theorems of section 5, each about the modules it extends.

## 3. What the runs show

Under two CPUs each run takes from some seconds to about four minutes.

| run | instance | shows |
|---|---|---|
| `refresh_family` | 1 account, 1 family, 3 tokens, 2 requests, 1 key, `Idle` 1, `Absolute` 2, `Window` 2, epoch to 1, time to 2 for honest callers and to 1 for arbitrary ones; symmetry | `FamiliesAreChains`, `StaleRequestsAddNothing`: a family is one chain with one expiry, answers are the committed ones, revoked and outdated requests add nothing.  `HonestFamilySurvives`: lost answers, duplicates in flight and retries within the window never revoke.  `ImplementsTokenChain`: the refinement |
| `jwks_select` | 1 provider, 2 requests, 1 key id, 2 task ids, lifetime 1, stale window 1, time to 2, cancellable closes | `ServedKeysAreCurrent`: every key handed out was usable for its request.  `CoordinationIsSound`: one refresh at a time, negative entries within their bound |
| `jwks_close` | 2 providers, 1 request, lifetime 1, 2 generations, fairness | `RefreshesAreOwned`: no dead task, no fetcher closed in use.  `NobodyWaitsForEver`: closes and requests end.  `ForcedFetchesAreRationed`: unknown keys force at most one fetch per generation |
| `sessions` | 1 account, 2 requests, 3 sessions, 1 challenge, epoch to 2; symmetry | `SessionsAreSound`: current sessions prove the current password, acceptance was current.  `ChallengesAreSpentOnce`.  `WithdrawnStaysWithdrawn`: revocation and replacement are final |
| `websockets` | 2 sockets, 1 token, epoch to 1, one talking handler, revocation and refresh hooks; fairness | `AdmissionsAreSound`: one socket per token, under its epoch.  `NothingFollowsTheClose`.  `DoomedSocketsEnd` |
| `provider_tokens` | 2 accounts (one with a local method), 2 identities of one provider (one retains tokens), 3 token sets, 2 refreshing requests, one of which also revokes, versions to 2; fairness | `RefreshesAreSerial`: one refresh at a time, no spent token presented.  `LinksAreAccountedFor`: no token without link, counts right, a last method kept.  `NothingIsStranded`: nothing discarded alive and unrecorded.  `RequestsEnd` |
| `oauth_flows` | 1 account, 2 identities, 2 sessions, 1 grant, 2 transactions, 2 requests, epoch to 1, a store for 1 transaction with a clock; symmetry | `EffectsAreAuthorized`: a grant and a transaction count once, in their session, for their account, identity and purpose, under their epoch.  `OnlyLiveTransactionsFill`: only living transactions make a begin fail |
| `factors` | 2 accounts, one with a TOTP method and a passkey, 2 transports of the first, 4 requests two at a time, 1 code per set, drift 1, time to 1, epoch to 2, counters to 1, versions to 3, 2 secrets, 2 methods, 2 passkeys; symmetry | `CodesAreAcceptedOnce`, `FactorsAreSound`: every new factor traces back through its enrolment or challenge to a grant for that change.  `AssertionsAdvance`: a signature counter counts once, and an account keeps a way in |
| `account_tokens` | 2 identifiers, one a member, 1 client, 3 requests two at a time, `invite_only` with verification, 2 attempts, lifetime 1, time to 1, epoch to 3, 4 tokens; symmetry | `TokensServeOnce`: one success, one budget of guesses over all requests.  `EpochsEndOnce`: of two resets, or a reset and a change, begun under one epoch one counts.  `RegistersAgree`: one account per identifier and invitation.  `RateLimitsHold` |
| `request_pipeline` | 1 account, 1 service, 2 API keys, 1 session, 2 signing keys, 2 tokens beside foreign ones, 11 routes of every kind of policy and guard, 2 credentials a request, 3 events, time to 2 | `AdmissionsAreSound`, `RefusalsAreDeserved`: who is let in has proved it, and 401, 403 and 503 mean what they say.  `AuthorityIsBounded`: authority only narrows, evidence is fresh when the guard decides.  `CookieAdmissionsAreCovered`.  `TokensAndKeysAreKeptApart`: a token has one use, an API key's use is lost only in the window.  `KeysStayDead` |
| `store_conformance` | 16 suites, every set of the defects a store of each port may have | `ConformingStoresPass`, `FaultsAreReported`: the suite fails no correct store and passes no store with a fault it names, in any order of its races |
| `provider_clients` | 1 flow, the OIDC client `web` of `realm` with a sibling realm on its origin, GitHub, 2 key ids, 4 events; symmetry | `LoginsAreSound`: an identity is its own issuer's word for this client and login.  `ProperTokensAreAccepted`.  `GrantsAreKept`: what is held follows what the server holds, and nobody signs in again without need |

**Bounds.**  Most properties are about a pair of racing actors (two rotations, a reset and a
change, two assertions), so two requests bring out what a
third would repeat.  Three tokens are a token, its successor and the successor's: the shortest chain where
a middle one is consumed and has a consumed predecessor.  Two epochs in `sessions` are before and
after a change, and three sessions a session, its successor and one more login.  Two generations in `jwks_close` are what "one forced fetch per
generation" needs; two providers are the first number where one remains attached.
In `oauth_flows` one grant is enough, since a grant meets only
itself, presented twice; two transactions are two round trips that overlap, and a store for one is full as soon as one is pending.
In `factors` four requests are a change that spans three (step up, enrol, activate) and one that interferes.
In `account_tokens` a reset begun before a change and one begun after are two epochs left, hence three; two attempts are the least at which
one wrong guess is survived.  In `request_pipeline` `MaxEvents` bounds steps of the world together with the credentials of the request: two credentials and one
change between them, or one credential and two changes.  `MaxDefects` 13 is the number of defects of the port with most, so the run covers every store the model can describe.
The limiter's suite takes limit and concurrency as parameters (5 and 20 unless given); 2 and 4 are the least with two winners and two losers.
In `provider_clients` four events are a login, a refresh and two disturbances.
Time moves only to the edges the code compares.  Bounds (`MaxTime`, `MaxEpoch`, `MaxIssued`, `MaxRequests`, `MaxSessions`,
`MaxChallenges`, `MaxGeneration`, `MaxVersion`, the sets of ids) stand in the guards of the actions that would exceed them.

**Fairness.**  Only liveness uses it.
- `JWKSProvider`: weak fairness on the steps the event loop runs and on the end of a fetch, since the
  shipped fetchers have a timeout.  Strong fairness for `Detach` and `Gather`: the entry lock is
  an `asyncio.Lock` that serves its waiters in order, and a finished task that was gathered stays finished.  Nothing about
  closing, time or good answers.
- `WebSocketConnections`: weak fairness on handing over the lock, on the expiry timer, on the
  wake-up of a *released* revocation and on the end of a transmission (the server drops a client
  that reads nothing).  Nothing about the handler: it may run, send or sit still for ever.
- `ProviderTokens`: weak fairness on a request's next step or its failure (the provider client has
  timeouts), strong fairness on entering the refresh lock, which is served in order.

`CHECK_DEADLOCK FALSE` stands where the instance really ends: bounded time and ids used up,
providers closed, a suite at its end.

**What the runs do not promise.**
- `ProviderTokens`: versions restart at 1 when an account is unlinked and linked again, so a
  refresh that began before may put the old grant's tokens over the new grant's.  The
  retry store keeps one record per provider account, so of two concurrent revocations the later
  `schedule` may overwrite the retry material of newer tokens; hence one revoker in the run.  A revocation whose tokens were
  replaced meanwhile discards nothing and leaves the newer ones stored.
- `AccountSessions`: after a password change a failed rebind of the caller's session is logged and the change still reports
  success; no property asks for the session then.
- `OAuthFlows`: the epoch may move between the callback's comparison and the link; what is promised is the
  epoch when the callback began.
- `JWKSProvider`: the generation restarts at 1 after an eviction, so the last forced generation of
  an earlier life may suppress one forced refresh.
- `Factors`: removing a factor removes it from the login methods only; the reference stores keep the TOTP method or
  the credential, and it still verifies.  A grant consumed before an epoch bump may still perform its change.
  A password step-up discards the epoch its proof returned.  The epoch's read and the grant's write are one step of the model.
- `AccountTokens`: a reset reads the clock before it hashes, so a token that expires during hashing is accepted.  A failed
  cleanup of sessions or families is logged; what is left dies by its epoch.  The limiter's promise is for one process.
- `RequestPipeline`: an optional route answers 401 to a valid credential of a mechanism that does not participate.  A handler that excludes itself
  under an owner that is excluded, with a nearer owner that declares a policy, stays authenticated.  A token within the clock skew after its expiry
  authenticates, but gives no assurance; a logout token in the skew is verified and the store then refuses it.  Front-channel
  logout uses the mapping up even when back-channel logout came first.  A use merged into an entry that a flush has
  taken is lost, as the sink's best effort allows.  On a public WebSocket a connect token's credentials and bounds are all that count; on an excluded one it is not read.
  Mechanism scopes document a route and restrict nothing.  Taken as given: one flush at a time; a revoked mapping
  means that the application ends its session; a key's identity comes from the application's resolver; the epoch and the account are one read in the bearer resolver, the clock and the record one in the API key service.
- `StoreConformance`: `LeftOpen` lists the defects no scenario asks for (WebAuthn and OAuth transaction
  stores that keep an expired record, step-up stores that keep a grant after a mismatch, OIDC stores that count but do not revoke mappings,
  account stores that never spend an invitation, refresh stores that do not compare the idempotency digest).  Equality of
  records is that of the fields the scenarios change.  Refused attempts at a limiter may overlap unnoticed: they change nothing.
- `ProviderClients`: the checks of issuer and audience in PyJWT and in `resolve_identity` are one conjunction; a provider
  without revocation endpoint is a revocation that was not sent.

## 4. Disagreements between the code and what is said about it

Each of the first five is a definition in its module that TLC finds violated when the named configuration lists it.  No run of
`PROJECT.json` includes them: the runs are what holds.

- `UnkeyedReuseIsDetected` (`RefreshFamily`, invariant in `MCRefreshCallers.cfg`): `prepare_rotation` compares idempotency digests with `==`, which holds for two
  missing keys.  A token rotated without a key and presented again without one gets the stored
  pair while the receipt lives; the conformance check and the endpoint's text say that it revokes the family.
- `SharedWorkSurvivesClose` (`JWKSProvider`, property in `MCJWKSProvider_close.cfg` with `CloseCancellable = TRUE`): `aclose` waits with `asyncio.gather`, which cancels what it waits for when
  it is cancelled itself, also a task that other providers share; the docs say work is not
  cancelled while another provider remains attached.
- `DiscardsOnlyTheObserved` (`ProviderTokens`, property in `MCProviderTokens.cfg`): `MemoryOAuthAccountStore.discard_tokens` checks the version and deletes in two
  critical sections of the vault; tokens a login stores in between are deleted, where the protocol says "only at one
  observed version" and the docs ask for one database transaction per operation.
- `GrantsCarryTheCheckedEpoch` (`OAuthFlows`, invariant in `MCOAuthFlows.cfg`): the callback of a reauthentication compares the account's epoch with the transaction's, and
  `StepUpOAuthAuthorizer.issue` then reads the epoch again for the grant; when it moved in between, evidence of the old
  epoch becomes a grant that is valid under the new one, where the changelog says that the account epoch is enforced.
- `PasskeyStepUpsAreHeard` (`Factors`, property in `MCFactors.cfg`): `_verify_factor` compares the challenge's binding with one made from the request's headers, but
  `authentication_options` binds the challenge to a fresh random value, so a passkey never completes a step-up;
  `docs/generated-routes.rst` offers it as a factor.
- `RouteCompiler._resolve_effective_policy` tells a handler's own policy from an inherited one by object identity: when a handler declares again the
  policy object of an outer owner, a nearer owner's policy decides, where `docs/authentication.rst` says that the nearest owner wins, "including a
  handler-level `auth=` override".  `HandlerPolicy` follows the code (`reuses`; route `key` of the run), and what the route demands is then what the code gives it.
- Closing a discovery client while it looks up an address makes `httpx` raise `RuntimeError`, which is not turned into `OIDCDiscoveryError`.
- The registration route's description says that the response is identical for a rejected token and a taken identifier; the statuses are 202 and 400.

## 5. What is proved

| module | theorem | property | argument |
|---|---|---|---|
| `RefreshFamilyProofs` | `TypeCorrect` | `TypeOK` | `TypeInv == TypeOK /\ RequestOK` is inductive.  `TypeOK` alone is not: `Rotate` stores fields of the context a coroutine remembers, and `RequestOK` says at which stages it holds one. |
| | `FamiliesAreLinear` | `LinearFamily` | inductive together with `TypeInv`.  `TokensStep` reduces every action to five ways the dictionary changes; creation and rotation need that ids and families are unused, and rotation needs `RotationValid`, evaluated in the critical section that writes, so what was prepared before does not matter. |
| | `RevocationIsFinal` | `RevokedStaysFrozen` | from linearity: one revoked token means all are, so no commit finds an unrevoked one in that family. |
| | `EpochCutsOff` | `OnlyCurrentEpochGrows` | each of the two adding actions compares the epoch in its own step. |
| | `AnswersAgree` | `AnswersAreCommitted` | `Held` strengthens it: what a coroutine is about to answer is already committed, and stays so since tokens only age (`TokensOnlyAge`). |
| | `LifetimeNeverGrows` | `LifetimeIsFixed` | `Clamped` strengthens it: every context in flight already carries the family's expiry and one clamped to it. |
| | `ChainsStayWhole` | `FamiliesAreChains` | the invariant of the run, from the linear family, the answers and the lifetime. |
| | `OvertakenRequestsAddNothing` | `StaleRequestsAddNothing` | the action property of the run, from `RevocationIsFinal` and `EpochCutsOff`. |
| | `ChainsAreImplemented` | `ImplementsTokenChain` | the refinement, step by step: `TokensStep` again, and each of its ways is a step of `TokenChain` or none.  `HasTip` says that every family has an unconsumed token, so that the abstract tip is not a free choice. |
| | `HonestCallersKeepTheirFamily` | `HonestFamilySurvives` | `HonestInv`: a consumed token's receipt opens for every retry the honest caller may still send, since retries keep to the window of the first attempt under their key (`Overdue`, `Sealed`), or the family is at its end.  So reuse is never detected and no receipt fails. |
| | `CallersRefine` | | step by step: an attempt is a request of `Spec` and a record of it, so the theorems above hold of the run's `CallersSpec`. |
| `AccountTokensProofs` | `BudgetsHold` | `RateLimitsHold` | `LimiterInv`.  That no bucket admits more than its limit is not inductive: the admission is a step after the count.  `OneCounts` (the lock) keeps a second coroutine from counting in between, `Counts` says that what was read is what is stored and that a charged, unexhausted bucket has room for the admission to come, `AdmittedWereCounted` that no admission lacks a count. |
| | `AccountsKeepBudgets` | `RateLimitsHold` | every step of a route is a step of the limiter or leaves it alone, so `LimiterInv` carries over to `AccountTokens`' `Spec`. |
| | `TokensAreOneTime`, `EpochsAreLeftOnce`, `RegistrationsAreSound` | `TokensServeOnce`, `EpochsEndOnce`, `RegistersAgree` | `RoutesInv`.  The history says nothing by itself of what comes next: `UseOK` ties every use in it to the state (the token is gone, the epoch is lower than the account's, the identifier exists), so that the store's guard refuses a second one, and `CoroutineOK` says what a request at each await knows that nobody can undo. |
| `AccountSessionsProofs` | `SessionsProveThePassword` | `SessionsAreSound` | `SessionsInv`: password and epoch of an account are one version (`AccountsOK`), what is stored or in a coroutine's hands proves the version of its own epoch, and that epoch is never ahead of the account (`RecordsOK`, `Knows`).  A session of the current epoch then proves the current password. |
| | `ChallengesOpenOneSession` | `ChallengesAreSpentOnce` | `ChallengesOK` follows a consumed challenge: it is in the store, or in the hands of one coroutine, or behind one session, and in one of these places only. |
| | `WithdrawalIsFinal` | `WithdrawnStaysWithdrawn` | the set of live records only loses old members; a rehash compares the digest in the step that writes. |
| `TaskProofs` | `TokensAdmitOnce` | `AdmissionsAreSound` | `Handshakes`: a record that was taken stays gone, so one handshake at most has it; its epoch and the epoch looked up after it agree. |
| | `TheCloseIsLast` | `NothingFollowsTheClose` | `SocketOK` relates three things the property does not mention together: the line of the lock, the state of the close coordinator and what is on the wire.  Whoever transmits is the head of the line, and its event was allowed in the state that its transmission left. |
| | `CoordinationStaysSound` | `CoordinationIsSound` | `JWKSInv`.  That one refresh runs is not inductive: `OneFlight` says that whatever runs is the refresh the coordinator names, and a request starts one only when it names none.  `Kept` is a recursive function; that deletions only shorten the dictionary is an induction, stated for a set of numbers and not for an operator. |
| | `KeysStayCurrent` | `ServedKeysAreCurrent` | `RequestOK` and `StillCached` follow a request over its awaits: until something is published the cache holds what the request read or nothing, a woken request has seen a publication or a failure, and one that forces a refresh missed its key in the snapshot it holds, so it never falls back to it. |
| | `FetchersOutliveFetches` | | `Owned`: the provider of the running refresh has not left, or waits for this very task, or gave its close up and never closes the fetcher. |
| | `RefreshesStayOwned` | `RefreshesAreOwned` | under `~CloseCancellable`: what the coordinator names without a task is what a provider at `gather` still holds. |
| | `ForcedFetchesStayRationed` | `ForcedFetchesAreRationed` | `Rationed`: while nothing ordinary has replaced the keys since the last forced fetch, the generation that is used up is the one in the cache, also after the forced refresh published (`ForcedAfter`), failed or died, and after an eviction.  A request that would force another one found its own generation in the cache (`RequestOK`). |
| `ProviderProofs` | `RefreshesTakeTurns` | `RefreshesAreSerial` | `LocksOK`: the count of a lock object is the number of requests that refer to it, so a lock that an identity still uses is not given to another; with as many lock objects as requests there is always a free one (a pigeonhole).  `TokensOK`: a token belongs to one identity and is not settled while somebody may still present it. |
| | `LinksStayAccountedFor` | `LinksAreAccountedFor` | every operation of the aggregate is one step; those of the refresh that write to the vault do so for an identity whose link still has the version they read. |
| | `AccountsKeepALogin` | | an action property: one half of `NothingIsStranded`. |
| | `DiscardsLeaveATrace` | | the other half.  `TracesOK` follows the token a request read: what the provider refused is dead and stays dead (`OnlyDies`), a revocation that did not fail reached the provider, and one that did keeps its material before it comes to delete.  The hypothesis `[]SoleRevocations`, no two revocations of one provider account at a time, is about the retry store, which keeps one record per provider account (section 3). |
| | `NothingStaysStranded` | `NothingIsStranded` | both halves, where one request revokes. |
| | `LoginsStaySound` | `LoginsAreSound` | `ClientsInv`: what each stage of a login has established stays with the flow (`StageOK`): the transaction is its provider's, the key selected has the identifier that the token names and the verifier prepared is that key's, since `Prepared` reuses an entry for the exact key only.  A provider is built over its own issuer's keys (`ClientOK`), so the verdict is on its own issuer's word. |
| | `GrantsStayKept` | `GrantsAreKept` | `GrantOK` carries the agreement with the server over the request: while an answer is on its way the caller's tokens are behind by exactly that answer, which `KeptRefresh` and `GrantedScopes` make up for. |
| | `ProperTokensPass` | `ProperTokensAreAccepted` | an action property, from the same invariant: nothing but the verdict ends the wait for it (`VerdictIsHeard`), and every check of the verdict follows from `MadeFor`. |
| `OAuthFlowsProofs` | `EffectsAreDue` | `EffectsAreAuthorized` | `FlowsInv`.  An effect is due to one place at a time, a request or a pending transaction, and after it to none: its grant is burnt and its transaction consumed.  The epoch of a grant is never ahead of the account's, and the callback compares it with one it reads later; an epoch only grows, so it was the account's all the time between. |
| | `ExpiredTransactionsMakeRoom` | `OnlyLiveTransactionsFill` | under `HasClock`: only `create` refuses for want of room, and what it has purged holds live transactions only. |
| `FactorsProofs` | `CodesCountOnce` | `CodesAreAcceptedOnce` | `FactorsInv`.  `UseOK` ties every acceptance in the history to the state that refuses a second one: the method's counter has passed it, the code is not among those left. |
| | `FactorsComeFromGrants` | `FactorsAreSound` | `IssuedOK`, `MethodsOK`, `PasskeysOK`: each factor names the ceremony it came from, each ceremony the grant, and what was issued keeps its account and purpose for ever. |
| | `CountersAdvance` | `AssertionsAdvance` | what a worker decided about a counter stands as long as the credential's version, which the step that writes compares (`CoroutineOK`). |
| `RequestPipelineProofs` | `KeysNeverRevive` | `KeysStayDead` | `KeyMoves` reduces every step to four ways a record changes, all at one time: a record once revoked keeps its end or gets an earlier one. |
| | `UsesAreKept` | | `UsesInv`: a use that was observed is in the sink, in the buffer, with the flush, or among those the documented window gives up. |
| | `TokensAndKeysStayApart` | `TokensAndKeysAreKeptApart` | under `DefaultTypes`, from the types of the header: a slot, a capability and the logout profile accept disjoint ones. |
| | `NobodyIsAdmittedOnLess` | `AdmissionsAreSound` | the next four share `EvaluatorInv`, described below.  Here: the plan compiled from a policy has the alternatives the policy means (`AlternativesMeet`), every outcome of an admitted request stands for a credential of it that was good, and all of them name one principal (`OnePrincipal`). |
| | `NobodyIsRefusedWithoutGrounds` | `RefusalsAreDeserved` | each failure keeps its ground until the answer: a malformed header, a credential that was not good and standing throughout, two principals, an unmet quorum, withheld authority.  `Terminal` puts what could not be asked first, so 503 and `faulted` agree. |
| | `NobodyMayDoMore` | `AuthorityIsBounded` | `NarrowedFor` is established where the authority is read: `ResolutionNarrows` says that narrowing keeps within the one version read and within every bound, `OutcomeCarries` and `OutcomesNarrow` that the bounds are those of all credentials sent, the connect token's included.  What assurance asks for is decided in the step that answers (`AssuredAt`). |
| | `CookiesAreCovered` | `CookieAdmissionsAreCovered` | if a request meets its route with the session and would not without it, some alternative of the compiled plan names the session (`PlanMeans`, `CookieRoutes`), and from that `CSRFRequired` and `Starts` derive the protection. |

**The evaluator.**  An answer is compared with what was true while the request waited, so the four properties speak of
`history`: the credentials that were `good` at some time of the request, those whose account was `standing` at some time, those that were both
throughout (`steady`), and the `versions` of everybody's authority.  The properties bind only at `done` and so say nothing of how a request gets there; they are
conjuncts of the invariant, not the invariant.  `EvaluatorInv == WorldInv /\ RequestInv`.
- `WorldInv` is what the world keeps by itself: keys have records that only age, what the ring signed is `Issued` by a key it has or had,
  a session is revoked when its provider logged it out.  It makes acceptance mean something: what an authenticator accepts is good (`AcceptedTokens`, `AcceptedIsGood`).
- `RequestInv` is what is known at each phase (`Progress`).  At `authenticate` every credential done with was good, or the request is marked invalid and there is blame for it;
  at `resolve` all were good, and those done with stood; at `authorize` the quorum is met by one principal;
  at `guard` the context is that principal's and within bounds (`NarrowedFor`); at `done` the answer has its reasons (`Concluded`).
- A step of the world keeps `Progress`, since `good`, `standing` and `versions` only grow and `steady` only shrinks, and `Progress` claims no more than that.  A step of the request
  `Leads` to a phase whose knowledge it has, or to a refusal with grounds (`TurnedAway`).

The theorems hold for any sets of accounts, families, identities, tokens, keys, clients and requests, any policies and any bounds, as far as the
constants satisfy the assumptions that their modules declare.  TLC evaluates these in each run.  They say
- of the configuration what the code refuses at start-up: lifetimes, windows, limits and attempts are positive, drifts and counts in their ranges, an
  account that starts exists;
- of nulls (`None`, `NoKey`, `NoOne`, `NoLock`, `NoGrant`, `NoTransaction`, `Unkeyed`, `Never`) that they are not values, receipts or attempts; clients and subjects of the limiter are disjoint, which the digest's prefix achieves;
- of the bounds that they are natural numbers large enough for the initial state;
- `ProviderAssumption`: the sets of identities, requests and lock objects are finite, and there are as many lock objects as requests (a Python object can always be made); `ProvidersAssumption` of `JWKSProvider`: so is the set of JWKS providers;
- `ProvidersAssumption` of `ProviderClients`: a provider is discovered or has fixed endpoints and there is one, the required scopes are some of the allowed ones, and no set of scopes is the null of an answer that leaves them out;
- `OutstandingAssumption`: the tokens outstanding at the start belong to members and have attempts left;
- `KeyAssumption`, `PartiesAssumption`, `TokensAssumption`: the keys there are first are keys; the application registers the three mechanisms session, bearer and API key, in any order; whoever a key, a session
  or a connect token names has some authority, possibly withheld; the local issuer's access tokens have one trust slot that accepts their audience and lifetime; nobody else has the ring's private keys, and a provider's key
  signs for this API only the tokens listed as genuine, which were issued by the start and whose times a slot accepts;
- `ExpectAssumption`: `Expect` says of each route what its policy says in words, of sets of slots: any of them, all of them, so many of them, nobody in particular.  In the run it is a table written by hand, which TLC compares with this
  reading.  The theorems are about the compiler and the evaluator against it: derived plans, alternatives, optional and replaced quorums.

Some theorems have a hypothesis besides.  `TokensAndKeysStayApart` and the four about the evaluator assume `DefaultTypes`, that the trust slots accept the types of access tokens only.  They do by default
(`accounts/_access_tokens.py`, `providers/jwt/_claims.py`) and in the run; an application that lets a slot accept `capability+jwt` gives the separation up.
`ExpiredTransactionsMakeRoom` assumes `HasClock`, as in the run: a transaction store made without a clock purges nothing when one is created (`_transactions.py`).
`RefreshesStayOwned` assumes that nobody cancels `aclose`, as in `jwks_close`: a caller that cancels it after it cancelled the task may leave a dead reference
behind.  `DiscardsLeaveATrace` and `NothingStaysStranded` assume that revocations of one provider account do not overlap, as in `provider_tokens`.  The other theorems about the JWKS provider hold with and without such cancellations.

Only model-checked:
- the liveness properties `NobodyWaitsForEver`, `DoomedSocketsEnd`, `RequestsEnd`, since the prover handles neither fairness nor `ENABLED`;
- `ConformingStoresPass` and `FaultsAreReported` of `StoreConformance`.  The suites are fixed scripts against fixed stores, a finite family that the run goes through in full,
  so that a proof would only repeat TLC's enumeration.

## 6. What is not modelled

Cryptography, token text, password policy and hashing, Google IAP, header and document parsing, JSON layout, OpenAPI documents, the CLI,
logging, HTTP framing: values that the properties do not tell apart, or pure functions.  Configuration and the plugin:
start-up wiring, after which nothing changes except through the modelled components.  The JWKS document parser and the HTTP fetcher: a
fetch is a step with an outcome.  Protocols and value types: the stores and services that use them are modelled.

Left out of modelled parts: password
expiry of sessions (one comparison), trusted proxies, `list_sessions` and lookups by external reference (reads only), unsupervised
anonymous sockets, origin parsing and the policy fingerprint of connect tokens, `max_age` reauthentication URLs, URL normalization and the Keycloak claim helpers,
the Google and Keycloak factories, the resource server's pure validation, key versions of the secret protector, denial events of the limiter.  A revocation between the handshake's checks and
the registration with the revocation source: what the source does with it is its contract.  Faults of a
store inside its own operation: a store call either happens or fails without effect.  A store other
than the reference ones: the models say what the services achieve over stores that
keep the contract `testing.py` demonstrates, and `StoreConformance` what its suites find out about another.

## 7. Plan

All modules of the inventory that keep state exist, and every safety and action property of the runs is a theorem, but for the finite ones of `StoreConformance`.
What could follow, in order of what a mistake would cost:

- the retry store with a record per token instead of per provider account, should the code change: `DiscardsLeaveATrace` would then lose its hypothesis;
- `WebSocketConnections` and `RequestPipeline` composed, so that the admission of a handshake and the socket's life are one history;
- the plugin's start-up checks as a model of their own, from which the assumptions on constants above would follow.

Liveness stays with TLC (section 5).
