# A specification of axis-flow

axis-flow is an identity service: a Go backend (`src/axis-flow-back`) over
PostgreSQL and Redis, and a React single-page frontend (`src/axis-flow-front`).
This directory holds TLA+ modules of its core logic, the TLC configurations
that check them, and proofs of their main theorems.  Line numbers below refer
to `src/axis-flow-back/internal/` unless a path says otherwise.

## 1. Inventory

| Part | State it keeps | Operations | Modelled in |
|---|---|---|---|
| Identity tables (`db/migrations`, `repository/`) | accounts, roles of accounts, sessions, one-use tokens, audit log | one SQL statement per repository method, each its own transaction | `IdentityStore` |
| Authentication (`service/auth_service.go`) | none besides the tables | `Login`, `RefreshToken` (with `issueTokenPair`) | `AuthService`, abstractly `SessionLedger` |
| Accounts (`service/user_service.go`, `token_service.go`, `activation_service.go`, `handler/activation_handler.go`) | none besides the tables | `CreateUser`, `ResetPass`, `DeleteAllData`, FCM tokens | `AccountService` (FCM tokens: no, see section 5); with the authentication service `Identity` |
| Listings (`ListByRole` of the user handler, service and repository; `api/usersClient.ts`, `UsersPage`) | the frontend's cached list, page number and filters | answer one page of one role, fetch and merge all roles, page and filter | `UserListing` |
| Rate limiter (`middleware/ratelimit.go`) | one Redis counter per client and path | count, refuse, set the expiry | `RateLimit` |
| Access control (`middleware/jwt.go`, `rbac.go`, `isAdmin` of the handlers, the router) | the claims of a JWT | sign, admit or refuse | `AccessControl` |
| Role catalogue (`handler/role_handler.go`) | none | two read-only queries | no |
| Server lifecycle (`cmd/server/main.go`, `config/`, `telemetry/otel.go`) | the process, its listener and connections | start, probe, signal, shut down, die, start again | `Server` |
| Logging, metrics, tracing (`middleware/logger.go`, `metrics.go`, `logging/`) | counters that only Prometheus reads | record each request | no (the tracer's start and end: `Server`) |
| Frontend session (`store/authStore.ts`, `api/`, `LoginPage`, `Sidebar`, route guards) | access token and user in memory, logins in flight, the tab's history, the query cache | log in, log out, navigate, fetch, reload | `WebSession`, with the cache `Tab` |
| Frontend pages | form state | layout | no |
| `dev.sh`, `Makefile`, `db/seeds` | none | start processes, insert rows | no (initial states) |

How they interact: a request passes the middleware (rate limiter, JWT, roles),
then a handler, which calls a service, which calls repository methods one after
the other.  `net/http` runs every request in a goroutine of its own.  Requests
share nothing but the tables and Redis.  No service opens a transaction, so
between any two repository calls of a request, anything another request, an
operator with a database console or the clock may do can happen, and a request
may stop there for good: a statement fails, the client leaves (its context is
cancelled), the process is killed.

What is hard, part by part, and what makes the part correct:

* **Authentication.** A refresh checks a session, checks its account, revokes
  the session and inserts a new one in four statements.  Correct means: the
  revoked session and the new one belong together, races and failures are
  bounded in what they can do, no account gets a session out of nothing.
* **Accounts.** Creation is four statements, redemption of a token six.
  Correct means: addresses are unique; a token activates its own account, once;
  an account that can be activated is complete.
* **Rate limiter.** INCR and EXPIRE are separate calls.  Correct means: the
  number of counted requests per window is bounded, and a refusal ends.
* **Access control.** A JWT is a snapshot of the account.  Correct means: the
  gates agree with each other and staleness is bounded by the token's
  lifetime and the time its request took to sign it.
* **Listings.** A list is read in several requests while accounts come and go.
  Correct means: nobody who was there all along is missed, nobody appears twice
  or after being deleted.
* **Both services together.** Accounts are activated, closed and deleted while
  people log in to them.  Correct means: a session goes back to a redeemed token
  and to an instant at which its account could be used.
* **Server.** Signals, a failing listener, the shutdown's limit and the death of
  the process meet requests in flight, and the limiter's key outlives them all.
  Correct means: nothing a request uses is closed under it, no signal is lost,
  a restart does not change what the limiter promises.
* **Frontend.** Answers arrive after the page that asked is gone.  Correct
  means: token and user belong to the same account, and so does what is shown.

`PROJECT.json` lists every hazard at its line, with the properties that cover
it.

## 2. Modules

`IdentityStore` holds the three tables as functions from ids to rows, and one
operator per repository method: an action formula for a method that writes, a
set of rows for one that reads.  Ids are `uuid.New()` values and are never used
twice: a row is `unborn`, then stored, then perhaps `gone` after a truncation.
The UNIQUE and foreign-key constraints are conjuncts of the INSERTs;
`UpdateUser` keeps that an UPDATE which matches no row is no error.  A counter
(`failed_login_attempts`) is reduced to whether it is positive, timestamps to
whether they are set, expiries to whether they have passed.  Tokens stand for
their raw values: hashing is injective for what the properties ask.

`AuthService` extends it with the requests of `Login` and `RefreshToken`.  The
frame of a request holds the locals of the Go function; each action is the
stretch of code up to and including one repository call:

| Action | Code (`service/auth_service.go`) |
|---|---|
| `LoginLookup` | `FindByEmail`, `CanLogin`, bcrypt (72-90) |
| `LoginFailed` | `IncrementFailedAttempts` and the refusal (92-97) |
| `LoginRecord` | `ResetFailedAttempts`, `UpdateLastLogin` (102-103) |
| `RefreshLookup` | `FindByRefreshTokenHash`, revoked, expired (121-133) |
| `RefreshOwner` | `FindByID`, `CanLogin` (135-142) |
| `RefreshRevoke` | `Revoke` (145) |
| `IssueSession`, `IssueRefused` | `issueTokenPair` (183-231), its INSERT accepted or refused (the account is gone, or the client named a `device_type` the CHECK does not list) |
| `Reply` | the handler's answer reaching the client |
| `Abandon` | a failing statement, a client that left, a killed process |

Three variables are not in the program: `held` is what clients were given,
`lineage` remembers which session was rotated into which and by which request
slot, `sawActive` whether a request's account was ACTIVE at some instant since
the request began.

`AccountService` does the same for `UserService.CreateUser` (`Create...`
actions) and `ActivationHandler.ResetPass` (`Reset...` actions, including the
second look-up of the token, the consumption, bcrypt and the two updates of
`ActivateUser`).  A password that bcrypt refuses is the value `Null`.
`delivered` holds the tokens whose raw value somebody has: `CreateUser` drops
its raw token, so only tokens that an operator minted (through
`ActivationService.GenerateActivationToken`, which no handler calls) can be
presented.  `openAtStart` and `redeemers` are history.

`RateLimit` has the counter of one key, its time to live, the requests that
created the key and have not yet set its expiry, and, as history, how many
requests were admitted in the last `n` ticks for each `n` up to `Window`
(`admitted`) and whether a request that created the key failed before its EXPIRE
(`orphaned`).

`Server` runs the limiter inside the process that serves it.  `main` is the
next statement of `main()`, `deferred` its deferred calls in the order they were
made, `listener` the goroutine of `ListenAndServe`, `quit` the one-slot channel
of `signal.Notify`, `drained` the time since `srv.Shutdown` was called, `conns`
the stage of each connection.  `asked` and `ended` are history: was a signal
delivered, and how did the process end and did it cut requests short.

| Action | Code (`cmd/server/main.go`) |
|---|---|
| `LoadConfig` | `config.Load`, the production guard (40-50) |
| `InitTracer`, `ConnectPool`, `ConnectRedis` | open, defer the release, or `os.Exit(1)` (56-104) |
| `Notify`, `StartListener`, `Listen`, `ListenerFails` | `signal.Notify`, the goroutine (247-257) |
| `Connect`, `Read`, `Count`, `Expire`, `PingPool`, `Respond`, `HangUp` | a connection and its request: a login behind the limiter, or `/health/ready` |
| `Signal`, `BeginShutdown`, `ShutdownDone`, `ForcedExit` | `<-quit`, `srv.Shutdown` and its 30 s (259-268) |
| `Release`, `Return` | the deferred calls, the end of `main` |
| `Kill`, `Launch` | the process dies, and is started again |

`Server` extends `RateLimit` and implements it (`ImplementsLimiter`): a lost
answer to `INCR`, which the Redis client repeats, is one more `INCR`
(`FailOpen`); a request that dies between `INCR` and `EXPIRE` is an `EXPIRE` that
failed (`ExpiryLost`); everything else of the process leaves the key alone.

`Identity` extends `AuthService` and `AccountService` and runs the requests of
both over the same tables.  It adds history only: `sawUsable`, was a request's
account live and ACTIVE at one instant since the request began, and `unsettled`,
the accounts for which no password was stored since they were last not ACTIVE.
Requests are not cut short in it, because the failures of each service are
checked in the module of that service.

`SessionLedger` is the abstract specification of `AuthService`: no accounts, no
statuses, no tables, only refresh tokens (`unissued`, `live`, `spent`, `gone`)
and the requests that have *claimed* one.  A token may be claimed while it is
live and has not lapsed; it is spent by a claimant; each claimant may add one
successor, after the token was spent, for the same owner.  Several successors
are several claims, which is exactly what the race of `RefreshToken` allows.
The mapping is at the end of `AuthService`: a row of `identity_sessions` is the
entry of its token (`LedgerOfTables`), `revoked` is `spent`, and a refresh holds
a claim from its lookup to its INSERT (`ClaimsOfFrames`).

| Step of `AuthService` | Step of `SessionLedger` |
|---|---|
| `RefreshLookup` | `Claim` |
| `RefreshRevoke` | `Spend`, or none if the session is already revoked or gone |
| `IssueSession` | `Grant` for a login, `Succeed` for a refresh |
| `RefreshOwner` refusing, `IssueRefused`, `Abandon` of a refresh | `Withdraw` |
| `Expire`, `Wipe` | `Lapse`, `Erase` |
| everything else | none |

`AccessControl` extends `AuthService` with what the JWT is about: the role an
account has (an operator may change it at any time), the role that a request has
read (`found`), the JWT that it has signed and not yet handed out (`claims`), the
JWT of each pair (`access`), and a clock.  Its actions are `AuthService`'s with
`issueTokenPair` split where other steps may come between: `FindPrimaryRoleCode`
(191), whose failure leaves the JWT without a role, `Sign` (194-208), from which the
lifetime counts, and `Issue`, the INSERT (226).  The gates are state functions:
`ParseAccessToken` (signature and expiry), `RequireRoles`, `IsAdmin`, one
`...Admits` per handler, and `Served` puts them together the way the router
does.  `adminAge`, `activeAge` and `reqAge` are history: how long ago an account
was last an administrator, was last ACTIVE, and how long a request has run; so are `lag` and `late` of a JWT,
how long before the signature its request began and read the role.

`WebSession` is one browser tab.  `logins` holds the locals of the calls of
`handleSubmit` in flight, each two requests long (`LoginAnswered` after
`POST /auth/login/`, `MeAnswered` after `GET /auth/me/`); `waiting` is the
`isLoading` of the mounted `LoginPage`; `entries` and `at` are the history of
the tab, which `ProtectedRoute` rewrites (`Guarded`); `creating` is the
navigation that a submitted `CreateUserPage` performs 1.5 s after its answer.
`Bearer` is the request interceptor.  `overlapped` is history: was a login
answered while somebody was signed in.

`Tab` puts next to it the cache of the query `['users']`: `list` is whose token
its data was fetched with, `fetch` whose token the running fetch carries.
`DashboardPage`, where every login ends, mounts the query, whose data is stale at
once; a fetch that is running is taken over by whoever mounts next (`Fetches`).
`Carry` says what a step of `WebSession` does to the cache: Sign out does
nothing to it, only `ReloadTab` empties it.  `mixed` is history: did somebody
sign in over a session or a running fetch of another account.  What the data
contains is in `UserListing`.

`UserListing` has the accounts that are not deleted (`live`), which of two was
created later (`newer`) and their roles, and two kinds of readers. `Ordered` is
the query's `ORDER BY created_at DESC`, by the place of each account. An API
client reads a role page by page (`ReadPage`, one request each). The frontend's
`listAllUsers` asks for the first page of every role at once (`Fetch`); each
request settles by itself (`Settle`), with the rows of that moment or as a
failure, and `Store` merges what was fulfilled into the query's `cache`
(`Merged` and `AddNew` are the two nested loops of the code). `view` is the
state of `UsersPage`: the page number and the accounts its filters select;
`CurrentPage`, `TotalPages` and `Rows` are computed from it and the cache as the
page does. `due`, `steady` and `seen` are history: whom the reader, and whom a
fetch, has a right to expect, and who was visible during the fetch.

The modules named `MC...` add the symmetry sets of the runs, the modules named
`...Proofs` hold the theorems.  Operators marked "Mutant" are plausible bugs in
one definition; every property of a passing run is violated when its mutant
replaces the definition.

## 3. Runs

Passing runs:

| Run | Instance | What it shows |
|---|---|---|
| `auth_safety` | 2 accounts, 3 session ids, 2 requests; failures, truncation | `RotatedParentRevoked`, `OnePairPerRequest`, `IssueNeedsActive`: what survives every race and failure |
| `auth_rotation` | 1 account, 3 session ids, 2 requests; truncation, no failures | every revoked session has a successor, the client gets one (or the tables are truncated first), every request ends, and all of it is a behaviour of `SessionLedger` |
| `account_safety` | 2 accounts, 1 address, 2 tokens, 2 creators, 2 resets; failures, truncation | unique addresses; an account with a token of `CreateUser` has its role; no password without a consumed token of that account; a token consumed before a request began is not consumed by it |
| `identity` | 1 account, 2 tokens, 2 session ids, 1 request of each kind; operator, clock, truncation, no failures | every session goes back to a redeemed token of its account; an account that is ACTIVE under an old password is in the hands of a `ResetPass` about to store a new one; a session is issued only to an account that could be used at one instant of the request; every request ends |
| `server_lifecycle` | 2 connections of one client, limit 2 in 4 ticks of 15 s, a shutdown of at most 2 ticks; every call, the listener and the process may fail | pool and Redis outlive the requests; no signal cuts one short or is lost; whatever dies and restarts, the counter admits at most twice the limit in any window (who is let through because the answer of INCR was lost comes on top), only a stop between INCR and EXPIRE leaves a key without expiry, and any other refusal ends: the server implements the limiter |
| `access_gates` | 1 account, 2 pairs, 1 request, JWTs that live 1 tick; failures, truncation, operators | whoever is served was an administrator, or ACTIVE, no longer ago than the JWT was signed plus the time its request took from reading the role, or checking the status, to the signature (`late`, `lag`), however often the pair was refreshed since |
| `tab` | 2 accounts, 2 logins, 4 history entries | protected pages need a session, token and user match unless logins overlap, no page waits for a login that has ended, and the list of another account is shown only while the own one is fetched (unless somebody signed in over a session or a fetch) |
| `user_listing` | 3 accounts, 2 roles, 1 account per page of the backend and 1 row per page of `UsersPage` | reading on misses nobody who had the role all along unless somebody ahead of them lost it; the merged list repeats nobody, drops nobody who was on a first page all along, and revives nobody; the pages are the list, and none on display is empty in vain |

Each violation run checks one sentence that a comment in the code states and
the code does not keep; `PROJECT.json` quotes it under "findings":

| Run | Sentence | What happens |
|---|---|---|
| `refresh_race` | "revoke the old session and issue a new pair" | one refresh token, presented twice at once, yields two pairs |
| `token_consumed_twice` | "single-use constraints" | two requests consume one token |
| `account_without_role` | "logically atomic" | an unknown role leaves an account without one |
| `web_mismatch` | "sends explicit Authorization header when token is passed" (a test) | the interceptor replaces it by the stored token: the new token is stored with the old user |

Other places where the code and its comments part, seen while modelling and
without a run of their own:

* With failures enabled `RevokedHasSuccessor` and `ReopenedUnderNewPassword`
  fail too:
  a refresh cut short between `Revoke` and `Create` leaves its client without a
  token, a reset cut short between the two updates of `ActivateUser` leaves an
  account ACTIVE under the password it had before, or that nobody has.  That is
  why their runs have no failures.
* `ResetPass` opens an account whatever closed it: an open token makes a
  SUSPENDED or LOCKED account ACTIVE again (`service/activation_service.go:45`),
  for an instant even under its old password, with which a login may get in.
  `ReopenedUnderNewPassword` says how long that instant is.
* `NewLogger` "logs each request" (`middleware/logger.go:69`), but Recoverer is
  registered before it (`cmd/server/main.go:140`): a handler that panics unwinds
  through the logger and the metrics, and leaves neither a line nor a count.
* A shutdown that takes more than 30 s ends in `os.Exit`, which runs none of the
  deferred calls: the tracer loses its last spans.
* `CreateUser` assigns the raw activation token to the blank identifier
  (`service/user_service.go:138`), so no token it mints can be redeemed.
* `ResetPass` consumes the token before bcrypt sees the password: a password of
  more than 72 bytes spends the token and changes nothing
  (`handler/activation_handler.go:68`).
* The audit entry of `CreateUser` never sets its `IPAddress`, and `ip_address`
  is an INET: the INSERT is refused every time, and the refusal only logged.
* The limiter's "sliding window" (`middleware/ratelimit.go:21`) is fixed:
  `AtMostTwiceLimit` is the best bound there is.  A failed EXPIRE refuses its
  client for ever, although the limiter "fails open" (`orphaned`).
* The lists of administrators' roles in `handler/user_handler.go:19` are role
  names, those of the routes under `/api/roles` are role codes, and a JWT carries
  a code: no seeded role passes `POST /api/users/`.
* `JWTAuth` stores the user id under a key of the middleware's type, the user
  handlers read one of their own (`CtxUserID`): `updateFirebaseToken` is served
  to nobody.  Were it, its statement would fail: no migration creates the column
  `firebase_token`.
* The frontend keeps neither the refresh token nor the expiry of the access
  token: an expired token stays in the store until Sign out, while every request
  is refused.
* Sign out does not end a login in flight: its answer signs in all the same
  (in `tab`, `Logout` between `Submit` and `MeAnswered`).
* The answer of `filtradoUser/{role}` leaves out the role of an account
  (`handler/user_handler.go:129`), by which the users page filters and the
  dashboard counts administrators: both find nobody.
* `listAllUsers` says "Fetch all users" and fetches the first 20 of every role.
  It never rejects, so `UsersPage` never shows that loading failed: with an
  expired token it shows an empty list.

**Bounds.**  `SpareSession`, the guards of `CreateLookup` and `OperatorMint`
start a request only while ids are left for it; a request in flight therefore
never lacks one.  Two requests suffice for every race of the code, which is
always between one request's check and another's write; two accounts suffice
for anything about "the other account's" row.  Three session ids let a rotation
race twice.

* `identity`: one request of each kind is what two services need to meet, since
  the races of two requests of one kind are in the runs of the services; the
  second token lets an account be reopened after its first redemption, the
  second session id lets a session be rotated.
* `server_lifecycle`: a tick is 15 s, so that the window is a minute and the
  limit of the shutdown half of it, as in the code; two connections are the one
  that creates the key and another one, or one that is served while the other is
  only being read.  Limit 2 (the code has 10) tells "first", "last admitted" and
  "refused" apart.  The counter stops at `Limit + 1`, because the code only
  compares it with `1` and with `limit`; `drained` stops at its limit.
* `access_gates`: ages stop at `AgeBound`, so that delays of up to two ticks
  between lookup and signature are told apart; a JWT that lives one tick is enough to be signed, refreshed and
  outlived; one code of each list of administrators and the absence of a role
  are the cases the gates tell apart.
* `tab`: four history entries allow a login page behind and ahead of protected
  pages; one user is created at a time; one query is cached, since queries do
  not influence each other.
* `user_listing`: one account per page gives three accounts three pages and two
  roles two answers that may overlap; API clients read while the frontend is
  idle (the two meet only in the tables), and the filters and buttons of
  `UsersPage` are used between fetches, of which they read and write nothing.
  Accounts differ in `created_at`; the order of equal ones, which the query
  leaves open, is not modelled.

When ids run out nothing is left to do, which is why the runs of the services
do not check for deadlock; those of the server, the listing and the frontend do.
Symmetry is used only in runs without liveness.

**Fairness.**  Weak fairness of `Serve`, `ServeCreate` and `ServeReset` of each
request (in `Identity`, of `HandleAuth`, `HandleCreate` and `HandleReset`):
`net/http` runs a handler until it returns, and without failures its calls are
answered.  In `Server`, time passes, `main` goes on once it has called
`signal.Notify`, and a request that created the key makes its second call.
Nothing is assumed of handlers there: they may hang, and the limit of the
shutdown still ends the process.  No fairness is assumed of clients, operators,
signals, failures, restarts or truncations, nor, outside `Server`, of the clock.

## 4. Proofs

`AuthServiceProofs` proves, for every number of accounts, sessions and request
slots, and whether or not failures and truncation are enabled:

* `TypeCorrect`: `[]AuthTypeOK`;
* `RotationSafe`: `[]RotatedParentRevoked`;
* `RaceBounded`: `[]OnePairPerRequest`;
* `IssueSafe`: `IssueNeedsActive`, an action property.

They rest on the named assumptions on the constants (`Null` and the placeholder
are not ordinary values, operator statuses are statuses) and nothing else.
None of the properties is inductive.  The inductive invariant is `AuthInv`
(in `AuthService`): per request, `FrameShape` (which locals are set at which
stage), `FrameSession` (a refresh still points at the session it read unless
both it and its account were truncated), `IssueAfterRevoke` (between `Revoke`
and `Create` the session is revoked), `SlotHasNoPair` (a slot about to rotate a
session has no pair from it yet) and `ActiveSeen`; and of the tables,
`ForeignKey` and `ParentsRevoked`.  The argument: a pair is inserted only after
its parent was revoked (`IssueAfterRevoke`); a revoked session passes no later
`RefreshLookup`, so a slot that obtained a pair from a session never starts on
it again (`ParentsRevoked` gives `SlotHasNoPair`); a truncation removes parents
and children together because it removes everything.

Without failing statements it also proves `RotationComplete`,
`[]RevokedHasSuccessor`.  `~ Faults` is a hypothesis because a refresh cut short
after `Revoke` violates the property (section 3).  `RotationInv` adds to `AuthInv`
that rows not stored are blank (`RowsBlank`), so that a session is never inserted
with a revocation left over from another.

The same module proves `LedgerImplemented`, that `AuthService` implements
`SessionLedger` under the mapping of section 2, from `AuthInv`:
`FrameSession` gives the successor the owner of its parent, `IssueAfterRevoke`
that the parent is spent.  One lemma per kind of step says which step of the
ledger it is.

`IdentityStoreProofs` has the lemmas both services rest on: which rows an UPDATE,
an INSERT or a truncation leaves as they were, and that none turns a row back.

`AccountServiceProofs` proves, for every number of accounts, tokens, `CreateUser`
and `ResetPass` requests, `AccountTypeCorrect`, `EmailsUnique`,
`PasswordsNeedTokens`, `MintedAccountsHaveRoles` and `LateReuseIsRejected`.  The
inductive invariant `AccountInv` says what a request may rely on between its
calls: a `CreateUser` past its INSERT has an account, past `AssignRole` one with
a role (`CreateInv`); a `ResetPass` has a token and its account, which only a
truncation takes away, and then both (`ResetHasToken`); if its token is open now
it was open when the request began (`ResetBeganOpen`), because nothing reopens a
token; and before it activates anything its token is consumed (`ResetConsumed`),
because nothing takes a consumption back but the truncation of everything.

`AccessControlProofs` proves, for every lifetime of a JWT and any number of
accounts, sessions and requests, with failures, truncation and operators:
`AuthImplemented` (every behaviour is one of `AuthService`, so that `AuthInv` may
be used), `AccessTypeCorrect`, `RolesAgeOut` and `StatusesAgeOut`.  The inductive
invariant `AccessInv` bounds how old the claims of a JWT are while it lasts:
`Dated` (what an account is now has age zero), `RequestDated` (past the check of
the status, the account was ACTIVE at some time since the request began)
`FoundDated` (a role that was read is as old as its lookup)
and `ClaimsDated` (the role was read `late` ticks before the JWT was signed, the
status at most the duration of that request before).  Every age grows with the clock by the same
step, and a renewed pair inherits nothing from its predecessor but the account.

`IdentityProofs` proves for the composition of the two services `BothServices`
(`[](AuthInv /\ AccountInv)`: each step of one service keeps the other's
invariant), `SessionsNeedTokens`, `IssuesNeedUsable` and, for operators who do
not open accounts, `ReopenedUnderNew`.  As in the run, no request is cut short.
`IdentityInv` adds to the two invariants what a request of the one service knows
that the other made true: past its password, or past its session, a request
works for an account whose token was redeemed, unless the account was truncated
since (`RequestRedeemed`), and which was usable while the request was running
(`RequestUsable`).

`ServerProofs` begins with the limiter by itself: for every limit, window and
number of requests, `RateTypeCorrect`, `KeysExpire` and `TwiceAtMost`
(`AtMostTwiceLimit`, which is about the requests the counter admits: whoever is let
through because the answer of INCR was lost is not among them).  The argument of the last is in `WindowCounted`: as long as
a key has `ttl` ticks to live, everything admitted since its expiry was set, which
is `Window - ttl` ticks ago, is in its counter, and so at most the limit; the
whole window has at most one limit more, from before.  `SpansGrow` lets the older
part be dropped when the key expires.  `LoneCreatorAlways` adds that no two
requests are between INCR and EXPIRE at once.

Then, for every number of connections, limit, window and limit of a shutdown, it
proves `ServerTypeCorrect`, `RequestsServed` (`ResourcesOutliveRequests`) and
`SignalsSpare` (`NoEarlyCut`); `KeysOutliveServer` and `LimitOutlivesServer`, the
two promises of the limiter across shutdowns, deaths and restarts; and, where
failures are enabled, `LimiterImplemented`: every behaviour of the server is one
of `RateLimit` (which has no lost EXPIRE without failures, while a process that
returns from `main` may still lose one: the hypothesis is needed).  The
inductive invariant `ServerInv` lists what is deferred at each statement of
`main` (`DeferredInOrder`) and while which of them listener and connections exist
(`ServedInTime`).  The refinement needs `LoneCreator`: the end of a process takes
away all requests between INCR and EXPIRE in one step, which is one step of
`RateLimit` only because there is at most one.

`TabProofs` proves `PagesGuarded`, `PairsConsistent` and `WaitingEnds`
for every number of accounts, logins and history entries.  `WebInv` adds that
the store is filled and emptied as a whole (`StoreIsWhole`) and that
`GET /auth/me/` carries the login's own token unless it overlapped with a
session (`OwnBearer`).

Of the tab it proves `SessionImplemented`, every behaviour of `Tab` is one of
`WebSession` (so all of the above holds of the tab), `TabTypeCorrect` and
`ForeignListsAreBrief`.  `TabInv` adds to `WebInv` that a fetch which runs while
somebody is signed in is theirs, unless accounts were mixed (`OwnFetch`): an
account that signs in mounts the dashboard and either starts a fetch of its own
or finds one of its own running.

`UserListingProofs` proves, for every finite set of accounts, every list of roles
and all page sizes, `ListingTypeCorrect`, `ReaderMissesNobody`, `MergedOnce`,
`PagesAreTheList`, `FetchDropsNobody` and `FetchRevivesNobody`.  The inductive
invariant is `ListingInv`:

* `NewerIsOrder`: the times of creation order the accounts, which makes the place
  of an account on a list the number of accounts ahead of it (`OrderedNames`);
* `ReaderOnTrack`: whoever is due and has not been read yet is on a page the
  reader has still to ask for.  An insertion moves accounts to later places only;
  a departure moves those behind it to earlier ones, but they are no longer due
  then (`PlacesGrow`);
* `FetchOnTrack`: the answers name only accounts seen since the fetch began; while
  a request is pending, those on its account are on the first page; once it is
  answered, they are in the answer.

The properties of the merge and of the pages rest on what three loops of the code
compute for every input: the two of `listAllUsers` (`AddNewAdds`, `MergedNames`)
and the filter of `UsersPage` (`PassingNames`).  They are recursive functions over
the rounds of a loop.  `LoopRuns` shows that such a function exists, `Rounds`
that what a loop begins with and every round keeps holds at its end; both are
stated for sets of rounds and are proved from the well-foundedness of the naturals.
`PagesCover` cuts the list into pages by the same lemma.

The assumptions are those the modules name: the constants that stand for numbers
are positive, `Null` and the placeholders are not ordinary values, accounts are
finitely many.  The hypotheses of single theorems are `~ Faults` and
`"ACTIVE" \notin OperatorStatuses` (`RotationComplete`, `ReopenedUnderNew`) and
`Faults` (`LimiterImplemented`), for the reasons given.

Only model-checked: liveness, because the prover handles neither liveness under
fairness nor ENABLED.  That is `EveryRequestEnds`, `RotationReachesClient`,
`EveryAccountRequestEnds`, `RefusalEnds`, `SignalObeyed` and the fairness
that `ImplementsLimiter` promises.

## 5. Not modelled, and why

* The cryptography of JWTs, bcrypt and token hashes: a signature is either
  genuine or not accepted, hashing is injective.
* The counter of failed attempts and `last_login_at` are written, never read.
* Roles beyond the two lists the gates compare with: which codes are seeded is
  data.
* `GetProfile`, `GetLastCreatedID` and the role catalogue only read, and nothing
  depends on when.  The FCM token methods read and write a column that no
  migration creates: they fail.
* How a variable of the environment is parsed: `Server` tells well-formed from
  malformed.  Lifetimes of zero or less pass the parser (`config/config.go:96`);
  the models take lifetimes to be positive.
* Logging and metrics: the line and the counter of a request are functions of
  that request, nothing reads them back, and no code binds or groups attributes,
  which is what most of `logging/logger.go` is for.  `auth_login_success_total`
  and `auth_login_failure_total` are registered and incremented by nobody.
* `RoleGate` and the other components hide or lay out what the session allows:
  they are functions of the store and change nothing.

## 6. Plan

1. Done: `IdentityStore`, `AuthService`, `SessionLedger` and its refinement,
   `AccountService`, `RateLimit`, `AccessControl`, `WebSession`, `UserListing`;
   the compositions `Identity`, `Server` (which implements `RateLimit`) and `Tab`
   (which implements `WebSession`); the proofs of section 4.
2. Done: theorems for every invariant and action property that a run checks.
3. Left: the conditions under which the liveness properties hold, as far as they
   are safety (what every request that is not served waits for), and the
   composition of `AccessControl` with `Identity`, whose operators and tokens it
   has in a simpler form.
