# Formal model of the OpenAPI platform

The platform sells calls to HTTP APIs. A caller presents an API key; a dynamic
gateway resolves the route, reserves the price, proxies the call to an upstream
and settles the price afterwards. Administrators adjust balances and publish
routes. The server is one Nitro process per instance over PostgreSQL, with Redis
for what instances share.

This directory models the parts where money moves, where traffic is directed and
where instances, administrators and services work on the same rows: TLA+ modules
translated from the code, TLC configurations that check them on small instances,
and proofs for every size that TLAPS checks. Paths below are relative to the
repository.

## 1. The system

| Component | State | Operations | What makes it correct |
|---|---|---|---|
| Credit reservations (`server/services/credit-service.ts`) | `users.credits`, `api_keys.used_credits`, `api_credit_reservations`, `credit_transactions` | reserve, mark pending, link, release, finalize, retry, forced release and settlement, expiry | balances cover reservations, quota is exact, one charge per reservation, the journal explains the balance |
| Administrator adjustments (`admin-credit-service.ts`) | the same balances and journal | grant, revoke, reset, in batches | all or nothing; never below what is reserved |
| Gateway (`dynamic-gateway-service.ts`, `-access-`, `-billing-`, `-target-`, `-stream-`) | the request context, the response | authorize, proxy, persist the outcome, catch | only delivered responses are owed |
| After-response hook (`server/plugins/api-call-stats.ts`) | `api_calls`, daily statistics | write the call row, link, settle, release | the call log agrees with the charges |
| Retry worker (`server/plugins/credit-reservations-retry.ts`) | none of its own; a lease | expire, claim, settle, record attempts | every reservation ends |
| Distributed lease (`server/utils/distributed-lease.ts`) | a Redis key, a local set | run a task under a lease | at most one holder while the lease lives |
| API keys, accounts (`api-key-service.ts`, `admin-user-service.ts`, `user-service.ts`) | keys, quotas, users | create, configure, delete, ban, activate | an administrator remains; one sign-up bonus |
| Redemption, check-in (`redemption-service.ts`, `checkin-service.ts`) | codes, `last_checkin_at` | redeem, check in | uses and cooldown are respected once each |
| Routing (`routing-revision-service.ts`, `platform-*-service.ts`, `routing-runtime-service.ts`) | routes, targets, revisions, the active one; a compiled snapshot per process | publish, roll back, load, invalidate, resolve | the active revision loads and shows the last change; answers never go back and are bounded in age |
| Route patterns (`route-pattern.ts`, `routing-conflict.ts`) | none | match, rank, find conflicts | every published route can be reached; ids decide nothing |
| Rate limiter (`server/utils/rate-limit/`) | counters in Redis or memory | consume several windows | all or none, fail closed |
| Targets (`dynamic-gateway-target-service.ts`, `gateway-target-health-probe.ts`) | failures and ejections per target | order, try, fail over, probe | no target twice, none left out while the request may be repeated |
| Services (`platform-service-*`, `upstream-service-token-service.ts`) | connection, targets, what each service holds | save, push, recover, discover, change targets | "synced" means what is wanted now; nothing newer is undone; routed means configured |
| Catalogue, settings, reports, web interface | rows | create, read, update, delete | presentation and validation |

The components meet in the database. Publications take the lock of the one
runtime row; discoveries, pushes and the readiness of targets do not, and talk to
services between their transactions. A process that publishes invalidates its own
snapshot only; the others follow when theirs expires. The gateway, the hook, the worker and the
administrator all work on the same reservation through short transactions, each
of which can fail, or commit while its reply is lost; no lock is held between
them. The hard behaviours are therefore: two transactions that interleave at
READ COMMITTED; a reservation settled, released and expired by different actors
at once; a process that stops between two transactions; a retry of what was done
already. `PROJECT.json` lists them one by one under `hazards`, each at its line.

## 2. The modules

    CreditLedger          what every committed transaction does to the tables
      ^          ^
      |          +-- CreditTransactions   its statements, locks and rollbacks
      |                                   (implements CreditLedger)
      +-- GatewayBilling                  gateway, hook, worker, administrator
                                          (drives CreditLedger's actions)
    RoutePatterns         matching, ranking and conflicts of routes
      ^
      +-- RoutingRevisions                publication, rollback, the tables behind
    RoutingView           what an instance promises about the routes it shows
      ^
      +-- RoutingRuntime                  snapshot, shared load, stale window
                                          (implements RoutingView)
    ServiceControl        configuration and discovery of a managed service
    Accounts              redemption, check-in, activation, administrators
    GatewayRequests       rate limits, target order, failover, ejection

    <module>Proofs        theorems about each of them but RoutePatterns and RoutingView,
                          which those of RoutingRevisions and RoutingRuntime cover
    MC<module>            the instances TLC checks

### CreditLedger

One action per transaction, taken on the rows as they are when it commits.
`status[r] = "none"` says that no row is there; `unissued` is what the sequence of
ids can still issue, so that an id is used once. `transactions[u]` is the journal of a user
with the three columns that matter: amount, balance after, reservation.
`Total(S)` is the sum of the amounts of a set, written as the number of single
credits it holds, which keeps recursion out of a module that is proved about.

| Action | Code |
|---|---|
| `Reserve` | `reserve`: user row, unreserved balance, key quota, insert |
| `MarkPending`, `Retry`, `RecordAttempt` | `markReservationPending`, `retryCreditReservation`, `markReservationAttempt` |
| `Release`, `ReleaseExpired` | `releaseReservation`, `releaseExpiredReservations` (quota summed per key) |
| `Charge` | `finalizeReservation` when nothing settled the reservation before |
| `Adjust` | `batchAdjust`, a redeemed code, a check-in: any new balance that the reservations do not exceed |
| `DeleteUser`, `DeleteKey`, `SetAvailable`, `ConfigureKey` | `deleteUser` with its cascade, `deleteKey`, `updateUser`/`banUser`, `updateConfig` |

`Adjust` is the abstract promise of every other writer of balances; that the
grants, revocations and resets keep it is checked by `CreditTransactions`, and a
redeemed code or a check-in only adds to the balance in one statement. Accounts
and keys exist from the initial state on: creating one adds a row that nothing
refers to yet.

### CreditTransactions

A session runs one `db.transaction(...)`, statement by statement: `call` is the
transaction, `at` the next statement, `held` its row locks, `plan` the balances
an adjustment has computed. A locking statement waits until nobody else holds the
row and then sees its newest version; a plain SELECT sees what is committed;
the writes appear at the commit. `Abort` is a lost connection, a stopped server
or the victim of a deadlock. Transactions of a single statement or a single row
are one action.

Three simplifications, each harmless for what is checked. Writes are collected in
the commit: until then nobody else can see them, and the rows they change are
locked. Two filters are the widest any caller uses (`Releasable`, `Settleable`);
a narrower filter is a look at the row and an early return, which is allowed too.
Ids of reservations are ordered like `created_at`, and an expiry only sees rows
older than any still being inserted (its cutoff lies ten minutes back).

The module extends `CreditLedger` and keeps its tables, so the refinement mapping is
the identity: `ImplementsLedger` says that every step of `StatementSpec` that
changes a table is a step of the ledger. It is `Spec` with its stuttering made
explicit: TLC would otherwise try the ledger's actions on every step that only
moves a session.

### GatewayBilling

`pc[r]` is the position of the handler or hook that serves the call of
reservation `r`: `Authorize`, `ProxyCompletes` or `ProxyFails`, `PersistCharge` or
`PersistFree`, `CatchRelease`, `HookLog`, `HookLink`, `HookSettle`, `HookFinally`.
`context` holds the calls whose reservation is still in the request context,
`delivered` those whose successful response reached the client to its end. A step
on the database has up to three outcomes: done; done, but the reply is lost; not done.
`Crash` stops a handler or hook anywhere. Workers expire, claim, settle and
record attempts, and may overlap: the lease has a TTL and is never renewed
(`distributed-lease.ts:104`). The module works at the granularity of whole
transactions, which `CreditTransactions` justifies.

A price of zero makes no reservation and is left out; the checks before the
reservation (key, scope, address, rate) are one refusal.

### RoutePatterns

Operators without state, translated from `route-pattern.ts`, `routing-conflict.ts`
and the resolver of `routing-runtime-service.ts`: a path is a sequence of
segments, a pattern one of literals, `Param` and `CatchAll`, a host a sequence of
labels as they are written, with or without a wildcard in front. `Resolve` is `resolve`,
`Conflicting` is what `findRoutingRouteConflict` looks for, `AllowedMethods` the
Allow header. They are checked against what an administrator expects of them
(`EveryRouteReachable`, `IdsNeverDecide`) on every set of routes that
`RoutingRevisions` publishes.

### RoutingRevisions

`live`, `enabled`, `ready`, `managed` and `defaultDomain` are what a publication
reads: active routes (of a product, version and upstream in use, which the query joins), enabled targets, targets that passed discovery and
configuration, upstreams with a service token. `revisions` and `active` are the
stored payloads and the pointer of the runtime row. A session is one
`applyPlatformMutation`:

| Action | Code |
|---|---|
| `Begin` (`TakeRuntimeLock`) | `lockPlatformRuntime`, and the change the transaction is about to make |
| `CommitUnpublished` (`WriteChange`, `Leave`) | a mutation that does not publish |
| `ReadRoutes`, `ReadTargets`, `Publish`, `Rollback` | the statements of `publish`: READ COMMITTED, so each sees the newest commits; its checks refuse, and the transaction is rolled back |
| `Activate` | rollback to a stored revision, with its domain |
| `ChangeReadiness`, `Connect`, `SyncSupportRoutes` | discovery, a token for an upstream, support routes: writers without the lock |

A change is one of those the services can make (`PossibleChanges`); a support
route exists as long as discovery finds it due.

### RoutingView and RoutingRuntime

`RoutingView` is the promise in three lines: answers come from activations that
took place, in their order. `RoutingRuntime` is one process: `cache` is the
compiled snapshot with its generation, expiry and stale limit, `runtimeLoad` the
promise that concurrent requests share, `load[q]` what the load started by
request `q` captured (clock and generation) and read. `Hit`, `Join`, `Start`,
`Query`, `Finish`, `FailStale` and `FailUnavailable` are the branches of
`getCompiledRuntime`; `Activate(local)` is a publication here or in another
process, `Invalidate` the call that follows one made here, `Restart` a new
process. A load lasts as long as its query, which nothing limits. It settles, answers
those who wait for it and is forgotten in one step (`EndLoad`), as those run one
after the other on the event loop before another request does. An answer carries the time its request came and the
time its load began (`since`). `replacedAt`, `announced`, `shown` and `answers` are history that only
the properties read. `View == INSTANCE RoutingView` is the refinement.

### ServiceControl

One managed upstream. `connection` is the desired revision, hash and contract;
`target[t]` the row of a target; `service[a]` what the service at an address
holds and accepts; `routed[t]` the address the active revision has for a target.
An operation is an update, a synchronization or a discovery of one
administrator: it loads the rows, asks service after service (a request, or only
its reply, may be lost), and writes in a last transaction under the conditions
the code states (`StillWanted`, `NobodySaved`, `ContextCurrent`). `Recover` is the retry after
a service turned out to hold a higher revision. Targets change address, are
enabled and disabled, the token changes, a service is upgraded or configured by
somebody else, an operation crashes, all between those steps. `reached` is
history: the targets whose state came from the address they have.

Two places are coarser than the code, without a property that could tell. A
discovery fails in the model when no target answered or its context is stale; in
the code it also fails after some targets answered
(`platform-service-discovery-service.ts:327-336`, 357-359, 512-518), and records no more than that failure.
And `contract` stands for description and schema at once, while the code compares the
hash of the schema (lines 401-405, 426-429, 566-569), so that the model refuses
a few discoveries that the code accepts.

### Accounts

Transactions of `redeem`, `checkin`, `activateUser` and of the three removals of
access, statement by statement: `lock` is the row locks of PostgreSQL, `op[p]` the
position of process `p`, what it read before the transaction, and what it holds.
As in `CreditTransactions`, writes are collected in the commit. `lockAvailableAdmins` locks
row after row of one snapshot and drops those that are no longer available
(PostgreSQL evaluates the condition again on the locked row). Removals whose
target is not among the locked administrators may wait in a circle; PostgreSQL
rolls one back, which is `Abort`.

### GatewayRequests

The way of one request: `Arrive`, the counting of its windows (below), `Order`, the attempts (`Answer`,
`AnswerRetryable`, `BodyCancelled`, `AttemptFails`), the abort of the client or of the time budget
(`Abort`), and what is learnt (`MarkUnavailable`, `MarkResponsive`, `Probe`). `deaf` says that an
attempt was begun after the abort and does not hear it, which can happen while
the body of a refused response is cancelled.

| Action | Code |
|---|---|
| `ConsumeAtomic`, `ConsumeOne` | with Redis: the script for several windows, or for one, runs and its reply arrives |
| `RunUnheard` | the script runs and nobody hears of it: the connection breaks, and the client sends the command again when it is back (`maxRetriesPerRequest: 1`, `redis.ts:76-84`), or the request has been refused, or its process is gone |
| `LimiterUnavailable` | Redis cannot be reached: the request is refused, not counted in memory |
| `ConsumeMemory` | without Redis: one window after the other, in a map of the process |
| `Evict` | `cleanup` (`memory.ts:30-43`) drops the oldest quarter of more than 10000 counters, those that still count too |
| `Restart` | a new process: memory counters and health are lost, its requests end |
| `Unlimited` | a route without limits |

`took` is what a request was counted in, `runs` how often its script ran, and `forgotten`, a
history, whose counts the memory has lost. Which counters an eviction meets depends on
those of all other subjects, so any may go. A counter in Redis stays until it expires: a Redis
that evicts keys (`docs/operations/vps-deployment.md` asks for `noeviction`) or loses them in
a restart of its own is outside the model.

Targets and windows are numbers, their places in the order of the upstream and of
`checkRateLimits`; `Rotations` are the orders that start with some candidate and go
around, whichever the counter and the weights pick. `Backoff` doubles the base time of an
ejection by recursion. Counters of windows that have ended are kept in the model and read as
none (`Count`), as a key that Redis has expired.

## 3. The runs

| Run | Checks | Instance |
|---|---|---|
| `ledger` | `TypeOK`, `Covered`, `QuotaAccounting`, `ChargedOnce`, `BalanceChain`, `QuotaRespected` | one user, two keys, three reservations of 1, 2 and 1 credits, two of them on one key |
| `transactions` | `ImplementsLedger`, `ChecksStillHold`, `RoutineNeverDeadlocks` | two sessions; two reservations on one key, or two accounts with batches in both orders |
| `gateway` | `OnlyDeliveredIsOwed`, `ChargeReachesCallLog`, `CostOnlyIfCharged`, `ActiveEnds`, `PendingEnds` | one call, two workers, fairness |
| `routing_revisions` | `ActiveRevisionLoads`, `DomainAgrees`, `PublicationIsCurrent`, `RoutedUpstreamStays`, `EveryRouteReachable`, `IdsNeverDecide`, `TypeOK` | two administrators, three routes of which two conflict under one default domain, a manual and a managed upstream, three targets, a legacy revision |
| `routing_runtime` | `ViewKept`, `PublishedIsServed`, `AnswersRecent`, `OverrunBounded`, `TypeOK` | two requests, two activations, a clock of five |
| `service_control` | `SyncedMeansCurrent`, `RevisionNamesOne`, `DiscoveryNeverUndoes`, `RoutedIsConfigured`, `TypeOK` | two operations, two targets, three addresses, two configurations, two contracts |
| `accounts` | `PaidOnce`, `CheckinsSpaced`, `AdminRemains`, `TypeOK` | two processes, two administrators and a user, one code with two uses |
| `gateway_requests` | `WithinLimits`, `ContactedOnce`, `GivesUpLast`, `TypeOK` | two requests, two targets, two windows with a limit of one, one script run that nobody hears of for each, one eviction, restart or probe |
| `routing_outage` (violated) | `OutageWithinWindow` | one request, one activation, a lifetime of two, a window of three |
| `service_address` (violated) | `EntersWhenReached` | the instance of `service_control` |
| `pending_first` (violated) | `PendingBeforeReturned` | one call, two workers |
| `pending_kept` (violated) | `PendingIsKept` | one call, two workers |

Bounds. `MaxEntries` stops adjustments when a journal has that many rows (charges
are bounded by the reservations). `MaxAttempts` is 2 in `ledger` and the gateway
runs and 1 in `transactions` instead of 5: the code compares a counter with it and
nothing else depends on the value. `MaxCredits` is the largest integer of a column, small enough that it
is reached. Amounts of 1 and 2 against a balance of 2 make both a fit and a
refusal possible, and two reservations of one key with another of the same user's
second key are what the sums per key and per user can confuse. One call is enough in
`gateway`: what races there is the handler, the hook, the workers and the administrator
over one reservation, and two calls meet in nothing but the balance and the quota, which `ledger`
checks with three; the three safety properties are proved for any number of calls. Two sessions are
enough for every race between two transactions and for a circle of two waits;
longer circles are excluded by proof (`RoutineDeadlockFree`). The sessions are interchangeable, hence the
symmetry set of that run, which checks no liveness.

`MaxRevisions` is one more than the two revisions there are at first: a publication
can be rolled back and another be compared with it, and identical configurations reuse
a revision. The requests that the routing properties try are those the three routes
can tell apart: one and two segments, an encoded slash, a listed host, one below
a wildcard and an unknown one, and the methods GET, HEAD and POST; those made of the
routes themselves (`OwnRequests`) are among them. In
`routing_runtime` the cache lives 1 tick and the stale window takes 2 of the five ticks, and a load
as many as there are, so that one can end before, in and after the window; two requests can share a load
or follow each other, and two activations are the least for one to overtake another.
`MaxRevision` is 2 (2^31 - 1 in the code, where it is also refused beyond): two
saves race for one number, and `MaxChanges` allows one change by an administrator
or a service between any two steps. In `accounts`, `MaxRequests` is 3: two
that race and one before, between or after them; three users and one code with
two uses allow a full code and a duplicate. Four hours and a cooldown of two have a
check-in on both sides of the limit. In `gateway_requests`, limits of one make the
second request meet a full window, and one window of the two ends earlier; `MaxFailures` and
the threshold of 2 are the least with an ejection after a failure without one.
`MaxResends` allows a script one run that nobody hears of, as the client's one retry does.
`MaxClock` stops the clock; `MaxEvents` bounds probes, evictions and restarts together.

In every run but `transactions` the system may stop (all calls done, all accounts deleted, a bound reached), so
deadlock is not checked there. In `transactions` a session can always
begin or abort and deadlock is checked; what matters there, circles of waits, is
the invariant `RoutineNeverDeadlocks`. It excludes batches over several accounts
and deletions: those do deadlock with each other or with a settlement (user row
then reservation rows against reservation row then user row), PostgreSQL
rolls one of them back, and the caller sees an error. That nothing is half
written then is part of `ImplementsLedger`. (`deleteUser` also locks the rows of all available
administrators, `admin-user-service.ts:41-52`, which `Accounts` models; `CreditTransactions`
locks the row of the user alone.)

Each property has a mutant: an operator named in a comment that starts with SLIP, next to
the definition it would replace, that makes a plausible mistake of this code. The
property fails on it.

### Fairness

`FairSpec` assumes that a worker that has claimed rows goes on (or crashes), and,
per reservation, strong fairness of its expiry, of its claim, and of
"settled or attempt recorded". The timer starts a scan every 30 seconds; the
queries take the oldest 100 expired and the 20 longest due rows, and every scan
removes or postpones those it met, so no row is passed over for ever. The third
assumption says that the database does not fail for ever. Nothing is assumed of
handlers, hooks and administrators: they may stop for good.

No other module assumes fairness. That a request for the routes is answered at
all depends on a query of unlimited time (`db/client.ts` sets none), so
`RoutingRuntime` states no liveness.

### What the violated runs show

`docs/architecture/billing.md` says that a response to be charged is returned only
after its reservation became pending, so that no successful call escapes its
charge (line 18), and that pending reservations are never released automatically
(line 22).

- `pending_first`: `sendProxy` streams the whole response and ends it
  (`dynamic-gateway-service.ts:322`) before the outcome is persisted (line 346).
  The client has its response while the row is `active`; when the process stops
  there, the sweep releases it after ten minutes.
- `pending_kept`: the update commits, its reply is lost, the catch block (line 354)
  releases the row, since `releaseReservation` accepts `pending`. A delivered call
  is not paid.

Both lose a charge of the platform and never overcharge a caller: what
`OnlyDeliveredIsOwed` states holds throughout.

`docs/architecture/platform.md` (line 130) says that a managed target with a new address
enters no routing revision before it has been discovered there.

- `service_address`: `pushConfiguration` asks the service at the address it has
  read; before it records the answers, `updateTarget` moves the target and
  clears what was verified. The recording transaction
  (`platform-service-configuration-service.ts:256-305`) goes by the id of the target and
  checks only that the configuration is still the wanted one: the row becomes
  "synced" again, and the publication that follows routes traffic to an address
  nobody has reached. This is also why `RoutedIsConfigured` and
  `DiscoveryNeverUndoes` speak of targets in `reached`.

Line 77 of `platform.md`, and the comment on `MAX_STALE_RUNTIME_MS`
(`routing-runtime-service.ts:21-24`), say that during an outage the last valid snapshot is used
for 60 seconds at most and then the answer is 503.

- `routing_outage`: a load that fails at the end of the window gives the snapshot a new
  lifetime (`cached.expiresAt = now + CACHE_TTL_MS`, line 175) that reaches past `staleUntil`, and
  the requests of that second are answered from it without a look at `staleUntil`
  (lines 149-151). A load that fails slowly goes beyond the window too: line 168 compares with the
  clock read before the query. `OverrunBounded` says how far: one lifetime, or the
  load that was waited for.

One more observation, of a case the documents leave open: a request that was aborted while the
gateway cancels a refused response still contacts the next target.

## 4. The proofs

TLAPS checks, for any finite set of reservations, any sets of users, keys, connections
and workers, and any values of the limits:

| Module | Theorem | Statement |
|---|---|---|
| `CreditLedger` | `TypeCorrect` | `Spec => []TypeOK` |
| | `BalanceCovers` | `Spec => []Covered` |
| | `QuotaAccounted` | `Spec => []QuotaAccounting` |
| | `ChargesOnce` | `Spec => []ChargedOnce` |
| | `JournalExplainsBalance` | `Spec => []BalanceChain` |
| | `QuotaIsRespected` | `Spec => QuotaRespected` |
| `CreditTransactions` | `LocksProtect` | `StatementSpec => []StatementInv` |
| | `StatementsImplementLedger` | `StatementSpec => ImplementsLedger` |
| | `StatementsKeepAccounts` | `StatementSpec => []Covered`, `[]QuotaAccounting`, `[]ChargedOnce`, `[]BalanceChain` |
| | `ChecksHold` | `StatementSpec => []ChecksStillHold` |
| | `RoutineDeadlockFree` | `StatementSpec => []RoutineNeverDeadlocks` |
| `GatewayBilling` | `GatewayImplementsLedger` | `GatewaySpec => Spec` |
| | `CallsAreCovered` | `GatewaySpec => []Covered` |
| | `ChargesOnlyDelivered` | `GatewaySpec => []OnlyDeliveredIsOwed` |
| | `ChargesReachCallLog`, `LoggedCostWasCharged` | `GatewaySpec => []ChargeReachesCallLog`, `[]CostOnlyIfCharged` |
| `GatewayRequests` | `RequestsTypeCorrect` | `Spec => []TypeOK` |
| | `NeverBeyondLimits` | `Spec => []WithinLimits` |
| | `NeverContactedTwice` | `Spec => []ContactedOnce` |
| | `NeverGivesUpEarly` | `Spec => GivesUpLast` |
| `RoutingRevisions` | `RevisionsTypeCorrect`, `ActiveAlwaysLoads`, `DomainAlwaysAgrees` | `Spec => []TypeOK`, `[]ActiveRevisionLoads`, `[]DomainAgrees` |
| | `RoutesAreReachable`, `IdsAreNeverNeeded`, `AnswersAreUnique` | `Spec => []EveryRouteReachable`, `[]IdsNeverDecide`, `[]OneAnswer` |
| | `PublicationsAreCurrent`, `RoutedUpstreamsStay` | `Spec => PublicationIsCurrent`, `RoutedUpstreamStays` |
| `RoutingRuntime` | `RuntimeTypeCorrect`, `RuntimeImplementsView` | `Spec => []TypeOK`, `View!Spec` |
| | `PublishedIsAlwaysServed`, `AnswersAlwaysRecent`, `OverrunAlwaysBounded` | `Spec => []PublishedIsServed`, `[]AnswersRecent`, `[]OverrunBounded` |
| `ServiceControl` | `ControlTypeCorrect`, `SyncedIsCurrent` | `Spec => []TypeOK`, `[]SyncedMeansCurrent` |
| | `RevisionsAreUnique`, `DiscoveriesNeverUndo`, `RoutedAreConfigured` | `Spec => RevisionNamesOne`, `DiscoveryNeverUndoes`, `RoutedIsConfigured` |
| `Accounts` | `AccountsTypeCorrect`, `NothingPaidTwice`, `CheckinsAreSpaced`, `AnAdministratorRemains` | `Spec => []TypeOK`, `[]PaidOnce`, `[]CheckinsSpaced`, `[]AdminRemains` |

They hold as well for any number of requests, activations, administrators,
routes, hosts, upstreams, targets, windows, operations, addresses, users and codes.

Assumptions, all evaluated by the runs:

- `ReservationAssumption`: finitely many ids, positive amounts, as the CHECK
  constraint says; `LimitAssumption` and `MarkerAssumption`: limits are numbers, the
  markers for "none" are no value.
- `OrderAssumption`: ids of reservations are numbers, in the order of `created_at`, which
  the sweep locks by. `InputAssumption`, `IdleAssumption`: batches list users, amounts
  are numbers, "no transaction" is none of the transactions.
- `GatewayAssumption`: finitely many requests, an upstream has a target (routing
  refuses one without), limits and times are positive (a limit of 0 is none).
- `RoutingAssumption`: ids name one route; the payloads the database starts with have
  the type of payloads and load. `PatternAssumption`: hosts have at most 253
  labels, since they have at most 253 characters; the table of routes is finite; and path patterns that
  `localeCompare` calls equal have their parameters in the same places, since
  literals contain no braces. That such patterns are the same is not assumed: two
  encodings of an accent compare as equal. No host is without labels, no pattern
  has a segment that decodes to "." or "..", and a catch-all stands last, as
  `normalizeRoutePath`, `parseRoutePathPattern` and `normalizeRouteHost` demand.
- `RequestsAssumption`: the requests that are tried include those made of each route's own
  pattern, for each host, with a word that no pattern and no host contains and an encoded
  slash that no pattern contains. Patterns and hosts being finitely many, there are such words.
- `RuntimeAssumption`: the cache lives shorter than the stale window.
- `ServiceAssumption`, `AccountsAssumption` (some administrator to begin with).

The argument. Sums are handled by three lemmas: the total of one reservation, of a
disjoint union, of a difference. `Covered` is not inductive alone: a new row could
take an id that has a row already and change its amount, so `IssuedOnce` (rows
and unissued ids are disjoint) is added. `QuotaAccounting` and `ChargedOnce` need
`Apart` as well (charged, open and unissued are three disjoint sets): otherwise a
release could give back the quota of a charged call. `BalanceChain` is inductive on
top of the types. That only a dead letter has used up its attempts needs that an id
not issued has no row, which is part of the type invariant. For the gateway, `OnlyDeliveredIsOwed` is strengthened by
`Delivery` (a handler about to persist a successful status has seen the response
delivered), and the properties of the call log rest on `Apart` from the ledger:
`linkApiCall` only touches a pending row, which cannot be charged yet. The
implementation theorem carries every ledger theorem over to the gateway.

`CreditTransactions`: what a session has read is a fact about rows it holds locked. A
row has one holder (`Exclusive`), an id that a session inserts is issued to it alone
(`OwnIds`), and for each kind of transaction `SessionOK` lists what it holds at each
statement and what it knows then: that the unreserved balance suffices, that the row is still
releasable, that the computed balances fit. A step of anybody else leaves the rows a
session holds `Untouched`, sums of a locked user included, since whoever inserts
a reservation locks its user first; and a session that commits has
the conditions under which the ledger takes its step. A sweep adds that it
works on the oldest active rows (`SweepOK`): two sweeps would otherwise be able to
wait for each other. Against circles of waits: a routine session that holds a user row
wants at most a key row; one that holds a key row is a sweep, and the only one that
refunds at the time, so it waits for nobody in the circle; what is left are sweeps waiting for
rows of each other, which they take in the order of the ids.

`GatewayRequests`: a counter in Redis that has not expired is the number of script runs that counted in
it, and a counter covers the requests that passed its window and that it has not
forgotten, which are at most its limit (`Counted`). A run that nobody hears of only makes the counter
larger; a counter that memory drops takes the requests it covered along. In memory
several windows are counted one after the other, so a request that is between two has passed the
windows before the one it is at. A request that is being tried has contacted exactly
the targets of its order up to the present one, and no target is twice in an order
(`Attempting`). Time only runs on, so a counter is counted up only while it lasts.
That `Backoff` is a number at every argument is induction over data, done here
once by the least counterexample.

`RoutingRuntime`: at most one load is in flight and every waiting request waits for
it (`OneLoad`); so what a load has read is never older than what is shown (`InOrder`),
which gives the refinement. A cache or a load of the present generation is as new
as the last announcement (`Announced`), and what is cached was active when it was read
(`Dated`): these give the bounds on the answers.

`RoutingRevisions`: an open transaction holds the runtime row (`Locked`), so what it has
read still agrees with the tables at its end, except for what discovery writes
without that lock (`Seen`); every stored revision has targets for its routes (`Stored`),
or a rollback could activate one that does not load. For these results `ConflictFree` stays
unexpanded: they hold for any notion of conflict that publication and loader share. Which
route answers: equal scores of two matching hosts mean the same host, because the weights of exact and
wildcard hosts lie further apart than a host is long, and the request fixes the labels; two
candidates that tie in everything but their ids therefore share host, method and shape, which is
a conflict, and the active revision has none. The comparison of candidates is a
strict order, so a finite set of them has one top (by the least number of
candidates without one). That no route is hidden takes a request that prefers it: the new
word in place of each parameter, the encoded slash in place of a catch-all, sent to one of
its hosts (below it, for a wildcard) or to an unknown host. No other host that matches has
more weight (`BestName`). The score of a pattern is 1001 for each literal and 9 for each
segment, less 100 for a catch-all (`Score`), and the literals of any pattern that
matches are literals of the route's own (`SharedLiterals`): it scores less, or is the
same pattern (`BetterPath`) and then a conflict or the GET route behind a HEAD route.

`ServiceControl`: no number above the desired one was ever used (`SavedUpTo`); a push holds
answers to its own revision only (`Answered`), an operation that passes its condition has
loaded the rows as they are (`UpToDate`), and since no service goes back to a lower
revision, what the row of a reached target says stays true of its service (`ReachedHolds`).

`Accounts`: a row locked by a transaction is written by nobody else, so what it found when it took the
lock still holds when it writes (`Found`). With it the administrators counted by a removal are
locked and available, and one other than the target remains. `Records` relates
payments to the accounts' own columns (`verified`, `lastCheckin`).

Only model-checked: the liveness properties `ActiveEnds` and `PendingEnds`, since
liveness under fairness and ENABLED are outside the prover's reach; and the four
properties that are violated.

## 5. Not modelled

Time is abstract in the billing modules: a retry is due, or a row past the cutoff,
at some moment; elsewhere it is a small clock. Retries inside the database driver, statement timeouts and the pool's limit are
part of "fails or loses its reply". The foreign keys' share locks are left out:
each is taken on a row its session has locked already. Daily statistics, key usage
counters, names, scopes, messages and logging change nothing that is checked.

- Web interface (`app/`, about half of the repository's lines): Vue pages and composables
  over the HTTP interface, without state of their own that outlives a page.
- Authentication and OAuth: sessions and providers are library calls; the
  account rows they write are modelled where money or access depends on them.
- Settings, notifications, logs and reports: single-row writes and queries.
- Outbound fetch and address checks: network I/O and parsing of addresses.
- The lease of the workers: only that runs may overlap.
- Target health in Redis: advisory, merged into the local state with a time
  limit; a wrong ejection changes the order of the targets and ends by itself.
- The cache of control tokens: `ServiceControl` sees one token, so a process
  that still uses a replaced token is outside the model.
- The public catalogue cache (`shared-cache.ts`), which only reads.
- Products and versions: the query of a publication joins them
  (`routing-revision-service.ts:126-141`) and leaves out the routes of those that are not published, which the model folds
  into `live`; their own forms, and endpoint descriptions, are left out.

The share of the repository's lines that is modelled stays small for this
reason: most of them are the interface and forms over single rows.

## 6. Plan

Done: all modules above, and a theorem for every safety property the passing runs
check. What would follow:

1. `Accounts` and `CreditLedger` composed, so that each payment is an `Adjust`.
2. The lease with its TTL and token, the hydration of target health from Redis, and
   the token cache of two instances promoting a pending token.
3. Address ranges (`shared/utils/cidr.ts`) against a reference definition.
