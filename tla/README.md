# lite-agentify: a verification project

lite-agentify is an LLM gateway in Rust (axum, tokio, PostgreSQL, optional
Redis). It authenticates a request by API key, checks a prepaid balance,
resolves the model to a chain of provider deployments, forwards the request
with retries and failover, meters what the answer cost, and lets an
administrator change all of it while it runs. This directory holds TLA+
specifications of its concurrent core, the TLC models that check them on small
instances, and TLAPS proofs for every value of the constants. Source paths
below are relative to `src/src/`; specifications quoted from the repository are
in `src/openspec/specs/`.

## 1. Inventory

| Component | State it keeps | Operations | Talks to | What makes it correct |
|---|---|---|---|---|
| Snapshot swap and hot reload (`reload.rs`, `state.rs`) | `ArcSwap<GatewayState>`, the `ArcSwap` catalog cell | `load`, `store`, `store_api_keys`, `store_granted`, `store_catalog`, `reload` | called by admin handlers, the watcher thread, every request | the snapshot resolves; a refresh installs what is committed and undoes nothing else |
| Config watcher (`reload.rs:189-288`) | a channel of events, a debounce window | filter events, wait for quiet, reload | snapshot | a change is applied in the end, its own reads of the file start nothing; a bad file keeps the old snapshot |
| Admin mutations (`admin/*_api.rs`, `admin/mod.rs`) | none | write to PostgreSQL, then refresh one part of the snapshot | stores, snapshot, sessions, pub/sub | an acknowledged change takes effect |
| Account store (`account/`) | `users`, `api_keys` | create, status, password, revoke, limits, `active_key_map` in two queries | PostgreSQL | only active keys of active users authenticate; no update undoes another; an administrator remains |
| Catalog store and pricing gate (`catalog/`, `admin/models_api.rs`) | `providers`, `models`, `model_deployments`, `pricing_rules` | CRUD, `snapshot` in several queries, "may this model be enabled" | PostgreSQL | every deployment of an enabled model has a provider and a price |
| Proxy request path (`proxy/`, `model.rs`) | per request: hop, attempt, the snapshot it took | authorize, check, resolve, attempt, back off, fail over, forward | snapshot, providers, counters, recorder | the chain is walked in order within the attempt budget; the right answer is forwarded; only an answer is billed |
| Prepaid quota (`quota/`) | counters per user and key, in memory or in Redis with a shadow | `get`, `add`, `reset`, reconcile every 60 s and at boot | PostgreSQL, Redis, requests | nobody is refused for what was not spent; drift is bounded and healed |
| Usage writer (`usage/recorder.rs`) | a bounded channel, a buffer, a batch in flight | `record`, batch, tick, shutdown | requests, PostgreSQL | bounded memory, no duplicate, no reordering, nothing left at shutdown |
| Streaming usage observer (`usage/observer.rs`, `parse.rs`) | an incomplete line, the last usage seen | observe a chunk, finish | proxy | the result does not depend on how the stream is cut |
| Pricing (`pricing/`) | none | find the rule, clamp and multiply | proxy | the most specific rule, never a negative cost |
| Admin sessions and lockout (`admin/session.rs`) | sessions, failure counts, in memory or Redis | login, logout, expire, drop a user's sessions, lock out | admin handlers, accounts | a disabled user has no session; five failures lock |
| Boot (`db.rs`, `catalog/import.rs`, `account/bootstrap.rs`, `main.rs`) | tables | migrate, import the config once, bootstrap an admin, seed the counters | PostgreSQL | whatever a crash left in the database, the next boot goes through, seeds empty tables only and all at once; a config file that an interrupted write-back cut short does stop it |
| Config file (`config.rs`), Redis pub/sub (`pubsub.rs`), usage queries (`admin/usage_api.rs`), UI | none that others depend on | parse; publish and log; read; serve assets | | |

How they interact: **one pointer, many writers**. Every request loads one
snapshot and uses it to its end. Admin handlers and the reload build a new
snapshot out of the current one and swap it in, without a lock: the load, the
queries and the store of two of them interleave. **Two records of what was
spent**: a request adds its cost to the counters at once and hands a record to
the writer, which turns it into a row later, or loses it; reconciliation carries
what the rows say back into the counters. **A process that may die**: channel,
buffer, memory counters and memory sessions go with it.

The behaviours that are hard to test are listed with their lines under
`hazards` in `PROJECT.json`, each with the properties that would catch it.

## 2. Modules

| Module | What it is |
|---|---|
| `SharedGatewayState` | the snapshot, its refreshes and reloads, the database and file they read |
| `SnapshotRegister` | abstract: a register with one part per kind of configuration |
| `HotReload` | extends `SharedGatewayState` with the config watcher, its events and its debounce |
| `SharedGatewayState_proofs`, `HotReload_proofs` | theorems about the above |
| `UsageWriter` | the batched usage recorder |
| `UsageLedger` | abstract: what the recorder promises, batches settled in order |
| `UsageWriter_proofs` | theorems about the above, and about `RecordedSpend` |
| `ProxyRequest` | one proxied request with the snapshot swapped under it |
| `UsageObserver` | pure: token counts out of a body, or of a stream's chunks |
| `Pricing` | extends `UsageObserver`; pure: the rule and the cost of a usage |
| `MeteredRequest` | composes `ProxyRequest` with the two: the request, its stream, its bill |
| `MeteredRequest_proofs` | theorems about the above |
| `SpendCounters` | admission, spend counters, reconciliation, Redis and its shadow |
| `SpendCounters_proofs` | theorems about the above |
| `RecordedSpend` | composes `UsageWriter` with `SpendCounters`: requests, counters and writer as one process |
| `AdminSessions` | console sessions and login lockout, against disable, enable and password reset |
| `AdminSessions_proofs` | theorems about the above |
| `AccountBoot` | the account tables at boot: migrations, the first administrator, legacy keys |
| `Accounts` | extends `AccountBoot` with the account requests of a serving gateway |
| `Accounts_proofs` | theorems about the above |
| `ModelCatalog` | the catalog tables: the import at boot, and the admin mutations with the listing gate |
| `ModelCatalog_proofs` | theorems about the above |
| `MC*` | the constants of the small instances |

Definitions whose name extends another's (`LoadFileUnchecked` beside `LoadFile`,
`FlushCloned` beside `Flush`) are plausible bugs, used only to confirm that
each property can be broken by the code it is about. They are part of no
next-state relation.

### SharedGatewayState

A *task* is an admin handler or the watcher. It is a program counter named for
the call it is about to make (`active_key_map`, `list_models`, `load`, `store`,
...), the kind of its refresh, and a draft of what it read. Each `.await` of a
query and each `ArcSwap` access is a step:

| Code | Action |
|---|---|
| `create_key`, `revoke_key`, `disable_user`, `enable_user`, `create_grant`, `create_provider`, `delete_provider`, `set_deployments` | `CreateKey` ... `SetDeployments`: the commit, after which the task is at the first query of its refresh |
| `revoke_key` of a revoked key (`account_api.rs:384-386`) | `RevokeAgain` |
| `active_key_map`: keys, then users | `ReadKeys`, `ReadUsers` |
| `grant_sums`; `catalog.snapshot()`: providers, models, deployments | `ReadGrants`; `ReadProviders`, `ReadModels`, `ReadDeployments` |
| `GatewayConfig::load_from_path` | `LoadFile`, which gives up on an invalid file |
| `shared.load()` with `from_parts` and its validation | `LoadState` |
| the two stores of `store_catalog` | `StoreCell`, then `StoreState` |
| a query fails, or the client hangs up and the handler is dropped | `RefreshFails` |
| the file is edited; the process restarts | `EditFile`, `Restart` |

`missed`, `acked`, `revoking` and `alone` are history: parts whose last refresh
stored nothing, keys whose revocation was acknowledged without a warning, and
the tasks no other task has interfered with since they began.

Abstracted: a user is its status and credit, a key its status and owner, a
provider its id, a model the set of its deployments' providers. Key hashes,
limits, pricing, upstream names and secrets ride along in the code exactly as
these do.

### HotReload

The watcher is a thread of its own, whose reload is the task `Watcher` of
`SharedGatewayState`; `channel` is the mpsc channel of `notify`.

| Code | Action |
|---|---|
| `notify`: the file is changed, read, or a sibling is changed | `HotEditFile`; `HotRefresh` at `load_from_path`; `SiblingChanges` |
| `watcher.watch(..)` | `StartWatching`: what happens before it is in no event |
| `rx.recv()` with `event_touches_config` | `Receive` |
| `rx.recv_timeout(DEBOUNCE_WINDOW)`: an event; the timeout | `Debounce`; `QuietElapses`, which starts the reload |
| `reload` returns, well or not | `HotRefresh` with `ReloadEnds` |
| the directory cannot be watched, the channel closes | `WatcherStops` |
| `POST /reload`; a restart | `PostReload`; `HotRestart` |

Time is left out: the timeout may come whenever the channel is empty, which is
when `recv_timeout` gives up. `unseen` says that the last edit is one the thread
will never handle.

### UsageWriter

`queue` is the mpsc channel, `buffer` the writer's, `batch` the argument of the
flush being awaited. `Stamp` and `Record` are `record_usage` taking
`created_at` and `try_send`; `Recv`, `Tick` and `Drain` are the branches of
`select!`; `Insert` and `Touch` the two statements of `DbSink::flush`. A failed
INSERT may or may not have taken effect. `Shutdown` is the signal after the
listener and the requests are done (`main.rs:74-78`), `Restart` the death of
the process at any step.

### ProxyRequest

`step[r]` is where the handler of request `r` awaits, `taken[r]` the snapshot it
loaded at first, `hop` and `attempt` the two loop counters, `sent` the history of
exchanges. `Authorize`, `CheckQuota` and `Resolve` are the handler up to its
chain: the key, then the counters, which may be in Redis, then the body, which
the client is still uploading, and what the body asks for. `Prepare`, `Send`,
`Backoff` and `Failover` are `attempt_provider`
and the chain loop around it; `Forward`, `ReadBody` and `EndStream` are
`forward_upstream_response`. `Disconnect` is axum dropping the handler at any
await. A status is its number, so that a status that is both a 5xx and
retryable (529) takes the branch the code takes.

### MeteredRequest, UsageObserver, Pricing

`MeteredRequest` adds to each step of `ProxyRequest` what it does to the meter.
A stream is a sequence of bytes that arrives in chunks of any length (`Chunk`);
`Feed`, `Finish` and `ConsumeLine` are the observer's, `ParseOpenAi`,
`ParseAnthropic`, `MergeFrom` and `EnsureTotal` what it makes of a line.
`ConsumeLines` is the loop of `feed` over the complete lines, as a recursive
function of how many bytes it has passed.
`StreamEnds` and `MeteredReadBody` record the usage, and `CalculateCost` prices
it with the pricing of the snapshot the request took.

Abstracted: an event is a model value cut into two bytes, so that a cut can fall
inside of it, with a table of the usage objects its JSON holds; a line made of
anything else does not parse. A cost is an integer in millionths, as a Decimal
holds it.

### SpendCounters

`backend` is the counter `build_router` chose, in memory or in Redis. A counter
is a function that says how often it counts each request; its value
is the sum of their costs. So "counted twice" and "counted for nothing" can be
seen even where two costs are equal. `Get`, `Warm` and `Decide` are
`check_quota` over `MemoryCounter` or `RedisCounter`; `AddUser`, `IncrUser`,
`AddKey`, `IncrKey`, `Record` are `record_usage`; `Tick`, `SumByUser`,
`SumByKey`, `Reset`, `SetRedis`, `EndPass`, `PassFails` are
`reconcile_counters` and its loop; `Outage`, `Recover`, `Restart` the
environment. The writer is reduced to the set of records it holds (`Flush`
makes rows of any part of them, or loses it); that the real one behaves so is
shown in `RecordedSpend`.

An in-memory counter access takes one lock and no await, so it is one step; the
shadow and the command of a Redis access are two. A command already sent may
execute although its handler is dropped (`IncrUser`, `IncrKey`). Commands go out
in order over one connection, so that it executes before any sent later.

### RecordedSpend

The process as a whole: `UsageWriter` with its own variables, and
`Counters`, an instance of `SpendCounters` in which the set of queued records is
`ToSet(Pending)`, what is in the writer's batch, buffer and channel.

| Code | Action |
|---|---|
| admission, the answer, the two adds of `record_usage` | `ServeRequest`, until shutdown is signalled |
| `Utc::now()`; `usage_recorder.record` after the adds | `StampRecord`; `OfferRecord` |
| `run_writer`; the INSERT | `MoveRecords`; `InsertRecords` |
| `reconcile_counters` | `Reconcile` |
| `axum::serve` returns with no request in flight | `StopServing` |
| an outage of Redis; the process dies and boots | `RedisGoesOrReturns`; `RestartProcess`, of both at once |

### AdminSessions

`backend` is the store the process was started with, chosen once, so that one
run covers both. A login is at `find`, `fail`, `lock`, `clear` or `open`, named
for what it does next; a user-management request is at `drop` or `delete`.

| Code | Action |
|---|---|
| `login`: `is_locked`; lookup and verification | `StartLogin`; `FindUser` |
| `register_failure`: the count, the lock | `RegisterFailure`, `Lock` |
| `clear_failures`; `open_session` | `ClearFailures`; `Open` |
| `logout`; a session's TTL; the TTL of `session_user:{user}` | `Logout`; `Expire`; `ExpireIndex` |
| the end of a lockout or of the window of a count | `EndWindow` |
| `disable_user`, `reset_password`, `enable_user`: the commit | `DisableUser`, `ResetPassword`, `EnableUser` |
| `remove_user` in memory | `DropSessions` |
| `remove_user` in Redis: SMEMBERS, then DEL | `ReadIndex`, `DeleteFound` |
| a command fails or the client hangs up; the process restarts | `HangUp`, `GiveUp`; `Restart` |

The limiter of memory is one critical section (`CountInMemory`); in Redis the
count and the lock are two pipelines. An index with a TTL of its own expires
only when no session is in it, which is what renewing it at every open is for.
`overlap`, `missed` and `failures` are history: how the login of a session
overlapped an invalidation (`late`: it verified before the sessions were looked
up; `crossed`: it opened between SMEMBERS and DEL), the users whose
invalidation was given up, and the failures counted since a name last started
over.

Abstracted: a password matches or does not. A token whose session is gone and
that nothing refers to stands for a fresh one. A session whose cookie was never
sent, since the answer to its write was lost, has no holder and is left out.

### AccountBoot and Accounts

`boot` is the program counter of `start_web_server` as far as the account tables
go; `draft` is what the open transaction of `bootstrap_accounts` sees.

| Code | Action |
|---|---|
| `start_web_server` begins | `Start` |
| `load_from_path`; `bootstrap_admin_password` up to the opening of the file, which empties it | `LoadConfig` |
| the rest of `std::fs::write`: the new contents, or a part of them | `WriteBack`, `CutShort` |
| one iteration of `migrate` | `Migrate`: the statements and their row in one transaction |
| `bootstrap_accounts`: users; owner; each legacy key; commit | `SeedAdmin`; `FindOwner`; `ImportKey`; `Commit` |
| a statement fails or the process dies in a boot; it dies serving | `DieInBoot`; `Die` |
| `require_session`, `require_admin`, the checks without a query | `Begin` |
| `find_by_id`; `ActiveModel::update` | `FindRow`; `UpdateUser`, `UpdateKey` |
| `create_user`; `create_key` | `InsertUser`; `InsertKey` |
| `change_own_password`; `update_key`, `revoke_key` of the owner or an admin | `VerifyCurrent`; `CheckKey` |
| `login`; `logout`; `drop_user_sessions` | `Login`, `Open`; `SignOut`; `DropSessions` |
| a query fails or the client hangs up | `GiveUp` |

`set` holds the columns a request sets, `row` the row it found: `update` writes
the former, never what it read (`Updated`). A user is signed in or not, and
`late` if what keeps it so outlived a disable; `AdminSessions` has the sessions
themselves. A drop may be given up in either store, which is more than memory
allows. `crossed` is history: a disable was carried out for somebody who was
disabled meanwhile.

Abstracted: a password is a model value and whether it is stored hashed; the two
limits of a key are one; names, prefixes and times ride along. A file is refused
(`Invalid`) or is what a boot takes from it; the operator edits it while the
gateway is down, so that an edit between a boot's reading of it and the
write-back, which the write-back keeps, is left out.

### ModelCatalog

`providers`, `pricing`, `status` and `chain` are the four tables; `boot` is the
program counter of the import, `task` the handlers in flight, named for their
next statement. There is no transaction around the statements of a handler or
of the import, so each is a step.

| Code | Action |
|---|---|
| `import_config_once` | `CountProviders`, `ImportProvider`; `CountPricing`, `ImportRule` |
| `migrate_routes_once` | `CountModels`, then `MigrateModel`, `MigrateChain`, `MigrateStatus` for each model; `FinishBoot` |
| `create_model`, `update_model` | `CreateModel`, `UpdateModel`; `ValidateDeployments`; `EnsureListable`; `InsertModel`; `SetStatus` |
| `set_deployments`: the DELETE; the INSERTs and the COMMIT | `ClearDeployments`; `InsertDeployments` |
| `update_pricing`, `delete_pricing` with `ensure_pricing_gate` | `ChangePricing`; `ReadRules`, `ReadModels`, `ReadDeployments`; `WritePricing` |
| `create_pricing`, `create_provider`, `delete_provider`, `delete_model` | `CreatePricing`, `CreateProvider`, `DeleteProvider`, `DeleteModel` |
| a statement fails or the client hangs up; the process dies | `Fail`; `Restart` |

A table row is there or not: unique and foreign keys are guards. A rule is the
pair it prices. `set_deployments` is a READ COMMITTED transaction: `unseen` holds
the rows other transactions have committed since its DELETE, which that DELETE
does not remove. In the history, `alone` says of a handler that no other has
written what its gate reads since it began, `exposed` names the models whose
last relevant mutation was not alone or stopped before it disabled them, and
`populated` is what this boot found.

`Derived` is the loop of `migrate_routes_once` over the providers the routes
name, as a recursive function of how many it has passed; `Extended` is one
iteration, which adds a provider to a chain at its first mention only.

Abstracted: the refresh of the snapshot that ends each handler is in
`SharedGatewayState`; the validation of texts, and rates, decide nothing here.

## 3. Runs

| Run | Instance | Shows |
|---|---|---|
| `race` | 2 tasks, failing queries, 1 user, 1 key, 2 providers, 1 model, 3 events | `UncontendedRefreshIsExact`: a refresh no other task interfered with installs what is committed and nothing else. `SnapshotsResolve`: no torn read is served |
| `watched` | 1 task for handlers and watcher in turns, 1 key, 2 policies, failing queries, bad files, restarts, a watcher that stops; 3 events, 1 extra | `EditIsPending`, `EditIsLoaded`, `ReloadsCease`: no edit is forgotten and the watcher comes to rest. `ServesCommittedData`, `ImplementsRegister` (refinement), `KeyChangesReachSnapshot` (liveness): handlers that do not overlap make the snapshot a register |
| `revoked_race` | 2 tasks, no failure | **violated**: `RevokedKeyRejectedAfterRefresh` |
| `revoked_retry` | 1 task, failing queries | **violated**: `AcknowledgedRevocationHolds` |
| `writer` | 3 requests of one key in memory, 2 in Redis; channel of 1, batches of 2, 1 restart, 1 event | `MemoryBounded`, `PendingIsSuffix`, `NothingLeftAtExit`, `ImplementsLedger` (refinement), `AcceptedIsDecided` and `ShutdownCompletes` (liveness) of the writer; `ImplementsCounters` (refinement): it is the writer the counters are specified with |
| `chain` | 4 providers of 2 protocols, one unusable; 7 snapshots with 4 price lists; 5 statuses; 2 swaps; 4 streams of at most 2 events cut anywhere; 5 events | `ChainIsWalkedInOrder` (with a bound on the attempts), `ForwardsOnlyLastAnswer`, `HandlersComeToRest` (liveness); `StreamIsMeteredAsWhole`, `BillMatchesRecord` (at most one bill, for the provider's answer), `PricedByMostSpecificRule`, `FlatRateBillsTotal` |
| `counters` | 3 requests, 2 keys of one user, one capped, in memory; 2 of the requests in Redis; 2 events | `NeverOvercounts`, `RejectsOnlyRealSpend`, `DriftIsBounded` (of memory), `QuietPassIsExact`, `CountersConverge` (liveness) |
| `sessions` | 1 user, 1 unknown name, 2 logins, 2 handlers, 1 token, a threshold of 2, a limiter of 1 entry, 1 event; both stores | `IndexFindsSessions`, `SignedOutUnlessOverlapping`, `LockoutBoundsFailures` |
| `login_race` | as `sessions`, no failure | **violated**: `DisabledUserIsSignedOut` |
| `catalog` | 2 models, 2 providers, 2 rules, 2 handlers, 3 events; a file that prices one of two migrated chains | `EnabledIsPricedUnlessRaced`, `ImportLeavesPopulatedTables` |
| `merged_chain` | as `catalog`, 2 events | **violated**: `ChainsAreReplacedWholesale` |
| `accounts` | 2 users, 2 legacy keys and a generated one, 2 migrations, 3 files (one in plaintext, one without a password, one that repeats a key), refused and cut ones, 2 requests at a time, 3 in all, 2 events | `AnAdminRemains`, `BootOnlySeedsEmptyTables`, `OnlyConfigStopsBoot`, `RowsChangeOnlyAsAsked` |

Each module with variables also has a type invariant, `TypeOK` (`WatcherTypeOK` of
`HotReload`). Those of `SharedGatewayState`, `AdminSessions`,
`ModelCatalog` and `Accounts` are checked in a run and proved; those of `HotReload`,
`ProxyRequest`, `UsageWriter` and `SpendCounters` are proved
(`WatcherTypeCorrect`, `ProxyTypeCorrect`, `TypeCorrect`) and not run again. That of `AccountBoot` also says that no stored password is
plaintext.

### What the violated runs show

1. **A revoked key may come back into the snapshot** (`revoked_race`). Task 1
   revokes a key and reads the keys that are left; task 2 creates a grant and
   reads the sums. Both load the same snapshot, which still holds the key. Task
   1 stores its clone without the key, and answers ok; task 2 stores its clone,
   with the new credit and the old keys. This is the lost update of load, clone
   and store (`reload.rs:86-99`; `reload` and `store_catalog` copy the keys in
   the same way, `reload.rs:126-134, 164-166`). Every refresh succeeded, and the key
   authenticates until the next account mutation.
2. **Retrying a failed revocation is acknowledged without effect**
   (`revoked_retry`). The first call commits, its refresh fails and it warns;
   the second finds the key revoked and answers ok without refreshing
   (`account_api.rs:384-386`).
3. **A login may outlast the disabling of its user** (`login_race`). The login
   verifies, the user is disabled and its sessions are dropped, the login opens
   its session (`admin/mod.rs:371-395`). It lasts its whole TTL.
4. **Two edits of a chain may merge** (`merged_chain`). Two `update_model` calls
   for different providers both run their DELETE before either commits; each
   DELETE removes only the rows it can see, and the chain is left with both
   deployments at priority 0 (`catalog/store.rs:464-480`).

More differences are visible in the models, and the checked properties are
stated around them:

- Reconciliation resets only scopes that have rows, so that a user whose every
  record was lost keeps its drift (`QuietPassIsExact` speaks of the others).
- After an outage Redis is trusted at once, below what the last pass established
  (`DriftIsBounded` is for memory).
- A death in the middle of the catalog's import leaves the rest of the file out
  for good, although the specifications say "in one transaction"
  (`ImportLeavesPopulatedTables` says what does hold). The accounts are imported
  in one (`BootOnlySeedsEmptyTables`).
- Two administrators who disable each other at once both succeed, and none is
  left; so does one whose session outlived being disabled, against the last
  other one (`AnAdminRemains` excepts what `crossed` records).
- A boot hashes a plaintext password and rewrites the file with `std::fs::write`,
  which truncates it first (`admin/password.rs:105`). If the process dies before
  the write, the file is empty, and every later boot fails at `load_from_path`
  until the operator restores it. If the write fails, as on a full disk, the boot goes on and warns that
  "the plaintext remains on disk" (`admin/password.rs:52-53, 79`), which it need
  not: at most a part of the new text does (`OnlyConfigStopsBoot` names the file
  that is refused, whoever left it so).
- A legacy key listed twice fails every boot of a database without keys, on the
  UNIQUE hash (`OnlyConfigStopsBoot` names it);
  legacy keys may come to be owned
  by a disabled administrator, since the owner is looked up by role only
  (`bootstrap.rs:80-86`). A change of the own password whose check came before a
  reset of it overwrites the reset.
- An edit of the file between the boot's reading it and the watch of its
  directory is not seen until the next one (`EditIsLoaded` excepts `unseen`).
- A catalog refresh reads the file too, and of two refreshes the older may store
  last (`reload.rs:117-134`): handlers that overlap the watcher can put an older
  retry policy back. `EditIsPending` is about handlers and watcher in turns.

### Bounds, and why they are enough

`MaxEvents` counts what the outside does (mutations, file edits, restarts,
outages, failed passes), `MaxRestarts` the deaths of the writer's process,
`MaxSwaps` the swaps under a request. `MaxExtras` bounds `POST /reload` and changes of sibling
files, `MaxRequests` the account requests. Steps of a task, of the writer or of
a pass are not bounded. Two tasks are enough for a lost update, and three events
for a read of the catalog torn by a provider and a model created meanwhile. A
channel of one and batches of two already give a full channel, a full batch, a
partial batch and a final batch. In `writer` the passes are those of a boot: the
races of a pass with requests are those of `counters`. A chain of four
providers gives a first, a skipped, a foreign and a last hop; policies of one,
two and three attempts give the boundaries of the attempt counter. Two requests
of one key give adds on both sides of a sum and of a reset; the third, of
another key, spends the user's credit but not the key's cap. Two logins and two
handlers give every overlap of a login with an invalidation and of two
invalidations. One recycled token keeps that run small; that several sessions of
one user leave each other alone is what the theorems add, for any number of
tokens. A threshold of two and a limiter of one entry are reached and
exceeded. Four streams over five events give a report in `message_start`, one overridden
by a later one, one without a newline, one of cached input alone, one that does not parse, and
every cut between and inside of them; the price lists have a rule at each level of the
lookup, a class without a price and a flat rate. In `watched` an edit, a bad file
and a good one in a row, or an edit, a failing mutation and a restart, are three
events; one sibling event is enough to start the window again. Two account
requests interleave between a row found and its update; three in all allow one to
disable, another to disable in return. Two events let a boot die
half-way and the next one too, or die while the file is empty and the operator
restore it, or a write-back fail and the next boot start from what is left. Two catalog handlers suffice for a gate that is raced; three events
allow two mutations and a failure, a restart in the middle of an import and
another in the next, or a restart between the statements of a handler. In
`race` the tasks, keys and providers are symmetric, in `sessions` and
`login_race` the logins, handlers and tokens; in `accounts` the requests; no run with a
liveness property uses symmetry. One of two requests of `chain` arrives, at one
protocol's endpoint or the other's: requests share nothing but the snapshot.

`CHECK_DEADLOCK FALSE` appears where the system may stop: a request ends, the
writer's process exits, administrators do nothing more, a boot has no password to seed
with, the watcher waits for an event that does not come.

### Fairness

- `SharedGatewayState`: weak fairness of each task's own refresh. tokio polls a
  started handler, and a query returns or errs. Nothing makes an administrator
  act, and no reload has to start.
- `HotReload`: the same for each task, and weak fairness of the watcher's thread:
  `recv` returns once there is an event, `recv_timeout` once there is one or the
  window is over. As the only task the watcher gets its turn between handlers.
  Nothing obliges anybody to edit a file.
- `UsageWriter`, `RecordedSpend`: weak fairness of each branch of `select!` and of the two
  statements. `select!` picks among ready branches at random, so that each is
  taken sooner or later. Shutdown itself need not come.
- `ProxyRequest`, `MeteredRequest`: weak fairness of `Prepare` and `Backoff` only,
  which await nothing but a timer. No other wait has a timeout: that of a provider, whose
  HTTP client sets none (`upstream.rs`), that of the client's upload
  (`router.rs:272`), that of a counter in Redis (`router.rs:246`). None of them is assumed to
  end, and `HandlersComeToRest` allows a handler to wait for ever in any one of them:
  it says that retries and failovers do end.
- `SpendCounters`: weak fairness of the reconciliation loop, which never returns,
  and of the end of an outage. That a query or a Redis command of a pass returns
  or fails is an assumption about PostgreSQL and Redis: the code sets no timeout
  on either.
- `AdminSessions`, `Accounts` and `ModelCatalog` state safety only and assume no fairness:
  nothing makes an administrator act, and a handler may be dropped at any await.

## 4. Proofs

Proved with TLAPS for all values of the constants, from the named assumptions
on them: those say what kind of value each constant is and what the code
validates (`from_parts` refuses `max_attempts = 0`; the channel and the batch
are not empty; user and key scopes differ; the logins in flight are finitely
many). Every safety property that a passing run checks is also a theorem.

Some of them rest on a value computed step by step: what an observer has heard
after so many bytes, the chain of a model after so many routes, the spend of a
set of requests. Such a value is the result of a recursive function over `0 ..
n`, or of a fold. That the function exists, and what it yields, is shown by taking
the set of the positions for which the claim fails and the least element of it
(`WFMin` of `WellFoundedInduction`): the claim at that position follows from the
one before. The induction theorems proper take an operator as a parameter, which
no installed prover can instantiate; a set of the bad positions takes its place.

**`SharedGatewayState_proofs`**
- `TypeCorrect`.
- `SnapshotsAlwaysResolve`. `SnapshotsResolve` is not inductive: a store copies
  a draft. `ResolveInv` adds `DraftsResolve`, that the draft of a task past
  `from_parts` resolves, whatever was torn before it.
- `UncontendedRefreshTheorem`. `AloneInv` says what a task without interference
  *knows* at each of its steps: after a query, that its draft equals the
  database's part; after the load, that its draft is the current snapshot with
  exactly its own part replaced. Whatever would falsify that takes the task out
  of `alone` in the same step.
- `ServesWhatIsCommitted` and `SnapshotImplementsRegister`, assuming one task
  (`InTurn`): whichever handler runs is then always `alone`, so that `AloneInv`
  says what it knows. `ServedInv` adds that a part which is not missed, and which
  no handler is still to refresh, is the database's. The register's refresh is
  the handler's last step, the store; all its queries are stutters.

**`HotReload_proofs`**
- `HotImplementsGateway`: every step of the composition is one of
  `SharedGatewayState` or leaves it alone, so that the theorems above hold beside
  the watcher, and the type invariant need not be proved again.
- `WatcherTypeCorrect`.
- `NoEditIsForgotten`: `EditIsPending`, when the watcher is the only task.
  `PendingInv` adds what a draft past `load_from_path` knows of the file
  (`DraftIsCovered`): it holds the file's policy, or an event of an edit since is
  in the channel. Queued events of an edit are only ever taken out by `Receive`,
  which opens the window, or by a restart, which reads the file.

**`UsageWriter_proofs`**
- `TypeCorrect`, `WriterIsBounded`, `PendingIsAlwaysSuffix`, `GracefulShutdown`.
  One inductive invariant, `IInv`, joins types, bounds, the decomposition of
  `accepted` into what is decided and what is pending, and the fact that
  everything accepted is pending, a row or dropped. That nothing is offered
  after the shutdown signal (`QuietAfterShutdown`) is needed for the last.
- `WriterServesCounters`: `ImplementsCounters`, of `RecordedSpend`. An INSERT takes
  its batch and nothing else out of the set of pending records, since what was
  accepted is accepted once (`AcceptedOnce`, from `OfferedOnce`) and what is
  pending is its end; every other step of the writer moves records inside the
  set. `RestartsAgree` shows that the restart of both asks no more of the
  writer than its own. With `RecordedImplementsWriter` the theorems about the
  writer hold of the composition, and with this one those about the counters.
- `WriterImplementsLedger`: the ledger's `settled` is how much of `accepted` is
  not pending. `OfferedOnce`, that no record is accepted twice, and
  `BatchIsNext`, that what an INSERT decides are the records that follow the
  settled ones, turn an insertion into one step of the ledger.

**`SpendCounters_proofs`**
- `TypeCorrect`.
- `NeverOvercountsTheorem`, for memory and Redis alike. `Sound` adds to it where
  each request is between its two adds and its record, and that neither a sum
  already read, nor a value got from Redis and not yet written to the shadow,
  holds a request whose add is still to come. Adding before recording
  (`router.rs:763-802`) is what makes it inductive.
- `RejectionsAreEarned`: `RejectsOnlyRealSpend`. A counter never counts more
  than was answered (`NeverOvercounts`), and answers are never taken back, so
  that a counter read at admission stays below the real spend; that a sum over
  more requests is no smaller is an induction over finite sets.
- `QuietPassIsExactTheorem`: `QuietPassIsExact`. Its invariant says what a pass
  knows while it is `quiet`: that the sums it read are those of the table, for
  the scopes read so far, and that each scope already reset counts its sum.
- `DriftIsBoundedInMemory`. `Kept` adds that a sum being read
  covers what the pass before it established (rows never go away), and that a
  scope the running pass has reset counts its sum. The property speaks of
  counters in memory; of Redis it would be false, for after an outage Redis is
  trusted at once.

**`AdminSessions_proofs`**
- `TypeCorrect`, which includes the limiter's cap for any number of names.
- `IndexIsComplete`, `DisableSignsOut`. Neither is inductive alone. `IInv` adds
  `FoundCoversSessions`, that what a handler has read of the index covers the
  user's sessions but those opened since, without which the DEL could leave one;
  and `VerifiedBeforeIsLate`, that once the sessions of a disabled user have been
  looked up, any login of that user still to open verified before that.
- `LockoutHolds`: `LockoutBoundsFailures`. `CountsBounded` counts a login
  past `is_locked` as if it had failed already; and while a name is not locked,
  its failures are all in the counter, and what the counter has above the
  threshold is owed to a login about to lock it or to a command that failed.

**`Accounts_proofs`**, for any migrations, files, users, keys and requests, with
boots that die at any step and files cut short by them
- `AccountTypesCorrect`, `AnAdminAlwaysRemains`, `BootsOnlySeed`, `BootsRecover`,
  `NoUpdateIsLost`, all from one inductive `Inv`. `InstallationInv`: what is
  recorded of the migrations is what was done, and a users table that is not
  empty has an administrator, whatever its status. `DraftInv`: what the boot's
  transaction holds at each statement, the keys of the list up to where it is.
  `Allowed`: what a request was let in with, its role and its target included.
  `SurvivorsAreKnown`: whoever is disabled but still signed in or in flight is
  about to be dropped or is known to be late. The last is what makes
  `AnAdminRemains` inductive: the author of a disable that does not cross is
  active, is an administrator, and is not whom it disables. `BootsRecover`
  is about the database: that a file which a boot has cut short stops the next
  one is no theorem's to deny, and `OnlyConfigStopsBoot` names it.

**`ModelCatalog_proofs`**
- `GateHolds`: `EnabledIsPricedUnlessRaced`. `IInv` adds what a handler without
  interference *knows* at each await. A model mutation: that its model is there,
  and that the chain it is about to write, or has written, is covered. A pricing
  mutation: that the rules it gated are among those its write will leave
  (`Candidate`), that it has listed every enabled model, that they are covered.
  And what the import knows of the model it is about to enable (`BootKnows`).
  Every write that would falsify it ends `alone` in the same step.
- `CatalogTypeCorrect`. That a chain names no provider twice (`ChainsFit`) needs
  it of the chains an import writes, which is an induction over the routes
  (`DerivedFits`), and of the chain a handler has validated (`AllValidated`) until
  its transaction commits it beside rows of others it has not seen.
- `ImportIsOnce`: `ImportLeavesPopulatedTables`. `BootFound` says, for each step of
  the import, which tables are still as this boot found them: those it has not
  come to, and those it has skipped because they had rows.

**`MeteredRequest_proofs`**, for any requests, chains, statuses, streams and rules
- `MeteredImplementsProxy`: each step of the metered request is one of
  `ProxyRequest` or leaves it alone, so what follows of the plain request holds of
  the metered one.
- `ProxyTypeCorrect`, `ChainWalked`, `LastAnswerForwarded`. `WalkInv` adds what a
  request *knows* at a hop: how often its provider was tried (`attempt` counts
  it), that every hop before it is unusable or was tried, that nothing beyond it
  was, and how the last exchange led there (`Came`): by a rate limit of the same
  provider, or from an earlier one it had to leave. Since the chain names no
  provider twice, a provider left behind is never counted again, which keeps
  the links already made true.
- `BillsMatchRecords`, `PricedBySpecificity`. `Billed` adds that a request which
  is not over has no record, and that a cost is `CalculateCost` of what the
  request still has: its snapshot and its hop. The rest is a lemma about
  `LookupOrder`, `RuleIsMostSpecific`.
- `StreamsAreMeteredAsWhole`. `Watched` says what an observer has made of a
  stream at any cut: it has merged exactly the reports of the complete lines,
  the last one's numbers standing, and buffers the bytes since the last newline
  (`Heard`). `FeedWatches` shows that a chunk of any length keeps it, from
  `LoopComputes` and `LoopHears` about the loop over lines; `FinishReports` and
  `ReportIsMetered` that the end of the stream records what the property asks.
- `FlatRateIsExact`: `FlatRateBillsTotal`, from `Billed` and `OneRateOnTotal`.
- That a filter of a sequence without repetitions has none (`ChainAssumption`) is
  an induction, and is assumed of the snapshots and protocols of an instance, where TLC
  evaluates it. That no provider is called "gateway" (`GatewayAssumption`) keeps
  the model's two sources of answers apart.

**Only model-checked**: the liveness properties, `KeyChangesReachSnapshot`,
`EditIsLoaded`, `ReloadsCease`, `AcceptedIsDecided`, `ShutdownCompletes`,
`HandlersComeToRest` and `CountersConverge`. TLAPS, as used here, proves neither
ENABLED nor what follows from fairness. The violated properties are false, and
the runs exhibit why.

## 5. Not modelled

- `update_provider` and the rates of a pricing rule as an administrator edits
  them: they change nothing the modelled properties depend on. That a snapshot's
  rates are non-negative is what `pricing_map` validates.
- The length of the debounce window, of a backoff and of a lockout: a timeout may
  come at any moment at which the code allows it.
- Grants and caps changing while counters are read: `SpendCounters` takes them
  as constants. That a grant reaches the snapshot is in `SharedGatewayState`.
- The write-back of a boot in `SharedGatewayState` and `HotReload`: it comes before
  the watcher and changes neither policy nor catalog. A file it leaves cut short is in
  `AccountBoot`. The catalog's query of pricing rules is left out with the
  rules.
- Header filtering, body rewriting, key generation and hashing, JSON, configuration syntax, SQL of
  the usage queries, the UI: they keep no shared state.
- The pub/sub subscriber: it logs what it receives and changes nothing
  (`pubsub.rs:49-74`).
- Several gateway processes on one database.

## 6. Plan

Built, in this order: the core, where the interleavings are
(`SharedGatewayState`, `UsageWriter`, `ProxyRequest`, `SpendCounters`,
`AdminSessions`, `ModelCatalog`), then the watcher around the snapshot
(`HotReload`), the meter of a request (`UsageObserver`, `Pricing`,
`MeteredRequest`), the accounts (`AccountBoot`, `Accounts`), and the writer and the
counters as one process (`RecordedSpend`). What is left:

1. A composition of `ModelCatalog` and `Accounts` with the refreshes of
   `SharedGatewayState`, as `RecordedSpend` composes the writer with the counters.
2. The theorems of the components restated for those compositions.
