# Formal model of AIO Coding Hub

AIO Coding Hub is a desktop application (Tauri: a Rust core in `src-tauri`, a
React interface in `src`) that runs a local gateway between coding CLIs and
their API providers. The gateway routes each request over an ordered list of
providers, fails over between them, protects failing providers with a circuit
breaker, keeps sessions on their provider, logs every request to SQLite, and
takes over and restores the configuration files of the CLIs.

This directory holds TLA+ models of the parts in which concurrency, failures
and restarts make the code hard to test, the TLC runs that check them on small
instances, and TLAPS proofs of what matters most for every instance.

Paths below are relative to `src/src-tauri/src` unless they start with `src/`.

## 1. Inventory

Every row names the module that models the component; a dash is for those that
are not modelled yet (section 5).

| Component | State it keeps | Operations | Hard parts | What makes it correct |
|---|---|---|---|---|
| Circuit breaker `shared/circuit_breaker.rs` (`CircuitBreaker`) | per provider: CLOSED/OPEN, failure times, deadlines, recovery guard, probe lease, revision, generation; the configuration | `should_allow`, `record_success/failure`, `trigger_cooldown`, `reset`, `update_config`, the probe-lease calls, restore | calls interleave between their critical sections; leases expire; late outcomes; hot reload in two locked steps; clocks that lag | one probe per provider; a lease has an owner that will end it; an open circuit can always be probed again; revisions order what is stored |
| Probe dispatch `gateway/proxy/dispatch.rs` (`CircuitBreaker`, `SessionBindings`) | state of the dispatch ownership, lease guard, session reservation | commit at the transport boundary, complete, abandon, drop | several commits (session trigger, lease, durable row) with undo | nothing is sent before all have committed; everything is undone otherwise |
| Circuit persistence `infra/provider_circuit_breakers.rs` (`CircuitPersistence`) | channel, backlog, flush flag, batch, rows | `try_persist`, flush task, writer thread, durable upsert, load | overtaking, full queues, lost wake-ups, failing batches, crash | rows never go back; no state is forgotten silently; Ok means stored |
| Session manager `gateway/session_manager.rs` (`SessionBindings`) | bindings, request order, trigger reservations | bind, reserve, commit, roll back, evict | requests finish out of order; reservations lapse; eviction | a newer request's binding wins; one dispatch per trigger |
| Provider selection `gateway/proxy/handler/provider_selection.rs`, probe planner, `gateway/proxy/provider_router.rs` (session side in `SessionBindings`) | - (reads breaker and sessions) | gate, plan, claim | facts read before the claim are stale | a probe is claimed only when it is due |
| Failover loop `gateway/proxy/handler/failover_loop` (-) | attempts of one request | attempt, retry, switch, finish | outcomes recorded against a changed breaker | one terminal outcome per request |
| Active requests `gateway/active_requests.rs`, abort guard `gateway/proxy/abort_guard.rs`, request end `gateway/proxy/request_end.rs` (`RequestLog`) | registry of requests, armed guards | register, touch, finish, drop | completion, cancellation and shutdown race | each request ends once |
| Request log `infra/request_logs.rs`, `gateway/proxy/logging.rs` (`RequestLog`) | rows, queue, write-through tasks | placeholder, terminal row, reconcile | two write paths, drops, stop | a terminal row is never downgraded |
| Gateway life cycle `gateway/manager.rs`, `gateway/control_service.rs`, `app/cleanup.rs` (start and stop in `RequestLog`) | running gateway, tasks, cleanup state | start, stop, rebind, reset, cleanup | time limits, tasks that outlive the gateway | one writer; cleanup runs once and waiters return |
| OAuth refresh `gateway/oauth/refresh_loop.rs` (-) | tokens, last refresh | refresh, compare-and-set, shutdown | single-use refresh tokens | a rotated token is not lost |
| Account usage `app/provider_account_usage_runtime.rs` (`AccountUsage`) | targets, generations, force epochs, leases | refresh, replace, release, fetch | stale results, waiters | a result belongs to the current target; waiters return |
| Extension host registry `app/plugins/extension_host_registry.rs` (`ExtensionHosts`) | warm instances, per-plugin locks, operation gate, child processes | execute, recycle, retain, dispose | lookups race with removal; locks come and go; hooks end at any await | one warm instance per plugin; no child escapes a disposal of all; a child at work is left alone |
| Heartbeat watchdog `app/heartbeat_watchdog.rs` (-) | pong time, streak, recovery claim | pong, check, escalate | atomics beside a mutex | no escalation after a pong |
| CLI proxy takeover `infra/cli_proxy/mod.rs`, `claude.rs` (`CliProxy`) | settings.json of the CLI, its backup, the manifest | enable, disable, sync, restore, startup repair | several writes, each of which may fail or be the last; edits of the user; changing ports | the direct configuration can be given back, whole |
| Settings store `infra/settings/persistence.rs` (`SettingsFile`) | settings.json, its temporary file and backup, cache, write lock | read, update, compare-and-swap | reads without the lock; two renames | an update keeps what others wrote |
| Workspace switch `domain/workspace_switch.rs` (-) | prompt, MCP and skill files | switch, undo | undo that fails | the user's files can be restored |

How they interact: a request asks the session manager and the planner for its
providers, claims a probe lease of the breaker when its provider is OPEN,
commits the dispatch at the transport boundary (session trigger, lease, durable
row), reports the outcome to the breaker and the session manager, and logs.
Breaker calls hand their new state to the persistence channel. The failover gate
reads the route entries of the account-usage runtime, whose targets the gateway
keeps up to date. The life cycle
starts and stops all of these; the commands of the user interface reset
circuits and change settings while requests run. Start and stop of the gateway, and
the startup and the exit of the application, rewrite the configuration of the CLIs.

## 2. Modules

| Module | What it is |
|---|---|
| `CircuitHealth` | the record of one provider and what each breaker call does to it, as operators; the data types; the restore from a row |
| `CircuitBreaker` | the breaker: entries of all providers, clock, configuration and hot reload, the guards of the requests; one action per call |
| `ProbeLease` | abstract specification: at most one probe per provider, and only it or a reset closes an open circuit |
| `CircuitPersistence` | callers, backlog, flush tasks, channel, writer thread, rows, restarts |
| `CircuitStore` | abstract specification: a store that follows the breaker and never goes back |
| `SessionBindings` | the session manager and the path of a request through it, from its token to the binding of its answer |
| `RequestLog` | a request in its handler with its abort guard and its registry entry, and the ways of its placeholder and its end to the row |
| `AccountUsage` | the account-usage runtime with its scheduler and route entries, and its callers |
| `CliProxy` | the files of a CLI that is taken over, the operations that rewrite them step by step, the life of the application around them |
| `SettingsFile` | the settings file with its companions, cache and lock, readers and writers step by step |
| `ExtensionHosts` | the registry of warm extension hosts, its gate and locks, and the operations on it from await to await |
| `MCCircuitBreaker`, `MCCircuitPersistence`, `MCSessionBindings`, `MCRequestLog`, `MCAccountUsage`, `MCCliProxy`, `MCSettingsFile`, `MCExtensionHosts` | small instances for TLC |
| `CircuitHealthTheorems` | lemmas on the operators of `CircuitHealth` |
| `CircuitBreakerProofs` | inductive invariant and theorems of `CircuitBreaker` |
| `CircuitPersistenceProofs` | inductive invariant and theorems of `CircuitPersistence`, and that it implements `CircuitStore` |
| `SessionBindingsProofs` | inductive invariant and theorems of `SessionBindings` |
| `AccountUsageProofs` | inductive invariant and theorems of `AccountUsage` |
| `CliProxyProofs` | inductive invariant and theorems of `CliProxy` |
| `ExtensionHostsProofs` | inductive invariant and theorems of `ExtensionHosts` |
| `RequestLogProofs` | inductive invariant and theorems of `RequestLog` |

The two models meet at the revision. `CircuitBreaker` shows that the stored
fields of a provider never change without a larger `state_revision`
(`RevisionOrdersStoredStates`); `CircuitPersistence` therefore represents a
state by its revision.

### CircuitBreaker and the code

- Every call runs under the health mutex, so it is one action: `should_allow`
  is `ShouldAllow`, `record_failure` is `RecordFailure`, and so on. The
  configuration is read before the mutex is taken; an action uses the published
  configuration or the one before it (`ReadConfigs`).
- `update_config` is two actions, `PublishConfig` and `RewriteDeadlines`: the
  code publishes, releases the lock, and then rewrites under the health mutex.
- `guards` holds the `ProbeLeaseGuard` of each request with the state of the
  `ProviderDispatchOwnership` around it: `MarkDispatched` is the first poll of
  the transport, `CommitDispatch` and `RollbackDispatched` are the two outcomes
  of the durable write, `CompleteSuccess`, `CompleteFailure`, `Abandon` and
  `DropGuard` end the guard, `FailClosed` is the second critical section after
  a failed durable write of a failure.
- `Tick` moves the wall clock. Calls carry a time up to `MaxLag` old: it is
  read before the mutex is taken.
- `Reset` is the reset of a running gateway (`gateway/runtime.rs`). It is not
  taken between the two halves of a reload: both are commands that hold the
  lock of the gateway manager.
- Failure times are a set of pairs <<second, count>>, as only their number in
  the window matters. Error codes and snapshots for display are left out.

### CircuitPersistence and the code

- `ChangeStates` stands for every breaker call: it raises the revision of one
  provider, or of several for a hot reload, and computes the upserts under the
  mutex. What follows happens after the mutex is released: `LockBacklog`,
  `FlushOne`, `UnlockBacklog` (flush_persist_backlog, with the backlog mutex
  held throughout), `TrySend`, `Enqueue`, `Schedule`.
- `Reserve`, `PopBacklog`, `ClearFlag`, `Recheck`, `Claim` are the places where
  `flush_persist_backlog_until_idle` can be interrupted.
- `Receive`, `FinishBatch`, `InsertBatch`, `DropBatch` are `writer_loop`. A
  batch is one transaction; `DropBatch` is any failure that is not retried or
  was retried too often, for instance a provider that no longer exists.
- `ReadState`, `UpsertDurable`, `FailDurable` are the durable upserts of probe
  dispatch, probe failure and reset, which read the state in one critical
  section and write it later.
- `Restart` ends the process at any point; memory is lost, the rows stay.
- `promised` and `lost` are history variables: what a durable upsert returned
  Ok for, and what was dropped with an error in the log.
- Not in the model: the closed channel (the receiver lives as long as a sender),
  callers outside the tokio runtime (every caller is inside it), rows deleted
  with their provider, and a writer that outlives its gateway.

### SessionBindings and the code

- The manager is a map under one mutex; every operation on it is one action.
  Between two of them the request holds nothing, and what it read may be stale.
- `requests[r].place` is where the request is. `BeginBindingRequest` is the
  handler's entry; `SelectProviders` (routing_snapshot), `BindSortMode`,
  `GetBoundProvider` and `ClearBoundProvider` are provider selection;
  `PlanRequestFailback`, `ServeWithoutReservation`, `ConfirmRoute` and
  `TryReserveProbeTrigger` are the planner; `CommitTriggerReservation`,
  `LoseTriggerReservation`, `Dispatch` and `Rollback` are the transport boundary
  of `gateway/proxy/dispatch.rs`; `BindSuccess`, `EndUnbound`,
  `MarkCompactionCompleted` and `ReleaseTriggerReservation` end the request.
- What the planner sees of candidates and circuits, and whether the lease side of
  the boundary succeeds, are free choices: any of the planner's decisions that
  the session allows may be taken.
- Everything up to the reservation uses the request's own `created_at`, the
  commit and the binding use the clock, as in the code; so a slow request still
  refreshes and expires bindings at an old time.
- A request takes one token and reserves at most once, so the token is the owner
  of its reservation too. `successes` and `commits` are history variables.
- Left out: recovery baselines (fixed at creation), `trigger_revision` (written,
  never read), getters that only refresh, how a session id is derived.

### RequestLog and the code

- `place[r]` is where the handler of `r` is; an armed guard is one of the places
  "placing", "serving", "reporting". `Abort` is the drop of the future at any
  await, or the guard after a gateway shutdown; `StartStream` hands over to the
  context of the response stream, `EndStream` is its finalize or its drop.
- `Report` and `EnqueueReport` are the two sides of the only await of
  `emit_request_event_and_enqueue_request_log`; `SpawnEnqueue` and
  `RunEnqueueTask` are the variant that spawns a task.
- `Send`, `Bypass`, `Overflow` and `SpawnWriteThrough` are the ways of
  `gateway/proxy/logging.rs`; `TakeBatch`, `WriteBatch`, `WriterPanics`,
  `WriteThrough` those of `infra/request_logs.rs`. A row is its lifecycle:
  none, pending, an end, or marked by a sweep (`Reconciled`).
- `insert_batch_once` upserts the rows of its batch one after the other.
  `WriteBatch` states what that leaves in closed form (`UpsertedAll`): the first
  item of a request that is itself an end decides its row, else the row is as
  one upsert of a placeholder leaves it. `UpsertedInOrder` proves that this is
  the upsert of the items in their order.
- `lost[r]` is a history variable with the reason why an end was given up: by a
  plugin hook, a saturated limit, backpressure, a cancelled early error, a failed
  write, the end of the process.
- `StartupRecovery` may be retried while a gateway serves, as the startup run
  can; `Crash` is any end of the process.
- Left out: touch_activity and retention, progress of attempts, requests that are
  not observed, the cost of a row, plugin hooks other than their verdict.

### AccountUsage and the code

- What the runtime does under its mutex is one action; what a caller read from
  the database before it (`LoadTarget`, `LoadGatewayTargets`), and what a fetch
  reads for itself (`ReadProvider`), is a step of its own.
- `Refresh` and `CheckCompletion` are the two parts of `refresh`, the second one
  turn of its loop; `SchedulerTurn` and `Dispatch` are the scheduler;
  `CompleteFetch` is the end of `perform_refresh`. `ReplaceGatewayTargets` and
  `RemoveRouteEntries` are one call: the route entries of removed targets go
  after the mutex was given back.
- `SaveProvider`, `DeleteProvider` and `ImportConfig` change the database,
  `InvalidateSaved` and `ResetAll` are what the commands do after it.
- There is no clock: a lease may lapse at any time, an entry is due whenever
  nothing is in flight for it, which allows more than the intervals do.
- `life` counts resets and `crossed` remembers providers that took a completion
  of an earlier life; both are history, as are the `calls` of a fetch.
- Left out: recovery epochs, the lease of a route entry (it hides the entry from
  the gate), the kind of an outcome, creation of providers other than by import.

### CliProxy and the code

- `op` is the operation under way with what it holds in memory: where it is, the
  manifest it will write, the snapshots it may roll back to. Every write of a file
  is a step, since `write_file_atomic` replaces the file with one rename.
- Enable is `Enable`, `BackupForEnable`, `RecordSnapshot`, `Apply`, `CommitEnable`;
  disable is `Disable`, `Restore`, `CommitDisable`; the sync is `RefreshBackup`,
  `ApplySync`, `CommitSync` with `UndoFile` and `UndoBackup`; the restore at stop,
  exit and a failed autostart is `KeepState` and `Restore`.
- `RepairDrift` is the button of `src/src/ui/Sidebar.tsx` for a file that does not
  name the running gateway: an enable of an enabled CLI, without a backup.
- Two keys of settings.json are modelled, the base URL and the token, since every
  function of `claude.rs` reads and writes these two; the others pass through.
  A direct URL and its token share one name, so a mixture of two shows.
- `Edit` is the user or another tool between two operations: another direct
  configuration, none, no file, a file that does not parse, or the token swapped
  in a file that names the gateway, the case `is_proxy_managed` was written for.
- `taken` is a history variable, the direct file the proxy last wrote itself over;
  `slip` is another, the mistakes since the direct configuration was last backed up
  (section 3). No action reads them but to update them.
- `Launch` reads whether startup recovery is on, either way; `AutostartFails` is a
  gateway that does not start, with the restore that follows in a start that recovers.
- One operation runs at a time. Enable, sync and the restore at stop hold the
  gateway-lifecycle lock; disable and the restore at exit do not (see below).
- Left out: Codex, Gemini and Grok (several files, home directories that move,
  OAuth modes), the MCP entries written after a toggle, the safety copies.

### SettingsFile and the code

- Every step of `read_unlocked` and `write_unlocked` on the disk or the cache is
  an action: `ReadCache`, `Load`, `cache_settings`, `WriteTemp`, `BackUp`,
  `Finalize`, `Finish`. A writer is between `update` and the end of `Finish` or a
  failure under the lock; a reader takes none.
- Settings are a value per owner; a mutation sets the field of its owner.
- `Expire` ends the five seconds of the cache at any time. A step on the disk may
  fail; `Crash` ends the process and keeps the files.
- Left out: the legacy path, schema repair on read (it writes as a missing file
  does), validation, `compare_and_swap`, which is an update with a condition.

### ExtensionHosts and the code

- The program has two registries, that of the gateway (hooks, `retain_plugins`) and
  that of the commands (commands, `dispose_plugin`, `dispose_all` at exit); each has
  a sweeper. `registry` says which of the two a behaviour is about; they share
  nothing.
- Every operation is a record in `operations` that advances from await to await; its
  `pc` is the place where it waits, its other fields are what it owns there: the
  gate, the `Arc` and the guard of the plugin lock, `Arc`s of hosts. The inner
  mutexes of the maps are held within one step. `Arc::strong_count` is `Clones`.
- `operation_gate` is a tokio `RwLock`: `gate_queue` is its queue, so a waiting
  writer holds up later readers. The mutex of a process is `holder`; waiters for it
  and for a plugin lock may come in any order.
- A host exists while somebody has an `Arc` or a `Box` of it: `Go`, the last
  conjunct of every step, drops the others, as `Drop` of the child does. Identities
  of hosts and locks are used again.
- `Cut` is a future dropped at an await: a hook whose client leaves or whose deadline
  passes, and the disposal at exit after its time limit. `DeadlinePasses` is the
  deadline where the code aborts hosts afterwards; `aborts` are the tasks
  `abort_instance` spawns when a process is in use.
- Idle times and the order of last use are left open: a sweep or a cold start may find
  any set of hosts idle, an eviction may take any one. What a child does in a
  call, and the reply of a call cut off that the next one reads and rejects by its id,
  are inside `Replied`, which may fail and kill the child at any time.

## 3. What the runs check

| Run | Instance | Checks |
|---|---|---|
| `breaker` | 1 provider, 2 requests, 2 configurations, legacy rows, 2 seconds, calls up to 1 second late and with the configuration before a reload, fairness | `TypeOK`, `LeaseHasLiveGuard`, `TokensAreUnique`, `OpenCanBeProbed`, `RevisionOrdersStoredStates`, `ImplementsProbeLease`, `LeaseIsReleased` |
| `reload_rollback` (violation) | 1 request, 2 configurations, 3 seconds, calls that use the current time and configuration | `NaturalDeadlineIsCurrent` |
| `writer` | 2 providers, 2 callers of which 1 makes durable upserts, 2 flush tasks, channel and backlog of 1, batches of 2, 1 restart, fairness | `TypeOK`, `NewestIsNotForgotten`, `FlagHasOneTask`, `BacklogHasFlusher`, `PromisesAreStored`, `ImplementsCircuitStore`, `StateIsStored` |
| `load_failed` (violation) | a failing load at restart | `PromisesAreStored` |
| `sessions` | 2 sessions of 2 CLIs in a map for 1, 2 providers, 2 routes, 1 fingerprint, 3 requests of which 2 at a time, 1 compaction, clock to 2 | `TypeOK`, `NewestAnswerIsBound`, `CompactionIsSpentOnce`, `ReservationHasHolder` |
| `request_log` | 2 requests, 1 gateway, queue, batch, tasks and write-throughs of 1, 1 crash, fairness | `TypeOK`, `EndIsAccountedFor`, `RowShowsLastReport`, `PendingRowHasAnOwner`, `NoStaleActiveEntry`, `EndIsRecorded` |
| `account_usage` | 1 provider, 2 config tokens, 2 calls, 2 permits, 1 change of the database | `TypeOK`, `SnapshotIsCurrent`, `RouteShowsSnapshot`, `ManualRefreshIsNew`, `NoLostWakeup`, `SchedulerServesConsumers`, `OneFetchPerProvider` |
| `account_usage_reset` (violation) | 2 providers, 1 call | `ResetRejectsStaleCompletion` |
| `cli_proxy` | 2 direct configurations, 2 origins of which 1 is a loopback address, every write may fail, recovery on or off, crashes, edits | `TypeOK`, `BackupIsDirect`, `OffIsDirect`, `DirectSurvives`, `RestoreGivesBack` |
| `edited_token` (violation) | the same, no write fails | `GatewayBytesAreNoBaseline` |
| `extension_hosts` | 2 plugins, one of them with 2 keys, a registry for 1 and one for 2 hosts, 2 calls, a sweeper and a task, 2 operations at a time | `TypeOK`, `PluginIsExclusive`, `WriterSeesEveryHost`, `BusyHostIsLeftAlone` |
| `settings_lost_update` (violation) | 2 owners, 1 reader | `UnownedFieldsSurvive` |

Why the bounds are enough. Entries of different providers share nothing but the
configuration and the recovery epoch, so one provider shows every interleaving
of its calls; two requests give an owner and a rival, an old lease and a new
one. Time limits of one second, and configured waits of two and of one, with a
clock that runs to two make every deadline lie ahead and be reached, and the
limits be over; a reload shortens the waits and prolongs them. The bound on revisions
and generations leaves room for a full cycle: open, lease, dispatch, outcome,
and another lease. For the writer, a channel and a backlog of one are full at
once; two states of one provider can overtake each other, and the state of the
second provider competes for the slots and gets evicted. A third flush task
would need two tasks suspended between clearing the flag and ending while a
third is started; the proofs of section 4 cover any number. Durable upserts write
only the rows, under the guard that orders every write, so one caller of them beside
one that hands over shows what they may overtake.

Sessions: a session is touched by its own requests and by eviction; two sessions
in a map for one make every creation evict. Three requests give an answer that
overtakes, one that lapsed and its successor; requests past the first two begin
when one has ended, which keeps old tokens beside new bindings. A lifetime of two
and a reservation of one let a reservation lapse inside a live binding and a
binding lapse under a slow request. Request log: with every capacity one, each
is full as soon as one row is under way, so two requests meet every branch of the
backpressure. Account usage: providers share the permits and the scheduler only;
one provider with two calls and two overlapping fetches of different
generations shows the races of its entry, and the proofs cover any number.
CLI proxy: two configurations tell the one that was taken from the one before it,
two origins give a change of the port; nothing bounds the number of operations,
edits, failures and crashes, as the state is finite.
Extension hosts: nothing bounds the number of operations, only two are under way at a
time (`MaxActive`), of any two kinds; what a third could add is a queue at the gate,
which keeps it out of the registry until the first two are done with it or are readers
like itself. Two keys of one plugin meet in a cold start, a second plugin gives evictions
and hosts in use by a call of another lock; with three identities of hosts a cold start
may also fail for lack of one, which is a failing start. The proofs of section 4 cover
any number of each.

Deadlock is checked in the runs of the breaker, the writer, the CLI proxy and the
extension hosts, where it would be two operations that wait for each other. In the
other models the system may stop: all requests have ended, the clock and the changes
have reached their bounds.

Fairness. `breaker` assumes weak fairness of `FinishGuard`: whoever holds a
guard finishes it or is dropped. The code justifies it: requests have time
limits, and a dropped future drops its guard, whose `Drop` abandons or fails the
lease. No fairness is assumed of the calls that raise leases. `writer`
assumes that threads and tasks are scheduled, and strong fairness of `Reserve`,
because tokio's semaphore grants slots in order. `request_log` assumes that the
writer thread, the write-through and enqueue tasks and a handler that waits for
the queue go on: a wait for a slot has a time limit, an insert a last attempt.
Nothing is assumed of clients, providers, or the start and stop of gateways.

### Where code and documentation disagree

- `reload_rollback`: a reload between the dispatch of a probe and its rollback
  is undone by the rollback: `rollback_probe_dispatch` restores the deadlines
  copied before the dispatch. The contract in
  `src/.trellis/spec/aio-coding-hub/cross-layer/gateway-failover-route-contract.md`
  (lines 220-222) wants the natural deadline to follow the configured wait.
- `load_failed`: after a failed `load_all` the breaker starts from nothing, the
  rows keep larger revisions, and the guard of the upsert rejects every state
  of such a provider while `upsert_durable` returns Ok. The comment in
  `gateway/proxy/dispatch.rs:191` wants the dispatch state committed durably
  before a probe is sent.
- `account_usage_reset`: `reset_all` clears the entries and their generations; a
  fetch that was under way completes into an entry that was made again with
  generation 1. The contract
  `src/.trellis/spec/aio-coding-hub/cross-layer/provider-account-usage-query-contract.md`
  (lines 292-293) wants a reset to reject stale completions. It needs a provider
  that exists before and after the reset: one that an import has created and that
  is fetched before the import gets to its reset.

- `edited_token`: `claude.rs:187` takes for granted that the gateway always publishes
  127.0.0.1; `gateway/binder.rs:46-62` publishes the bind host in the WSL and custom
  modes. With such an address and a token edited by hand, `is_proxy_managed` does
  not recognise the file, and at the next change of the address
  `refresh_backup_from_direct_state` copies it over the backup. The contract
  `src/.trellis/spec/aio-coding-hub/cross-layer/settings-ownership-rollback-contract.md`
  (lines 383-385) says that port changes and hand-edited tokens must not turn gateway
  bytes into the user baseline. No write fails and nothing crashes in the run.

- `settings_lost_update`: a read takes no lock and fills the cache with what it
  loaded, also when an update has committed since. The next update, within the five
  seconds of the cache, starts from it and writes the old fields of other owners.
  The contract
  `src/.trellis/spec/aio-coding-hub/cross-layer/settings-ownership-rollback-contract.md`
  (line 143) wants fields of an unrelated owner that committed before preserved.

Met while modelling, and not a violation of anything the repository states: an
early error that waits for the queue has no guard, so a client that leaves then
leaves no row; a handler dropped while its report waits announces two ends of
one request, of which the last is in the row; a successful end is dropped where
a placeholder would be written through; and the sentence of
`gateway-proxy-contract.md` that orphan cleanup is not implemented is outdated.
`SessionTriggerCommit::rollback` (`gateway/session_manager.rs:863`) recognises its
commit by the value it wrote: after commits of the fingerprints f1, f2, f1 the rollback
of the first overwrites the third; the owner and the revision that would tell them
apart are kept and not compared. The test that names a newer commit
(`session_manager/tests.rs:745`) has one of another value, which is refused.
A settings read between the two renames of a write, or after a crash there, finds no
settings.json, writes the defaults and removes the .bak (`MaxCrashes = 1`).
In the extension hosts, a host that an eviction took out of the map may still be in
disposal when `dispose_plugin` of its plugin returns; a host that a waiting call
makes warm between the end of a disposal and its look at the lock loses that lock from
the map, and `recycle_idle_processes` passes it over until the next call; and the call after one that was cut off reads the late reply, fails and
kills the child.

The properties of `cli_proxy` hold for every write that may fail and for every origin,
except after certain mistakes, which the code cannot notice or leaves to a later
start. The history variable `slip` records them:

- `unrecorded`: the file was left the gateway's under a manifest that says disabled,
  because the last manifest write of an enable failed, or because an enable was cut
  off by a crash and the next start did not repair it (startup recovery is off, the
  settings could not be read, or the repair's write failed). `OffIsDirect` then says
  only that the manifest names the address of the file, by which a later repair
  finds it; the backup is still the direct configuration.
- `lost`: the direct configuration may be in no file any more. An enable over a file of
  the kind above makes it the backup; so does a sync over the file of a gateway on an
  address other than 127.0.0.1 with a swapped token (`edited_token`); the repair button
  over a file the user has made direct writes without a backup; and a rollback that
  fails on the file goes on to take the backup back.

`lost` ends with the next enable over a direct file or a sync that takes one into the
backup. Outside of these intervals nothing is excepted, and no other write or crash
opens one.

Beside these, a direct edit made while the gateway runs is overwritten by the keys
of the backup when it stops, a settings.json that does not parse is restored as an
object with the saved keys, and a disable or a restore at exit beside a sync, and
an edit between two reads of one operation, are not modelled.

## 4. What is proved

`CircuitBreakerProofs` proves, for any sets of providers, requests,
configurations and rows, any time limits, and any interleaving with stale
configurations and lagging clocks:

- `SafetyInvariance`: `Spec => []SafetyInvariant`, and from it `TypeCorrect`,
  `LeaseIsGuarded`, `TokensUnique` and `OpenIsProbeable`;
- `StoredStatesAreOrdered`: the action property `RevisionOrdersStoredStates`;
- `Implementation`: `CircuitBreaker` refines `ProbeLease` (`ImplementsProbeLease`).

The argument. None of the checked invariants is inductive alone. Uniqueness of
tokens needs that an entry never disappears while a guard refers to it, because
a new entry numbers its leases from the beginning: `GuardsHoldEntries` says that
the entry of a guard is OPEN or has a revision above zero, and `should_allow`
removes neither. That a lease has a live guard needs uniqueness: the end of a
guard may only take its own lease away. That an open circuit can be probed
needs that the deadlines a rollback restores are those of an open circuit
(`RollbackIsReady`). `SafetyInvariant` is the conjunction. The lemmas of
`CircuitHealthTheorems` say for each call, on one record, which of these facts
it preserves, and the proof of each action applies them to the entry it changes.

The refinement sees of a provider its state, the probe its dispatched lease names
(`Probe`), and its guards on the wire (`OnWire`); the invariant makes the first
of these the attached probes (`AttachedIsProbe`), at most one and only on an open
circuit. Each call is then one of five steps on the record it changes, or rests
(`LeaseStep`): what decides between `Recover` and `End`, and whether an end
touches the lease at all, is that a guard on the wire owns the lease exactly when
the lease names it (`ProbeIsOwned`), which is uniqueness of tokens again.

Assumptions: the time limits are integers, `None` is none of the values it
stands beside, configurations are what the validation of the settings lets through
(`ConfigsAssumption`), rows have the types the loader gives them, and an open row
has no recovery guard and the planners' deadlines of one configuration or none
(`RowsAssumption`: every step to OPEN writes them so, and the migration that added
their columns added them together).

`CircuitPersistenceProofs` proves, for any number of providers, threads and
flush tasks and any capacities of channel, batch and backlog:

- `SafetyInvariantHolds`: `Spec => []SafetyInvariant`, and from it
  `TypeCorrect`, `NewestIsNeverForgotten`, `FlagAlwaysHasOneTask`, `BacklogAlwaysHasFlusher`;
- when no load of the rows fails (`~LoadFails`): `PromisesAreAlwaysStored`,
  `RestartsKeepPromises` and `Implementation`, that `CircuitPersistence` refines
  `CircuitStore` with the revisions in memory as its current states and the rows
  as the stored ones. The hypothesis is needed: `load_failed` is its
  counterexample.

The argument. `NewestIsNotForgotten` is not inductive: the backlog drops an
upsert as outdated, and a batch stores only the latest of a provider. Neither
loses the newest state because nothing under way is ahead of the breaker
(`NothingIsAhead`): an upsert with the revision of the breaker cannot be
outdated (`EnqueueKeeps`) and is the latest of its batch (`BatchHoldsNewest`).
The proof sees what is under way as sets, what callers hold and what was handed
over; most steps only move an upsert from one set to the other, which
`TakesUpNothing` and `StaysRemembered` settle once. The flag and the tasks need
no more than `FlagHasOneTask`: the task that clears the flag is the only one
flushing, and one that finds the flag taken leaves another behind it. For the
rows, `RowsInBetween` (promised, stored, current are in this order) follows from
`NothingIsAhead` and each step is a step of the abstract store (`StepOfStore`).

`AccountUsageProofs` proves, for any sets of providers, tokens and calls and any
number of permits, `TypeCorrect`, `SnapshotsAreCurrent`,
`RouteEntriesShowSnapshots`, `ConsumersAreServed`, `FetchIsAlone`,
`RefreshesAreNew` and `SleepersAreWoken`: all the invariants of `account_usage`.

The argument. A snapshot is current because a completion is taken only when the
generation of the entry is the one the fetch was dispatched with, and a save
that has invalidated since would have raised it. For that the proof needs what a
fetch under way knows: `InFlight` (a fetch of this life is the one its entry
waits for, there is no other of its provider, and its generation is not ahead of
the entry's) and `FetchIsCurrent` (while the generation is still the entry's,
what the fetch has read is the stored version, unless a save is about to
invalidate). Providers in `crossed` are excepted: they are the finding. The
route entries follow because every step that drops or replaces a snapshot drops
or replaces the route entry in the same hold of the mutex, except the late
removal, which only removes. The scheduler needs that a lease which lapsed and
was not yet removed still keeps it, because a heartbeat may renew it
(`SchedulerInv`).

The manual refresh is proved on top of that (`RefreshInv`). The entry numbers the
forced refreshes in the order of asking, of dispatch and of completion, and the
pending one is the last of them (`InOrder`). What a call knows while it waits is
`Waits`, for the call, its entry and the fetches under way: in the life of the
runtime and the generation it asked in, its epoch is completed, pending or carried
by a fetch that will be taken (`Coming`), so that one who sleeps has something to
come; and a fetch or a snapshot that was not dispatched for it has an earlier epoch
(`FetchAnswers`, `SnapshotAnswers`), so that it is not taken for the answer. After a
reset it may find an entry of another life with epochs of its own; the last two facts
are about that entry as well. All steps but the dispatch and the landing of a fetch keep
the epochs or add one (`Grows`), which `GrowthWaits` settles once; the dispatch,
the landing, a lost fetch and a reset have proofs of their own. One lemma for each
action says which of these it is for every provider.

`SessionBindingsProofs` proves, for any sets of sessions, providers, routes and
fingerprints, any time limits, any map limit and any number of requests,
`TypeCorrect`, `ReservationsHaveHolders`, `ConsumedIsCompleted`,
`CompactionsAreSpentOnce` and `NewestAnswersAreBound`, among them all the invariants
of `sessions`.

The argument. That a compaction is spent once is not inductive. A commit spends
what was reserved, perhaps long before, so the proof needs that what is reserved
is unspent (`ReservedIsUnspent`); a reservation is only given on the generation
that completed last and is not consumed, and what was spent is consumed or
older (`SpentIsOver`). The second half of that is there for the rollback: it may
take the consumed generation below one that another request spent, but then a
later compaction has completed, and only the last one can be reserved again. A
consumed generation stays completed because a reservation, and what a commit
replaced, are bounded by the two generations (`Generations`). All this is about
one life of a binding: `Born` says that a binding, and a commit, names a request
that is past the step that creates bindings, so a new binding shares its number
with no earlier one. Most steps only move a request and keep or drop bindings
(`KeptBindings`, `QuietRequests`), which `QuietInv` settles once; the new
binding, the reservation, the commit, the rollback and the answer have proofs of
their own.

`CliProxyProofs` proves, for any sets of direct configurations and origins, loopback
or not, and whichever writes fail, `TypeCorrect`, `BackupIsAlwaysDirect`,
`OffIsAlwaysDirect`, `DirectAlwaysSurvives` and `RestoreAlwaysGivesBack`, from the
assumption on the constants alone. What they except is what `slip` records.

The argument. An enable that fails at its end or is cut short leaves the gateway's file
under a disabled manifest. It is harmless as long as that manifest names the address
of the file and no enable takes the file for the user's, and it can be met only while
the process is down, while the repair runs, before the last manifest write, or with
`slip` set (`TakenIsRecorded`). Every other operation under a disabled manifest starts
from a direct file, and an enable backs that up before it writes (`EnableInv`). A
sync runs under an enabled manifest and refreshes the backup exactly when the file is
not recognised as the gateway's, so a file it is about to overwrite is in the backup
(`BackupIsNewest`); and what a failed sync may put back, backup and file, belong
together (`UndoInv`). Nothing else writes over a direct file but the repair button.
The exceptions are the induction's own: each is a step after which these facts do not
hold, and the invariant says them for every state in which `slip` is not `lost`.

`ExtensionHostsProofs` proves, for any sets of plugins, keys, hosts and
operations, any limits and any number of operations at a time, all the
properties of `extension_hosts`: `TypeCorrect`, `PluginIsAlwaysExclusive`,
`WriterAlwaysSeesEveryHost` and `BusyHostIsAlwaysLeftAlone`.

The argument. Locks leave the map while operations go on, so exclusion rests on
`LockInv`: a lock that an operation has is the one its plugin has in the map. It
is removed only when nobody else has it, or by a writer, which is alone
(`GateInv`). A plugin has one warm host because a cold start takes the others out
and then keeps the plugin cold until its own enters (`WarmInv`), which is so
because it keeps the lock. `OperationsAreSound` says what an operation owns where
it is, also while it disposes of hosts and has yet to go on; a writer owns
nothing but what it disposes of, and a process without an owner has no child
(`HostInv`), so a writer sees every child. A call has its process locked while
its child works, and every step but the child's own end respects that lock
(`Spared`). Most steps take no lock and only take hosts out of the map
(`SimpleStep`, `DisposingKeeps`); a cold start's insertion, the locks and the
gate have proofs of their own. The queue of the gate has an invariant beside
these, `QueueInv`: it holds whoever is at the gate, each once. A step of an
operation appends it, takes it from the head, takes it out wherever it is (a hook
that is cut), or leaves the queue and its being at the gate alone (`Queues`).

`RequestLogProofs` proves, for any sets of requests, gateways and ends, any
capacities of the queue, the batch and the write-through tasks, and any crashes
and restarts, `SafetyInvariance` and from it `TypeCorrect`,
`EndsAreAccountedFor`, `RowsShowLastReport`, `PendingRowsHaveOwners` and
`ActiveEntriesAreOwned`, all the invariants of `request_log`; and
`UpsertedInOrder`, on the closed form of a batch.

The argument. A request reports at most twice and its rows travel by up to five
ways at once, so a row can only be trusted if nothing else can still arrive.
The proof says of each request by itself (`RequestOK`) what is on its way: an
end on any way is the one reported last, and there is one only after the handler
has left its place; an end is not both on its way and given up; a placeholder
under way belongs to a request whose row it can no longer spoil, because the
upsert leaves an end alone. What a row then shows is the end reported last
(`RowShowsLastReport`), and a pending row has an owner that will still write its
end, or gave up with a reason, or waits for the next sweep. Every way of the
queue is one instance of a few lemmas: a step that only moves what is carried
(`Carries`), one that only leaves the handler, one that writes rows, one that
sweeps. `UpsertedInOrder` speaks of a sequence of any length. It is not proved
by the library's induction theorems, whose parameter is an operator, but by the
least index at which the fold and the closed form would differ: that there is
one follows from the well-foundedness of `<` on the naturals (`Least`).

Assumption: `None` is neither an end, nor one of the marks that stand beside
ends, nor a reason for a loss.

Only model-checked: everything about the settings file, and all liveness
(`EndIsRecorded` of the request log among it), which is out of reach of TLAPS.

## 5. Plan

1. Composition of `CircuitBreaker` and `SessionBindings` at
   `commit_at_transport_boundary`, with a crash between its steps; today each
   half takes the outcome of the other as a free choice.
2. The gateway life cycle: a writer that outlives its gateway, resets of a
   stopped gateway, run-once cleanup and its waiters.
3. `OAuthRefresh`, the heartbeat watchdog, the CLI
   proxy of the other CLIs and its concurrent operations, the workspace switch, and
   the settings service around an update (compare-and-swap, autostart).

Not modelled, and not planned: plugin hook pipeline (sequential), database
migrations (linear scripts), the user interface, the plugin SDK, MCP, prompt
and skill formats, protocol conversion between providers, usage accounting and
model catalogues. They are the bulk of the code, and compute on the data of one
request or one file; the models cover the parts that share state.
