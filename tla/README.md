# basement in TLA+

basement is one Go process: a control plane for S3 backends with an HTTP API,
background engines and JSON stores, and a single-page web interface that it serves.
This directory holds TLA+ modules of the parts whose correctness depends on order,
timing and failure, the TLC configurations that check them on small instances, and
proofs that hold for every instance.

1 Inventory · 2 Modules · 3 Runs · 4 Proofs · 5 Known disagreements · 6 Not modelled · 7 Plan

## 1. Inventory

Sources are under `src/`. "State" is what outlives a call.

| Component | State | Operations | Interacts with | What makes it correct |
|---|---|---|---|---|
| Federation data plane (`internal/federation/engine.go`) | per replica: `LastSync`, health, lag (stored); failure counters, event queue (memory); the objects of each backend | polling tick, diff, batch copy, event task, health writes | backends, webhook bus, federation store | `LastSync` never passes an object the replica lacks; replicas converge; health tells the truth |
| Federation control plane (`internal/api/user_federated_buckets.go`, `internal/federation/store.go`, watchdog) | the record: primary, replicas, policy, `FailoverEpoch` | create, update, delete, manual failover, probe, automatic failover | data plane, backends, requests | one primary per epoch, never one of its replicas; the watchdog acts |
| Federation engine life cycle (`engine.go`) | maps of loop, event and watchdog channels; the goroutines | Start, Stop, EnsureLoop, RemoveLoop, stopWatchdog | handlers, ticks | one loop per federation, no goroutine out of Stop's reach |
| Webhook engine (`internal/webhook`) | queue, webhooks with failure counts | Emit, dispatch, deliver with retries, RecordDelivery, edits | handlers, federation, receivers | a failing webhook is switched off, and said so; Stop returns |
| Backup scheduler and runner (`internal/backup`, `internal/api/backup_runner.go`) | cron entries, running set, rows, snapshots | Add, Remove, Reschedule, fire, Trigger, prune | sync engine, drivers | something to restore from; cron follows the rows; the slot comes back |
| Sync engine (`internal/sync`) | stored jobs, registry of live runs | Run, Pause, Resume, Delete | drivers | "done" means copied; a working row has its run |
| Cluster secrets (`internal/clustersecret`) | wrapped keys on disk, key in memory | bootstrap, add, remove, unlock, lock, seal | admin handlers | one key per cluster |
| Policy enforcer (`internal/auth/policy`) | roles and grants, memory and file | assign, unassign, roles, OIDC reconciliation, seeding | all handlers, logins | what the operator was told holds |
| Sessions and elevation (`internal/auth`, `internal/api/auth_elevate*.go`, `frontend/src/shared/auth`) | the cookie; the tab's two copies of it; the prompt | elevate, drop, expire, switch role, guard a route | server, React Query | the tab shows the cookie's truth; admin mode needs a recent password |
| Web interface (`frontend/src`) | React Query's cache, forms, controls | queries, mutations, polls, navigation | HTTP API | a page shows what its own mutations wrote; edits survive refetches |
| Invites and shares (`internal/store`, `internal/api`) | invite tokens, accounts, download counters | create, redeem, rotate, revoke; count a download | users store | at most one account per invite; a share keeps its limit |
| Other JSON stores (`internal/store`) | one file each and its cache | locked read, change, write | handlers | memory is what the file says |
| Service accounts, driver registry, gateways, metrics, audit, bootstrap, MCP server, CLI library, smoke scripts | see section 6 | | | |

Stores write a whole file through a temporary name and a rename, under a lock.
Nothing is transactional across files, and memory does not survive a restart.

The hard behaviours: goroutines and requests that act on copies of a record read
earlier (tick, event worker, watchdog, pause and resume, settings forms); a
watermark that decides which objects are never looked at again; timeouts that
abandon calls which may still take effect; locks held for one map operation at a
time; writes that fail with or without a rollback; two goroutines for one job; and
in the browser, answers that land after what they answer has changed.
`PROJECT.json` lists the hazards line by line.

## 2. Modules

| Module | Content | Composed in |
|---|---|---|
| `FederationReplication` | the data plane: one federation, its primary fixed | - |
| `FederationFailover` | the control plane: who is the primary | - |
| `FederationTakeover` | both planes and one object name: what outlives a failover | `MC_Services` |
| `FederatedPrimary` | what the record promises its readers; `FederationFailover` implements it | `FederationFailover` |
| `FederationLoops` | the goroutines of one federation and who starts and stops them | `MC_Services` |
| `WebhookDelivery` | one webhook: queue, dispatcher, deliveries, row, file, edits | `MC_Services` |
| `BackupRuns` | one snapshot backup: row, cron entry, slot, runs, retention | `MC_Services` |
| `SyncJob` | one job: row, runs, registry, pause and resume | `MC_Services` |
| `ClusterSecret` | the key of one cluster | `MC_Services` |
| `Connections` | connections.json and its cache | `MC_Services` |
| `PolicyGrants` | policies.json and its cache, OIDC logins, seeding | `MC_Services` |
| `InviteRedemption` | invites, their tokens, the accounts made from them | `MC_Services` |
| `ShareDownloads` | one share with a download limit | `MC_Services` |
| `RouteCapabilities` | the table of guarded routes and its lookup (pure) | `BrowserSession` |
| `BrowserSession` | a tab's session against the cookie | `MC_BrowserSession` |
| `ApiHooks` | every query and mutation hook: key, poll, what it shows, changes and invalidates | `QueryCache` |
| `PageParts` | how a page part shows queries, presses mutations, keeps a form | `QueryCache` |
| `AdminPages`, `FilesPages` | every page as its parts | `MC_QueryCache` |
| `QueryCache` | React Query's cache, a control and a server under those pages | `MC_QueryCache` |
| `FederationFailover_proofs`, `FederationReplication_proofs`, `WebhookDelivery_proofs`, `BrowserSession_proofs`, `QueryCache_proofs`; `FederationEngine_proofs` (`FederationLoops`, `FederationTakeover`); `Jobs_proofs` (`SyncJob`, `BackupRuns`); `Stores_proofs` (the four stores) | theorems (section 4) | |

The services of `MC_Services` have files, locks and goroutines of their own and meet
only through the process, so a behaviour of `MC_Services` follows one of them
(`service`), and one run covers them all without multiplying their states. Where two of
them do meet, one module holds both sides: a webhook and its deliveries, a backup and
its retention, an invite and the account.

### FederationReplication

| State | Code |
|---|---|
| `primary`, `replica` | the backends' objects; a version stands for content and ETag, `mtime` for LastModified |
| `rec[r]` | LastSync, Health, LagObjects of the stored `ReplicaTarget` |
| `failures[r]` | `Engine.failures`, which matters only up to `BrokenFailureThreshold` |
| `tpc .. upd` | locals of `tickFederation`, `replicateToReplica`, `computeDiff`, `replicateBatch`: `floor` is the snapshot's LastSync, `page` what is left of a listing page, `todo`/`flying`/`failed`/`abandoned` a batch's objects, `upd` the update about to be stored |
| `bus`, `tasks` | envelopes emitted and not yet dispatched; the `eventTasks` channel |
| `epc`, `etask`, `ever`, `eupd` | locals of `handleEventTask` |
| `strays` | PUTs given up on that the backend may still apply |
| `touched`, `late` | history, read by no guard: objects stored behind the back of a pass, or spoilt by an out-of-date write, after the slack ran out |

A tick is `TickStart`, then per replica `PickReplica`, `ListPage`/`Examine`/`PageDone`
(computeDiff), `CopyRead`/`CopyPut` (replicateBatch with its workers), `TickSettle`
(recordSuccess or recordFailure up to its store call) and `TickWrite` (the store call).
Each read or write of a backend or of the store is a step of its own; everything
between two of them is one step. `CallFails` is a failed call: injected while the
budget `MaxFaults` lasts, or because the context's deadline has passed.
`BatchExpire` is `waitOrAbandon` returning at the deadline: copies whose driver saw the
cancellation report an error, the `silent` ones do not. The event path is
`RouteEvent` (handleWebhookEvent), `TakeTask`, the backend call, settle, `EventWrite`.

Abstracted: directories, object sizes and byte counts, content types, audit and logs;
`ServerSideCopy` (a `CopyRead` followed at once by its `CopyPut`); an ETag that differs
for equal content (encryption, multipart), which only causes copies that change nothing;
a user write on a replica. A federation edited or deleted during a tick belongs to the
control plane.

### FederationFailover

`row` is the stored record (`live` until deleted); `watch[w].copy` and `op[o].copy` are
the copies a watchdog or a request holds; `marks` the LastSync values of the tick's
snapshot. `PromoteWithEpoch` and `UpdateReplicaHealth` are the store's methods, each
atomic under its lock, each with its failing write. `Swap` is the patch that
`triggerAutoFailover` and `userFailoverFederationHandler` build. `Eligible` is their
common gate. A settings form is opened (GET), then saved whole (PUT) or closed. The
polling tick is reduced to the health it stores, with success or failure decided by
which backends are up. The code compares a form's epoch with nothing, so a form may be saved
after any number of promotions and with any targets. `policy` and `shown` (the configurations
of the present epoch) are history. Restart forgets everything in memory except a form in a browser.
Left out: name uniqueness, read-only endpoints, and resync, which only wakes the tick.

### FederationTakeover

What neither plane shows alone: a failover does not wait for the pass and the event tasks under
way. `row` is the record with each replica's LastSync, `tick` the pass with the snapshot that
`tickFederation` loaded, `tasks` and `event` the event path, `bucket[t]` what each target holds under
one object name. `Promote` is one step, since `PromoteWithEpoch` compares the epoch under its lock
and `FederationFailover` shows that nothing decided earlier gets past it; it takes a replica
that has been synced, keeps the other replicas' LastSync and clears the two it exchanges, as the
patch does. A pass lists, heads, reads, puts, settles and writes in a step each; a delete is
published, routed, queued, carried out, read back and recorded in a step each. `shown` and `late`
are history. Left out: pages, batches, workers, failing calls (both planes have them), and put
events, whose copy is the pass's. A pass takes an instant of the clock: longer ones are in
`FederationReplication`, and would break `WatermarkSurvives` without any failover.

### FederationLoops

`fedQuit` and `watchdogQuit` are the engine's map entries, naming the goroutine that
listens to the channel (0 for no entry); `threads[g]` is that goroutine and whether its
channel is closed; `handlers[h]` a request between its steps, with the policy it has
read; `cancelled` is `engineCtx`, `stopped` the progress of `Stop`. `Engine.mu` is held
for one map operation, so `EnsureLoop` is up to five steps: the look, `spawnLoop` (which
looks again), the policy, the look for a watchdog, its start or stop. The loop and its
event worker share a channel and are followed as one goroutine. A tick that finds no
record calls `RemoveLoop`, a watchdog that finds its policy off `stopWatchdog`, each in a
step after the read. `select` takes a tick or the quit channel as it likes. Left out: the
grace period of `Stop`, panics that the goroutines recover from.

### Services

- `ClusterSecret`: `wrapped` is cluster_secrets.json, `held` the manager's map, `calls` the
  requests with the key each carries. `BootstrapFirstAdmin` holds `bootstrapMu` from its look
  to its cache write; `AddAdmin`, `Unlock`, `RemoveAdmin` do not. A key is the number of its
  draw, key derivation is perfect.
- `Connections`: `toDisk` and `loaded` are the conversions between a row and its line in the
  file, with what each keeps of a secret; every operation holds the lock, may fail to save,
  and rolls back or not as the code does.
- `SyncJob`: `job` is state.json, `runs[r]` the local `*SyncJob` of a goroutine with its
  workers, `active` the registry. `RunSteps` is what a run does by itself, `CallReturns` a
  driver call that ends. `asks` are pause and resume requests between load, signal
  and save. A save that fails is ignored, as in the code.
- `BackupRuns`: `row` is the store's map, `rowFile` backups.json: a write that fails keeps the
  change in memory, any later write of the store carries it to disk (`OthersWrite`), a restart
  takes it back. A run claims the slot (`Fire`) or not (`Trigger`), plans, copies object by
  object, records, lists the snapshots, plans the pruning and deletes one by one. `snaps` is
  the destination. Periods of retention are numbers of clock ticks (`Cadences`).
- `WebhookDelivery`: `Emit` is its two looks at a full queue, `attemptDelivery` an attempt,
  `RecordDelivery` and its audit line are two steps, an edit reads and writes in two. `unsaid`
  and `renewed` are history.
- `InviteRedemption`: `Redeem` consumes the invite in its store; the name is looked for and
  the account created afterwards, each under the users' lock. Tokens are numbers.
- `ShareDownloads`: a visitor validates, gets a presigned URL, is counted, is redirected.
- `PolicyGrants`: `policy` and `policyFile` are the enforcer's state and file; a right is a
  role at a scope; `seeding` is the place in `SeedEnvAdmin`; `word` is what the operator's last
  save gave or took. A grant that memory has already is answered for without a save. The
  environment's admin does not log in through OIDC.

### Web interface

`BrowserSession` has the cookie, React Query's entry for `/auth/me`, `AuthModeProvider`'s
state, the password prompt, the three requests that replace the cookie, and the route
guards. Its requests overlap each other and the fetches of `/auth/me` as they may. Effects of a
render run before the next event. `granted` (the window of the last elevation) and `crossed`
(where the answer is that a role switch has overtaken) are history. `RouteCapabilities` translates
the whole table of guarded routes.

`ApiHooks` writes down each hook of `shared/api`: the query's key, its polling rule and the
facts it shows; the mutation's facts changed, keys invalidated or removed, and whether an
elevation may be asked for. The pages say which of them they mount, which control presses
what, when it is disabled, and which form follows which query. `QueryCache` picks a
control of one page and a query of any page (a scene), merges the scenes that are wired
alike, and runs both against a server that others change too: fetches deduplicated or
restarted as React Query does, requests refused, failed, lost or answered after the user
has left.

## 3. Runs

Every run is exhaustive within its bounds, and each passing property has a mutant in
`PROJECT.json`: a definition changed as a plausible bug would, that TLC must catch.

| Run | Checks | Instance |
|---|---|---|
| `MC_ReplicationPolling` | `HighWaterMark`, `BrokenAfterThreeFailures`, `WatermarkNeverRegresses`, `Converges` with the tick as only recorder | 2 objects, pages of 1, batches of 2 with 2 workers, 2 uploads, 3 faults, slack 1, ticks of up to 2 units |
| `MC_ReplicationEvents` | `HighWaterMark` with the event worker | 1 object, 2 uploads, delete events and deletes past basement, channel of 1, 1 fault, late PUTs, failing store writes, ticks of any length, mtimes up to 1 behind the clock |
| `MC_ReplicationRecovers` | `BrokenReplicaRecovers` | put and delete events routed, dropped or lost, late PUTs, 1 fault, failing store writes |
| `MC_Failover` | `PrimaryIsNoReplica`, `ImplementsPrimary`, `WatchdogActs` | 2 backends, a watchdog, a failover by hand or a form saved late with any targets, 2 probes per outage, lag bound 1, 2 of outages, restarts and failed writes |
| `MC_BrowserSession` | `ShowsTheTruth`, `LiteralRouteWins`, `AdmittedStays`, `AdminIsRecent`, `PromptSettles`, `ExpiryLeavesAdmin` | elevation of one clock unit, two pages asked for; an elevation, a drop, a role switch and a fetch at once |
| `MC_QueryCache` | `WellWired`, `ReadYourWrites`, `LastPressWins`, `EditsSurvive`, `PollsKeepUp` | every page, 2 presses, 2 events, all scenes |
| `MC_Services` | 14 invariants, see `PROJECT.json` | ten services (for `takeover` 2 targets, 1 failover, 2 versions); two to three of each kind of actor |
| `MC_ServicesProgress` | `RunsEnd`, `SlotComesBack`, `StopReturns`, `NoLoopLeft` under fairness | sync, backup, webhook and loops; one client, one delivery, one loop and one watchdog |
| `MC_ReplicationStrands` | `LastSyncHighWaterMark`: violated | 1 object, 1 upload, slack 2, no faults, no events |
| `MC_FailoverOutageEnds` | `OutageEnds`: violated | 2 backends, an outage |
| `MC_BrowserSwitch` | `SettlesOnTruth`: violated | as `MC_BrowserSession` |
| `MC_ConnectionsSurvive` | `ConnectionsSurvive`: violated | 3 ids, 3 labels |

`findings` in `PROJECT.json` quotes the sentences that the four last runs refute.

What the passing properties except, they except by name: `late` (objects that a long pass or an
out-of-date write harms), `crossed` in the session (an answer asked for before a role switch),
`orphaned` (a key whose last wrapped copy was deleted), `strayed` (a connection update refused
half way), `doubled` (a job whose runs overlapped), `stranded` (a row that a restart, a lost
write or an unresolved driver left), `overlapped` (a backup run by hand beside another),
`crossed` in backups (edits that overlapped or were not written), `renewed` (a webhook enabled,
or a process restarted, since its last result), `late` in the takeover (what began before the
failover), a failed or overtaken refetch. Each is a place where the code does not keep the
promise; the strict form is a violated run, or a predicate or line of section 5.

### Bounds

- Time is a small integer. What matters is the order of a few instants (upload, listing,
  store, end of the pass) against `Slack`: `MaxClock` is large enough that a watermark minus
  the slack passes a real mtime, which takes `Slack + 2` instants (but for
  `MC_ReplicationRecovers`, below).
- Nothing bounds a tick below the slack, in the code (1000 s against 2 s) or in the runs: a tick
  lasts as long as its steps let the clock run, and with `TickDeadline` its calls begin to fail.
  What a long pass strands is in `late`, and in `MC_ReplicationStrands`.
- Two objects and pages of one reach every way a listing continues; batches of two with two
  workers reach the cut, the full copy and the batch of which one half fails; two versions and a
  delete reach every stale copy. One fault fails each call once; three reach the broken state.
  With a slack of one, three instants let the prefilter skip an object after it is copied, four
  (`MC_ReplicationStrands`) one that was never copied; mtimes that lag the clock (`Blur = 1`) are in the run with events.
- One replica per run: replicas share the tick's snapshot and its order of service, the store's
  lock and nothing else, and the proofs have any number of them.
- `MC_ReplicationRecovers` is about health, which depends on failures and not on versions: one
  version and two instants let put events, late PUTs and a broken replica meet.
- In `MC_Failover` one request (a failover by hand, or a form) against one watchdog makes each race
  of two writers of the record; three would need a third backend to differ, and the theorems
  have any number.
- Failure counters saturate at the threshold (federation) or one above it (webhooks);
  comparison with it is their only use.
- Services: two callers, clients, runs, deliveries or redeemers are what every race recorded in
  the hazards needs; three ids and labels let a deleted connection's label be taken while a
  third exists; three visitors exceed a limit of two by one. Two loops and two watchdogs let
  an old goroutine live beside its successor; a third would need a second removal, and
  `OneLoop` is proved for any number. For backups, `MaxClock = 3` with cadences of
  which neither keeps a subset of the other's puts snapshots in one and in two periods, and lets
  a run prune what a later one would have to want back.
- The progress run has one loop and one watchdog: its property is about each goroutine by
  itself, and with a number taken until it returns the next one waits for it.
- In `takeover` one failover, two targets and two versions make every race of a pass or a task with a
  failover. A second failover, back to the first primary, fits TLC barely (28 million states with
  `MaxEpoch = 2`) and found nothing more; `DamageComesLate` is proved for any number.
- Two presses and two events in `QueryCache` reach every pair of overlapping requests,
  fetches and changes by others.

### Fairness

`FederationReplication!FairSpec`: the tick, the event worker with the bus, and the clock
go on. The code justifies it: each is a goroutine with a ticker or channel and every call has a
deadline (`ObjectReplicateTimeout`, `TickDeadline`). Uploads, deletes and faults owe
nothing. `FederationFailover!FairSpec`: only the watchdog's ticker is fair. The tick is not: it
skips federations in scheduled mode, and a long pass delays the next one.
`MC_Services!Fair`: the goroutines of a run, a delivery, the dispatcher, a loop and a watchdog are
scheduled. A delivery's request has a client timeout, so it returns. A sync run copies under
`context.WithoutCancel` and no deadline: a driver call returns for sure only once the run is
cancelled (`SyncScheduled`), and `RunsEnd` excepts a run with a call open. In `BackupRuns` a stalled
driver is a state of its own that nothing leaves.
`Returns` is strongly fair: `select` picks at random among the ready channels, so a quit channel
that stays ready beside the ticker is taken some day. Requests, clients, Stop and restarts owe
nothing. In `BrowserSession!FairSpec` and
`QueryCache!FairSpec` renders, timers, polls and answers to requests come (a lost or failed answer is an
event of its own), and a prompt that is open is some day answered or cancelled; beyond that the
user owes nothing. `CHECK_DEADLOCK FALSE` appears where the system may really stop: a
deleted federation or backup, a process that has ended, users who are done.

## 4. Proofs

For every value of the constants; the only assumptions are the named `ASSUME`s of the
modules (that counts are numbers, that a mark for "none" is not a value) and, where a
theorem is stated under a condition on the constants, that condition.

`FederationFailover_proofs`:

- `TypeCorrect`: `Spec => []TypeOK`. The work is in the record: a patch built by `Swap`, a health
  write, a saved form are again records (`SwapIsRecord`, `PromotionKeepsTypes`).
- `PrimaryNeverReplica`: `Spec => []PrimaryIsNoReplica`. Not inductive alone: a promotion installs
  a COPY, so the invariant `DistinctInv` extends it to every copy that a watchdog or a
  request holds.
- `PromotionsAreGated` (`PromotionIsGated`), without a condition, retargeting and stale forms included:
  a promotion counts one epoch, was decided in it on a copy that passed `Eligible`, and leaves every
  other copy behind. `NotAhead` (no copy has a later epoch than the record) is all it needs.
- `FailoverImplementsPrimary` (`ImplementsPrimary`), without a condition, stale forms included. `FenceInv`: a
  held copy with the stored epoch has a configuration that the record has had in this epoch
  (`shown`). A promotion that passes the compare-and-swap therefore exchanges two members of such a
  configuration, though a form may have replaced it meanwhile, in either order: that is what
  `FederatedPrimary` promises, and all that a comparison of epochs can, since a form counts none.

All rest on two lemmas about one step: `RowStep` (the record is kept, promoted from a held
copy, or saved from a form) and `CopyStep` (a copy is old, or was read from the record in this
step).

`FederationReplication_proofs`, for any replicas, objects, pages, batches, workers,
deadlines and numbers of faults:

- `TypeCorrect`: `Spec => []TypeOK`.
- `WatermarkNeverStrands`: `Spec => []HighWaterMark` under `TicksAdvance` (no put events; section 5 says
  what one does). No condition on the length of a tick, a queued delete or a late PUT. `MarkInv` adds:
  - `WatermarksInv`: every value that may still be stored (the tick's snapshot, tasks, pending
    updates) is vouched for: it is not ahead of the clock and skips only mirrored objects, or late ones;
  - `EventsInv`: the event path only deletes;
  - `PassInv`: each object the pass owes (`Owed`: present, not stored or spoilt since it was listed) is
    mirrored, still to be listed or examined, waiting, in flight, failed, abandoned, or the pass is
    truncated (`Accounted`).

  `WrittenSpoils` shows that what an out-of-date write undoes is remembered; that the end of a
  drained pass is vouched for follows from `PassInv`: what it owes it has mirrored, and what it does not
  owe and would skip is late.
- `WatermarkMonotonic` and `BrokenMeansThreeFailures`, under `PollingOnly` (no event
  reaches the engine; for the second, no failing disk): a pass's snapshot equals the stored
  watermark until the pass writes its own, and the pending update agrees with the counter.

The services, each for any number of actors:

- `FederationEngine_proofs`, the goroutines:
  - `OneLoop`: `OneLoopEach` needs `LoopInv`: the registered loop runs (`Running`), a record without a
    loop has a request on its way to start one (`OnItsWay`), and what removes a loop does so only when
    the record is gone or the engine is ending (`RemovedWhenGone`), which a request, a tick or Stop
    carries from its read to its removal.
  - `DroppersAreTold` (`DropsItself`): a goroutine that deregisters "itself" closes whatever is
    registered under the federation's name by then. By the same invariant it is told to quit
    all the same: it is the registered one, or whoever replaced it has told it.
- `FederationEngine_proofs`, the takeover: `DamageComesLate` (`DamageIsLate`). `TkInv` says that a pass or
  a task with the record's epoch has the record's primary, and writes elsewhere (`PassElsewhere`,
  `TasksElsewhere`); no epoch is ahead of the record's, so a promotion makes all of them late at once.
- `WebhookDelivery_proofs`, `FailingHookOff`: inductive with the types of rows
  and deliveries (`HookInv`).
- `Jobs_proofs`, the sync engine:
  - `DoneIsCopied` (`DoneMeansCopied`): `SyncInv` says that nothing but a failure or a pause cancels
    a run that is alone (`Justified`), and that until then every object is copied, on its way or
    still to do (`Accounted`).
  - `RowsAreOwned` (`RowIsOwned`): a run that has failed holds the error state (`FailsLoudly`), so a
    row that shows the job at work was written by a run that will write again.
  - `RunsAreNotWedged` (`NeverWedged`): at most `MaxConcurrency` workers, and a copying run has a worker,
    an object with a free slot, or nothing left. `Served` and `Evolves` carry the count through each
    step; a limit below one, which would wedge every run, is what `NewEngine` replaces by its default.
- `Jobs_proofs`, backups:
  - `CronIsInStep` (`CronFollowsStore`): an edit under way carries what the row asks for (`Carries`);
    it is the only one until edits overlap, and from then on the property is silent.
  - `SomeSnapshotIsWhole`, `SuccessMeansWhole` (`AlwaysRestorable`, `SuccessIsComplete`): `SnapInv` says
    that a run copies to the newest timestamp there is, has put there whatever is not still to do
    (`Filling`), and has that timestamp outside what it is going to delete. The last part rests on a
    lemma about retention, `NewestIsKept`: whatever the cadences, the newest snapshot is not pruned.
  - `RetentionKeepsItsWord` (`RetentionIsHonoured`): runs decide on the snapshots they happen to find, at
    different times, after others have pruned, and beside runs started by hand; the property judges all
    that by the policy alone, over every snapshot ever begun. It rests on a fact about PlanPrune by
    itself, `PruningIsIncremental`: pruning now and again later keeps what pruning once, later, keeps
    (`GivenUp`: a window once closed stays closed; `HasNewest`: each window has a newest snapshot, by
    induction over the well-founded order of times). `RetInv` adds what each run answers for (`Answers`).
  - `SlotNeverLeaks` (`SlotIsHeld`): inductive with the types; one step per place where a run can end.

  The first three assume `~WholeBucket`: a backup of a whole bucket copies to the root
  (`SnapshotsStayInPrefix`, section 5), and TLC refutes them without it.
- `Stores_proofs`: `ServedIsStored` (`MemoryIsOnDisk`), `ShareLimit` (`ServedWithinLimit`; `CountsInv`
  orders redirects, file, cache and limit), `WordIsKept` (`OperatorsWord`; `PolicyInv` adds that the
  file holds no grant that memory does not), `OneKeyPerCluster` (`OneKey`; `SecretInv` adds to rows
  and memory the keys in the hands of requests, `AllAgree`, and that `bootstrapMu` admits one
  bootstrap), `OneAccount` and `NewestTokenWorks` (a redemption under way is as good as an account,
  and both rest on the invite being gone for good: `RedeemsInv`, `Gone`).

`BackupAssumption` asks that counts be numbers and that some cadence keep something: negative counts
are refused, and `ResolveRetention` puts the default in place of a policy that keeps nothing.
`SyncAssumption` asks for a positive `MaxConcurrency`: `NewEngine` replaces anything else by 4.

The web interface:

- `BrowserSession_proofs`, for any length of an elevation and any pages:
  - `TabShowsTheTruth`, `VisitorStays`, `AdminNeedsPassword` (`ShowsTheTruth`, `AdmittedStays`,
    `AdminIsRecent`), with elevations, drops, switches and fetches overlapping in any order. The two
    properties about rest and about renders are not inductive; `SessionInv` says of every copy what it
    may be in between: an answer under way or counted as fresh agrees with the cookie up to an expiry
    (`Agrees`) unless a switch has overtaken it, the provider's state is what the hydrator makes of the
    answer once its effects have run (`Follows`, in `Copies`), neither the cookie nor the one a switch
    was sent with outlasts the window of the last elevation (`Sent`), a prompt belongs to the switch
    that raised it (`PromptOwned`), and before the first answer nothing is asked (`Begun`).
  - `MoreLiteralRuleWins` (`LiteralRouteWins`), for any path: `LaterIsNoMoreLiteral` says of two rules
    that match one path that the first declared has no wildcard, or has them at the same places.
- `QueryCache_proofs`: `ConfirmedIsShown`, `LastPressIsKept`, `TypedIsKept` (`ReadYourWrites`,
  `LastPressWins`, `EditsSurvive`), for any screens, any number of presses and events. Their hypothesis
  is `WellWired`, the rules a page is written by: a control that changes what a query shows refreshes
  it, or tells the query and is awaited; it is disabled while its request runs; no effect copies a query
  over a form being edited. The run checks `WellWired` of every control and query of the real pages, with
  the exceptions that `MC_QueryCache` names, so that what theorem and run say together is of this
  interface, and of the next page that keeps the rules. `CacheInv` adds that an entry older than the user's own
  change has a fetch on its way or is stale on a closed screen (`Current`); `PressInv` that presses
  are made in order (`InOrder`), and that a control that is shut has one request at a time, the
  newest, for as long as the user stays (`OneAtATime`).

Every safety invariant and every action property of the passing runs is now a theorem except
`WellWired`, `ImplementsPrimary` included (`FailoverImplementsPrimary`). TLC also finds the
inductive invariants of `Jobs_proofs`, `BrowserSession_proofs` and `QueryCache_proofs` true on the runs' instances.

Only model-checked: `WellWired`, a search of the tables of pages that nothing generalises; and the liveness
properties (`BrokenReplicaRecovers`, `Converges`, `WatchdogActs`, `PromptSettles`, `ExpiryLeavesAdmin`,
`PollsKeepUp` and those of `MC_ServicesProgress`), since fairness and ENABLED are out of the prover's reach.

## 5. Known disagreements

Four runs show a sentence of the code's documentation refuted (`findings`). The
following predicates of the modules state further promises that the code does not keep.
They are in no run; with the configuration given, TLC finds the counterexample.
"Services S" is `MC_Services.cfg` with `Services = {S}` and that property alone.

| Predicate | Promise | What happens | Configuration |
|---|---|---|---|
| `HighWaterMark` (`FederationReplication`) | `LastSync` is a high-water mark | a put event advances LastSync past objects it did not copy | `MC_ReplicationEvents` with `EventKinds = {"put"}` |
| `LastSyncHighWaterMark` | same | besides what `MC_ReplicationStrands` shows: a PUT given up on lands over a newer version, a delete event over a re-uploaded object | `MC_ReplicationEvents` |
| `WatermarkNeverRegresses` | the watermark moves forward | a delete's read-then-write of the record undoes a tick's write | `MC_ReplicationEvents` |
| `Converges` | every object is replicated | a listing cut by the scan cap starts at the first page again in the next tick | `MC_ReplicationPolling` with `ScanCap = 1` |
| `DeletesPropagate` | a delete reaches the replicas | a copy in flight puts the object back for good | `MC_ReplicationEvents` with `Bypass = FALSE`, `QueueCap = 3`, no faults, no late PUTs |
| `PolicySticks` (`FederationFailover`) | policy edits take effect on the next probe | a promotion decided before the edit writes the old policy back | `MC_Failover` |
| `NewestStays` (`FederationTakeover`) | "failover always draining the queue first" (ADR-0005) | the handler and the watchdog go on at once; a pass that read an object before the failover puts it over what was uploaded to the promoted bucket since | Services "takeover" with `EventDeletes = FALSE` |
| `DeletesGoToReplicas` (`FederationTakeover`) | "a stale task (e.g. the federation was edited between queue + drain) still uses current owner / replica info" | the target is the task's: a delete queued before the failover is carried out on the promoted bucket | Services "takeover" |
| `WatermarkSurvives` (`FederationTakeover`) | "LastSync HIGH-WATER-MARK INVARIANT" | a failover keeps the LastSync of the replicas it does not exchange; an object that the promoted target still has, and the old primary no longer had when a third target synced, is never copied to that one | Services "takeover" with 3 targets, `EventDeletes = FALSE`; it holds with `MaxEpoch = 0` |
| `WatchdogFollowsPolicy` (`FederationLoops`) | EnsureLoop "reconciles the watchdog goroutine to the federation's current Policy.AutoFailover setting" | two edits fit the watchdog to the policy each has read, the older last; and a watchdog that has read "off" stops whichever one is registered by then | Services "loops" |
| `DoneIsDone` (`SyncJob`) | registerRun cancels the older run "so two goroutines don't fight over the same job" | the cancelled run's workers stop without an error, and it stores "done" over the newer run's state | Services "sync" |
| `KeyInMemoryLasts` (`ClusterSecret`) | after removing the last admin "the in-memory CSK still works for the rest of the process lifetime" | the next first admin draws a new key | Services "secrets" |
| `SnapshotsStayInPrefix` (`BackupRuns`) | "Snapshot mode: step 2 above writes into {DstBucket}/{slug(Name)}/{ts}/" | a backup of a whole bucket copies to the root of the destination | Services "backup" with `WholeBucket = TRUE` |
| `DeadlineReleases` (`BackupRuns`) | maxFireDuration, "guaranteeing the run eventually releases" | Engine.Run copies under `context.WithoutCancel`: a stalled driver keeps the slot | Services "backup", `FairSpec` |
| `UsernamesUnique` (`InviteRedemption`) | "Avoid collision with an existing user" | two redemptions look before either creates | Services "invites" |
| `SeedsWhole` (`PolicyGrants`) | re-running on each boot "safely adds the missing * row" | a crash after the first of three saves leaves the admin with one grant, and the next boot returns early | Services "policy" |
| `MemoryIsTheFile` (`PolicyGrants`) | "a persist failure must not leave in-memory authz state diverged from disk" | DeleteRole rolls back, AssignRole and UpsertRole do not: the retry of a failed grant is answered with success from memory, and the next start forgets it | Services "policy" |
| `DisableIsAudited` (`WebhookDelivery`) | "the store flips Enabled=false and the engine emits webhook:auto_disabled" | the flip is in memory before the write; when the write fails, deliver returns before the audit, and later deliveries find the hook off | Services "webhook" |
| `DropSticks` (`BrowserSession`) | "Privileges dropped" | a role switch sent before the drop and answered after it brings the admin cookie back | `MC_BrowserSession` |
| `OperationSettles` (`BrowserSession`) | "if a second op fires mid-modal we surface its 403 directly" | a second refusal takes the prompt's only slot; the first operation waits for ever | `MC_BrowserSession` |
| `ElevationKeepsRole` (`BrowserSession`) | "we're only changing the mode claim + its expiry" | an elevation sent before a role switch is answered after it, with the old role | same |
| `OthersSurvive` (`QueryCache`) | a save changes what the user changed | whole-document saves put back what another client changed meanwhile | `MC_QueryCache` |

`MC_QueryCache` names three lists of its own, and the properties hold for everything else:
`Unrefreshed` (pairs of a mutation and a query that nobody refreshes: among them cluster edits and
All Buckets, usage and shares; object edits and bucket sizes; a deleted role or user and the cluster's admins;
every mutation and the audit log), `NotDisabled`
(controls that can be pressed again while their request runs) and `Followers` (forms that every
refetch overwrites). `ExpiryLeavesAdmin` excepts the state `Overtaken`, in which AppShell trusts
a cached admin answer over the expired mode beside it.

Seen while reading, and abstracted from or left as the code has it:

- Replication: a pass cut by `MaxBatchPerTick` reports zero lag. A driver that ignores its
  context is given up on without an error, and the pass counts as a success.
- Engine: EnsureLoop's comment says it respawns a loop that panicked; the map entry stays, so it
  does not. A watchdog's promotion writes `AutoFailover` back on after an edit switched it off.
- Failover: a settings form loaded before a failover and saved after it undoes the failover, and its
  record is a legal one: nothing compares the epoch the form was loaded in.
- Policy: assigning a right by hand that a claim
  has granted leaves it the claim's, so the next login without the claim revokes it, although an
  "operator-granted role survives a user leaving every group". Revoking every grant of the
  environment's admin is undone at the next boot. `MigrateBucketUserAssignments` "has no caller":
  main.go calls it.
- Sync: pausing during planning ends the job in "error".
- Backups: a Trigger beside a run prunes or keeps partial snapshots (`overlapped`); a failed
  run's partial snapshot displaces the day's good one; two backups with one slug share a prefix;
  a failed row write skips Reschedule, and overlapping edits leave a stale cron entry (`crossed`) until a restart.
- Webhooks: "auto_disabled" is also logged when the owner had switched the hook off during the
  delivery; re-enabling keeps the failure count; an edit writes back an old `Enabled`; a failed
  write leaves memory ahead of the file. A panic ends the dispatcher: recover is outside its loop.
- Connections: Update sets the label before it refuses an unsupported driver (`strayed`).
- Invites: Revoke does not roll back; an account that cannot be created costs the invite.
- Shares: IncrementDownloads does not look at Revoked; a revocation that failed to save is undone by a restart.
- Web: logout removes only `["auth", "me"]` from the cache; the retry after an unlock that
  main.tsx promises never happens; a refused PATCH of the organisation's capabilities still shows
  a success; a rotated invite can be rotated again before its token is shown; useRestoreUserBackup's comment
  promises a refresh that it does not ask for.

## 6. Not modelled

- **Control and data plane composed** beyond `FederationTakeover`: failing calls and writes, pages and
  batches in the same state as a failover. Each plane is at TLC's limit by itself.
- **Service accounts**: one file under a lock, with a rollback; the shape of `InviteRedemption`'s
  store operations without a second store. The other stores of `internal/store` (regions, skins,
  capabilities, OIDC mappings, users' settings) are the same: lock, change, write, one file.
- **Drivers, driver registry, gateways**: clients of external services and protocol adapters,
  created per request; the registry is filled at start-up.
- **Metrics, audit, HTTP routing, bootstrap, MCP server, CLI library, smoke scripts**: observation,
  wiring, input and output; nothing reads them back to decide.
- In modelled components: Can, Expand and ScopeMatches (pure, and tested by table); login, logout
  and OIDC's redirects; a backup's restore (it starts a sync job); the webhook's signature and
  filters; layout, tables, uploads' progress and presentational parts of the pages.

## 7. Plan

1. Failing calls in `FederationTakeover`: a promoted replica that is only reachable half of the time.
2. `AlwaysRestorable` without `~WholeBucket`, under a condition on the behaviour (no whole-bucket copy has
   happened).
3. Login, logout and OIDC callbacks beside `BrowserSession`.
4. Service accounts, if their rotation grows a grace period.
