# Traffic Control: TLA+ models, model checking and proofs

Apache Traffic Control runs a CDN. Two of its protocols carry the distributed
logic, and this directory models both, checks them with TLC on small instances
and proves their central invariants with TLAPS for instances of every size:

- the *health protocol* of Traffic Monitor: several monitors poll all cache
  servers, exchange what they saw, and tell the Traffic Routers which caches may
  be used. A monitor is a Go program of some twenty goroutines around a few
  shared maps, each map with a lock of its own, and nearly everything that is
  hard about it is what those goroutines may do to each other between two locked
  sections;
- the *propagation of configuration*: operators change data in Traffic Ops and
  queue updates, and on every cache `t3c-apply` finds out that something is
  queued, generates files, replaces those that differ, reloads the cache and
  reports the update applied. The two sides share nothing but four times per
  server, and either can fail between any two steps.

Paths below are relative to `src/traffic_monitor/` in sections on Traffic
Monitor; `TO/` stands for `src/traffic_ops/traffic_ops_golang/`, `t3c/` for
`src/cache-config/`, and `docs/` for `src/docs/`.

## 1. Inventory

### The parts of one Traffic Monitor

| Part | State | Operations | Talks to |
|---|---|---|---|
| configuration poller (`poller/monitorconfig.go`) | `ConfigChannel`, one slot | fetch from Traffic Ops, `writeConfig` replaces an unread configuration | configuration manager (channel) |
| configuration manager (`manager/monitorconfig.go`) | `monitorConfigTS` | store; seed `localStates`; send the new sets of pollers; `SetPeers`; delete caches and services; notify the result manager | pollers, peers, result manager (unbuffered channel), `localStates` |
| cache pollers (`poller/cache.go`) | one goroutine per cache and kind of poll, protocol used last | tick, fetch, hand over, wait for `PollFinished`; die | result managers (channels) |
| health and stat manager (`manager/health.go`, `manager/stat.go`) | batch of results, histories | prune the histories, compute vitals, `CalcAvailability`, cross caches off the list of unpolled ones, signal the combiner | `localStates`, `localCacheStatus`, `UnpolledCaches`, combiner |
| cache availability (`health/cache.go`) | `localCacheStatus` | copy, evaluate a batch, replace | both managers |
| peer pollers and peer manager (`poller/peer.go`, `manager/peer.go`) | `CRStatesPeersThreadsafe` | `Set` a result, `SetPeers`, `SetTimeout` | combiner, quorum |
| distributed polling (`manager/monitorconfig.go`, `manager/distributedpeer.go`) | none of its own | divide the cache groups among the groups of monitors; write the states of caches another group polls | `localStates`, `UnpolledCaches` |
| state combiner (`manager/statecombiner.go`) | `combinedStates`, `overrideMap`, one-slot channel | merge local and peer states, prune | read by every request |
| HTTP endpoints (`datareq/`) | `polledAll`, `polledLocal` | refuse until polled; quorum; serve a copy | Traffic Routers, peers |
| histories and event log (`threadsafe/`, `health/event.go`) | bounded lists and rings | append, prune | endpoints |
| Traffic Ops session (`towrap/`, `manager/opsconfig.go`) | session, last CRConfig, its history, two backup files | login with back-off, fetch through one of two clients, fall back to the files | configuration poller, endpoints |

### The parts of configuration propagation

| Part | State | Operations | Talks to |
|---|---|---|---|
| update flags (`TO/server`, `cdn`, `cachegroup`, `topology`, `dbhelpers`) | per server and kind (configuration, revalidation) the time of the last request and of the last report | queue, dequeue, report by time, report by flag | operators, t3c |
| invalidation jobs (`TO/invalidationjobs`) | jobs | create, change, delete; queue a revalidation in the same transaction | update flags |
| status cache (`TO/server/servers_update_status.go`) | a copy of all flags | refreshed by a timer, read instead of the database | t3c |
| `t3c-apply` (`t3c/t3c-apply`) | lock file, metadata file, configuration files | check flags, wait for parents, generate, audit and replace files, reload ATS, report | update flags, ATS |
| ATS (external) | the files it has read | reload | `t3c-apply` |

What is hard in all of them: states are read under one lock (or in one request)
and used under another; managers evaluate copies while the configuration
changes; pollers that were killed still deliver; signals are dropped on purpose;
one channel is unbuffered and its reader may never come; start-up, when nothing
was polled yet, looks like an outage; a cache that crashed half-way has some
files and not others; a report may carry more than the run has applied.
`PROJECT.json` lists these hazards with the line where each bites and the
property that watches it.

What makes each part correct:

- *combiner*: what is published is the merge of what is known now, not of what
  was known some runs ago; nothing is published available that nobody trusted
  held so during the round; the override flag and the published entry agree; a
  lasting local verdict gets published.
- *peering*: the quorum counts the right peers; an isolated monitor withdraws,
  a reconnected one resumes.
- *start-up*: no cache is reported down merely because it was not polled yet;
  start-up ends; the latest configuration gets applied.
- *distributed polling*: every cache group is polled by exactly one group of
  monitors, although each monitor computes the division by itself.
- *availability*: a cache is published as available over a protocol only if it
  was last found so; entries end up as configuration and caches call for.
- *Traffic Ops session*: a configuration is passed on only with a snapshot that
  is as new; the history never loses the newest snapshot; the monitor catches up when
  Traffic Ops is back and starts from its backups when it is not.
- *update flags and t3c-apply*: what shows as applied is on disk and loaded; no
  run puts an older file back; whatever is queued is applied in the end.

### The rest of the repository

The rest of Traffic Ops (a CRUD API over PostgreSQL), Traffic Router (Java), the
generators of cache configuration, tc-health-client, Grove, Traffic Stats,
Traffic Portal and the libraries are listed in `PROJECT.json` under `components`
with the reason why each is left out or planned.

## 2. Modules

| Module | Role |
|---|---|
| `StateCombiner` | the combiner, and every writer of what it reads |
| `CombinerHistory` | extends it by a history variable, what was held available during the round |
| `OptimisticHealth` | abstract specification: what the published states promise Traffic Routers |
| `PeerQuorum` | peering and the quorum check of `/publish/CrStates` |
| `MonitorStartup` | from a configuration in Traffic Ops to the first answered request |
| `CacheGroupPartition` | how the monitors of a CDN divide its cache groups: operators on a snapshot |
| `DistributedPolling` | extends `MonitorStartup` by both: configurations are derived from snapshots |
| `CacheAvailability` | from a poll to a cache's entry in the local states |
| `TrafficOpsSession` | where a monitor gets its configuration and the CDN snapshot from |
| `UpdateFlags` | Traffic Ops' half of configuration propagation: the times and who writes them |
| `ConfigPropagation` | extends it by operators, `t3c-apply` on every cache, ATS and the faults |
| `ConfigDelivery` | abstract specification: what delivery of configuration promises |
| `MC...` | the instances TLC checks: sets of configurations, reports, findings |
| `...Proofs` | theorems, lemmas and inductive invariants of the module it extends |

The modules of Traffic Monitor overlap on purpose: each is the whole system seen from one shared
structure, with the actors that touch it. `localStates` is in three of them,
reduced to what that module's properties tell apart.

Conventions. A Go map is a total function whose missing keys have a value of
their own (`Absent`, `"absent"`), with the flags of Go's zero value. A section
under one lock is one action; a handler that takes several locks is several
actions with a program counter. Definitions called `X_Something` are seeded
faults: variants of `X` with a plausible bug, used only to show that a property
can fail. Variables described as *history* exist for the properties only; no
guard reads them.

### StateCombiner

`localCaches`, `localDS` are `localStates`; `peers` is
`CRStatesPeersThreadsafe`, one record per peer; `combinedCaches`, `combinedDS`
and `overrideMap` are what the combiner writes; `combineStateChan` counts the
signals in its channel, which has one slot. `Receive`, `GetCRStatesPeersInfo`
and `GetLocalStates` are the three moments at which `StartStateCombiner`
(`:47-50`) empties the slot and copies the two structures; `CombineCache` and
`CombineDS` are one iteration each of the loops of `combineCrStates`, `Prune`
its end. The writers are the result managers (`CreateStatsSetDS`,
`CalcAvailability`, `GetDeliveryServices`, `SetDeliveryService`,
`ResultsDone`), the peer manager (`Set`, `PeerResultDone`), and those that do
*not* signal: `ConfigAddCache`, `ConfigDeleteCache`, `ConfigSetDS`, `SetPeers`,
`SetTimeout`, `DistributedPeerResult` and the passing of time, `PeerTimesOut`.
What is found about a cache is an input (`Reports`, `PeerReports`); how it is
found is `CacheAvailability`. `dirtyPeers` and `dirtyLocal` are history:
someone wrote without signalling since the combiner last copied.

`OptimisticHealth` knows three sets of caches: those somebody trusted holds
available now, those seen to be so since the round began, and those published.
A round may raise a cache it has seen held, lower any, and withdraw more at its
end. `CombinerHistory` adds the second set, `since`, to the combiner and
implements the specification with `Held` (the monitor's own entry, or the answer
of a peer that is online, good and in time) and `Published`. The set grows from
the moment the slot is emptied until the second copy is taken.

### PeerQuorum

`known` are the keys that `Set` adds and nothing removes, `peerStates` the peers
whose last poll succeeded, `peerOnline` and `peerCount` what `SetPeers`
computes. `NewPeerConfig` is the peer poller's reaction to a configuration
(killed pollers in `dying` may still deliver), `SetPeers` comes later, as in the
code. A request reads `OptimisticQuorumEnabled` and `HasOptimisticQuorum` under
two locks: `CheckEnabled`, `Respond`.

### MonitorStartup

`toConfig` is what Traffic Ops holds, `configChan` the slot of `writeConfig`.
The configuration manager goes through `ReceiveConfig`, `SeedCaches`,
`SendPollers`, `DeleteCaches` and then waits in `"notify"` at its unbuffered
send; the result manager takes that message only when it processes a batch
(`Process`, `haveCachesChanged`), and then rebuilds the list of caches
(`GetMonitorConfig`, `SetNewCaches`). `ProcessResults` crosses caches off,
with `SetHealthPolled` or, with stat polling, `SetPolled` and its ten-second
timeout `SeenTimesOut`; `DistributedPeerResult` is `SetRemotePolled`.

`wrapUnpolledCheck` (`datareq/datareq.go:330-353`) keeps two flags that all
requests share without a lock, and computes each from a list that has one. A
request is therefore as many steps as it touches shared state: `Request` and
`CheckFlag` read the flags, `CheckAny` and `CheckDirect` look at the list,
`StoreAll` and `StoreLocal` store what was found then, and `Serve` or `Refuse`
read the flag that decides once more. A request can so store a FALSE that it
found before another one stored TRUE. `awaited` is history: the caches of the
first configuration applied that every later one wants too and that nobody has
polled yet.

### CacheGroupPartition and DistributedPolling

A snapshot lists monitors and caches, each with a status and a cache group, and
the distances between cache groups. Groups are numbers in the order of
`sort.Strings`; distances are numbers because only their order is used.
`tmGroupSet` and `cacheGroupSet` are the two sets that `getCacheGroupsToPoll`
collects, `Round` is one turn of its loop, in which the group whose turn it is
takes the nearest cache group that is left (`Closest`, the first of equally near
ones), and `Turns` is the loop as a recursive function. `Division` is its
result, of which a monitor takes its own group's part; `peerSet` and
`distributedPeerSet` are whom `monitorConfigListen` makes peers and whom it asks
for the rest. `Divided` is what all this is for, seen from one monitor.

`ConfigOf` is what `monitorConfigListen` makes of a snapshot in `MonitorStartup`'s
terms: a cache of a group that this monitor does not poll is `"remote"`, a
snapshot without this monitor is unusable.

### CacheAvailability

`statuses` is `localCacheStatus`, `copy` the copy a manager works on, `mc` its
copy of the configuration, `queue` and `batch` results on their way and in
evaluation. `ReceiveResults`, `CopyStatuses`, `Evaluate` (once per result) and
`SetStatuses` are one call of `CalcAvailability`: `Evaluate` writes the entry
in `localStates` at once, the status only into the copy. `Available` is the
rule that a result sets its own protocol's flag and carries the other one over,
if there is an address. `EvalInterface`, `EvalAggregate` and
`ProcessAvailableTuple` keep the code's decisions and abstract the numbers to
`Findings`. `Poll` alternates protocols and waits for `PollFinished`;
`SendPollers` is `diffConfigs` with what it kills; `PollOnceMore` is the tick
that wins against `die`. After `DeleteCaches` the configuration manager waits
in `"notify"` at its unbuffered send (`manager/monitorconfig.go:365`) until a
manager that processes results takes the message (`Notified`). A batch may hold
results of caches outside the model only (`OthersPolled`): it changes nothing
here but releases the configuration manager. The configuration is copied by a
step of its own, `CopyConfig`, after the results were received. `found` is
history: the protocols over which the last evaluated result was good.

### TrafficOpsSession

A snapshot is its date, and a configuration the date of the snapshot taken with
it. `up` are the clients Traffic Ops answers. `Update` and `MonitorCDN` are
`onChange` of the ops config manager: unauthenticated sessions first, then the
login, repeated until it succeeds or backup files exist and `DiskRetryMax` is
reached. One record `call[c]` is a call of `CRConfigRaw`, by the poller or by an
HTTP request that found nothing (`LastCRConfig`); its steps are `FetchCRConfig`,
`WriteCRBackup`, `ValidateCRConfig`, `SetCRConfig` and the deferred
`ReturnCRConfig`, since each locks by itself. The poller's call is preceded by
`TrafficMonitorConfigMap` and `WriteTMBackup`. `hist` is the ring with the
arithmetic of `Add` and `Get`, unsigned words of size `WordSize`; `recent` is
history: the latest entries the ring took, in order, and the newest one that was
offered to it. Faults: outages of either client, a
backup file cut short, a crash, a SIGHUP.

### UpdateFlags and ConfigPropagation

`update` and `apply` are the four time columns of a server, `clock` the
database's time; `Stamps` lets a transaction commit with a time that is not
later than the last one (`Overlap`), as `now()` is when a transaction began.
`snapshot` is the status cache. Its refresh reads the database and stores the
result under the cache's lock; both are one step here, since a result that is
stored later is as stale as the cache itself may be between two refreshes, and
the store apart multiplies the states of `config_safety` by six. A file is its
revision: `content` is what Traffic Ops would generate now, `disk` what the
cache has, `loaded` what ATS has read. `run[s, job]` is one run of `t3c-apply`,
`lock[s]` the lock file both jobs take (`Start`), `metadata[s]` whether
`t3c-apply-metadata.json` exists. The steps are those of `Main`
(`t3c/t3c-apply/t3c-apply.go:103-372`): `CheckSyncDSState` and `RecheckParents`
or `CheckRevalidateState`, `GetConfigFileList`, `ProcessConfigFiles`,
`StartServices`, `UpdateTrafficOps` and the report, `Send`. A syncds run that
finds no update turns into a revalidation (`RevalidateWhileSleeping`): its
`scope` becomes `"reval"`. Faults: Traffic Ops does not answer, its answer is
lost, the audit of a file fails, a file cannot be written (or is
`ip_allow.config`, which a syncds run counts and does not write), a certificate
does not parse, the reload fails, the process crashes between any two steps or
half-way through the replacement of the files.

`wanted`, `overtaken`, `skipped`, `unloaded` and `late` are history: what the
operators last asked for, and the three ways in which the code acknowledges
something it has not done. They keep the properties strong everywhere else.
`unloaded` gathers files for three reasons only: their run's reload failed, their
run crashed before it, or a file that needs a restart was replaced with them
(`NeedsRestart`); it loses a file when ATS reads what is on disk. It does not
depend on what `Reloads` decides, so a run that ends without the reload it
should have made breaks `AcknowledgedIsLoaded`.

`ConfigDelivery` has two variables, what Traffic Ops has published and what each
cache holds, and two actions: publish a new revision, and move a cache's files
forward to revisions that were published. `ConfigPropagation` implements it with
`published <- content, held <- disk`.

## 3. Runs

Deadlock is checked in every run. State counts are distinct states.

| Run | Shows |
|---|---|
| `combiner` | `NoLostWakeup`: whenever nothing is pending, the published caches are the merge of the current states, although signals are dropped and the two copies are taken at different moments. `OverrideExplainsEntry`: entry and override flag agree even half-way through a merge. `HealthSpec`: the combiner implements `OptimisticHealth`, so nothing is published available that nobody held so during the round. `LocalVerdictPublished` (liveness): lasting local verdicts are published although the configuration manager never signals. One cache, one peer, one result manager; 0.73 million states. |
| `combiner_ds` | `NoLostWakeup` for delivery services, whose writers race with `calculateDeliveryServiceState`. One service, one peer, the stat manager; 1.3 million states. |
| `quorum` | `PeerCountIsOnline`: the count that switches the quorum on is that of the online peers; `PeeringConverges`, `IsolationWithdraws` (with too few available peers the monitor comes to answer 503 for good), `RecoveryResumes` (liveness). Three peers, one of which leaves and returns; threshold 2, so that isolation may leave one peer. |
| `startup_stat` | `ServedOnlyPolled` with stat polling (byte counts, timeout), an unusable configuration in between, polling parameters that change, so that every poller is restarted, and requests with and without `?raw`; 7.9 million states. The constraint `UntilOpened` stops where the gate is open and no cache is awaited: `awaited` never grows, so the property cannot break later. |
| `startup_live` | `ServedOnlyPolled`; `DisjointSubsets`: the caches it leaves to others are polled by exactly one group that it asks, those it polls by its peers and nobody else; `AppliedAsConfigured` and `StartupEnds` (liveness): both flags come to stay true, although a late request may store over what another found. Health and distributed polling and two requests at a time, while a second cache, which another group of monitors polls, comes and goes; 0.34 million states. |
| `availability` | `RemovedStaysRemoved`: a cache that left the configuration gets no entry back from results still under way. `AvailableOnlyAsFound`; `Converges` (liveness). One manager, one cache that comes, goes, is ONLINE, polled, or ADMIN_DOWN without its IPv6 address; IPv6 works or is broken; results of killed pollers under way; other caches are polled; 0.32 million states. |
| `availability_writers` | violation of `AdminDownTakesEffect`, finding 1. |
| `session` | `HistoryKeepsLatest`: whatever slot `Add` compares with, the ring lists the latest entries it took in order, the newest one it was offered is among them, and only the entry in the first slot can repeat the one before it. `Synchronised`: a configuration is passed on only with a snapshot that is at least as new. `CatchesUp` (liveness): once Traffic Ops answers for good, the latest snapshot ends up in memory, in the configuration and in both files. 1.2 million states. |
| `session_backup` | violation of `ComesUpFromBackup`, finding 2. |
| `config_safety` | `AcknowledgedIsApplied`, `AcknowledgedIsLoaded`, and `DeliverySpec`, the refinement of `ConfigDelivery`, with every kind of fault, overlapping transactions and a status cache; 1.3 million states. |
| `config_live` | `QueuedIsCleared` (liveness): an edge waits for its mid, both caches run both jobs, a reload may fail; 0.1 million states. |
| `config_race` | violation of `AcknowledgedIsCurrent`, finding 3. |

### Bounds, and why they are enough

- *One cache* in `StateCombiner` and `CacheAvailability`: no code there relates
  two caches; each loop iteration touches one key. The proofs drop the bound.
- *One peer* in `StateCombiner`: the merge asks whether some peer says so; one
  peer gives both answers. The proofs drop the bound.
- *Three peers* in `PeerQuorum`: one can leave and leave two, the smallest
  number for which the quorum applies (`peerCount > 1`).
- *Two caches* in `MonitorStartup`: one keeps results coming while the other
  changes; the list can be half crossed off. `MaxBatch = 1` bounds the caches
  in a batch; the manager's treatment of a cache looks at no other cache. Two
  requests in `startup_live`, so that one computes a flag under the other; one
  in `startup_stat`, and both safety properties are proved for any number. A cache that is ONLINE or
  disappears during start-up makes the state space too large for a run beside
  the others; it is covered by the proof alone.
- *Three monitors, three groups, two caches* in `DistributedPolling`: every
  snapshot of that size, OFFLINE monitors, shared groups and equal distances
  included, that gives one of the two configurations of `startup_live`. The
  proof drops the bound.
- *`MaxQueue`* in `CacheAvailability`: results waiting for a manager. With 1 a
  result waits while another is evaluated; the pollers' handshake allows one per
  live poller anyway.
- *`TrafficOpsSession`*: three snapshots and two faults are enough for an outage
  around a crash and for an older snapshot to be validated before, and stored
  after, a newer one; one request besides the poller is the second party of that
  race. A ring of three and a word of 16 stand for 100 and 2^64, which it does not
  divide either: the slot `Add` compares with at position 0 is not the last one. `session` has
  a CDN named in the configuration, without which a monitor that started during
  an outage never polls.
- *`ConfigPropagation`, safety*: one server, since a run writes only its own
  server's files and times and nothing relates two of them but waiting. Two
  requests (`MaxClock = 3`), one revision per file, and two faults allow a
  request in every gap of a run, a repeated report and a crash after a failure.
  One file besides `regex_revalidate.config`, which ATS reads only when it
  starts: the case that keeps a run from reloading. The proofs drop all of this.
- *`ConfigPropagation`, liveness*: an edge and its mid, the smallest chain of
  waiting. One failed reload: a reload that fails for ever keeps nothing from
  being cleared (section 5), and one that fails once shows it.

### Fairness

Weak fairness of goroutines that have work, of pollers that tick for ever
(`time.Ticker`) and of the configuration poller, which refetches for ever: a
goroutine that is runnable is scheduled by the Go runtime, and the channel
operations they block on are guards of the actions. Beyond that:

- `StateCombiner`: `Poll`, *some* poll result again and again, since a ticker
  runs for every configured cache and peer. Nothing is assumed about what the
  results say.
- `MonitorStartup`: strong fairness of *each* cache's poller getting into a
  batch, because the manager alternates between collecting and processing: a
  batch that waits is taken by the next `select`. Distributed peers answer in
  full again and again. `AppliedAsConfigured` and `StartupEnds` are conditional
  on a configuration that lasts.
- `TrafficOpsSession`: the manager's retry loop, the poller's ticker and calls
  under way. Nothing is assumed of Traffic Ops; `CatchesUp` is conditional on an
  up-to-date client that is answered for good.
- `ConfigPropagation`: weak fairness of a run that was started, which includes
  its failures, and of the status cache's timer; strong fairness of `Start`,
  because cron starts each job again and again and `t3c-apply` tries for the
  lock for a minute (`t3c/t3c-apply/t3c-apply.go:103-112`), longer than the other
  job holds it. The number of faults is bounded, so they end.
- `CacheAvailability`: a killed poller's `select` eventually takes `die` (Go
  chooses among ready cases at random), and a result that waits is received in
  the end, although results of other caches are too (senders blocked on a Go
  channel are served in order: strong fairness of receiving). Nothing is assumed
  of a configuration manager that waits at its notification. `Converges` needs
  `OthersPolled`: without another polled cache TLC finds it violated, see
  section 5.

## 4. Proofs

All proofs are for every value of the constants that satisfies the named
assumptions: any caches, services, peers, managers, configurations, queue bound.

| Theorem | Statement |
|---|---|
| `StateCombinerProofs!TypeCorrect` | `Spec => []TypeOK` |
| `StateCombinerProofs!NoLostWakeupHolds` | `Spec => []NoLostWakeup` |
| `StateCombinerProofs!OverrideExplained` | `Spec => []OverrideExplainsEntry` |
| `CombinerHistoryProofs!CombinerImplementsHealth` | `TracedSpec => HealthSpec` |
| `PeerQuorumProofs!TypeCorrect` | `Spec => []TypeOK` |
| `PeerQuorumProofs!PeerCountCorrect` | `Spec => []PeerCountIsOnline` |
| `MonitorStartupProofs!TypeCorrect` | `Spec => []TypeOK` |
| `MonitorStartupProofs!ServedOnlyPolledHolds` | `Spec => []ServedOnlyPolled` |
| `MonitorStartupProofs!UnpollableNeverServed` | no request for the full states is ever served, if some cache has no polling URL in any configuration |
| `DistributedPollingProofs!EverySnapshotDivides` | with distributed polling, `Divided(snap, host)` for any snapshot and any monitor in it |
| `DistributedPollingProofs!DisjointSubsetsHolds` | `Spec => []DisjointSubsets` |
| `CacheAvailabilityProofs!TypeCorrect` | `Spec => []TypeOK` |
| `CacheAvailabilityProofs!RemovedStaysRemovedHolds` | `Spec => []RemovedStaysRemoved` |
| `CacheAvailabilityProofs!AvailableOnlyAsFoundHolds` | `Spec => []AvailableOnlyAsFound`, with a single manager |
| `TrafficOpsSessionProofs!TypeCorrect` | `Spec => []TypeOK` |
| `TrafficOpsSessionProofs!SynchronisedHolds` | `Spec => Synchronised` |
| `TrafficOpsSessionProofs!HistoryCorrect` | `Spec => []HistoryKeepsLatest`, for every limit |
| `ConfigPropagationProofs!TypeCorrect` | `Spec => []TypeOK` |
| `ConfigPropagationProofs!AppliedWhenAcknowledged` | `Spec => []AcknowledgedIsApplied` |
| `ConfigPropagationProofs!LoadedWhenAcknowledged` | `Spec => []AcknowledgedIsLoaded` |
| `ConfigPropagationProofs!DeliveryRefined` | `Spec => DeliverySpec` |

The inductive invariants and why the properties need them:

- *No lost wake-up.* The property speaks of the quiet state only. `CombinerInv`
  says what holds on the way: each copy the combiner works on is either current
  or somebody still owes it a signal (`PeersCopyAccounted`,
  `LocalCopyAccounted`), and every cache and service the loops have passed is
  merged from the copies (`CachesMerged`, `DSesMerged`). When the combiner goes
  idle with an empty slot nobody owes a signal, so the copies were current and
  the merge is of the present states. The argument works because the slot is
  emptied *before* the copies are taken; the seeded fault with an unbuffered
  channel breaks exactly that.
- *Health.* `CopiesSeen`: nothing is remembered between rounds, and whatever one
  of the combiner's copies says in favour of a cache is in `since`. Then
  `CombineCache` is `Raise` or `Lower`: by `MergeNeedsVoucher` the merge makes a
  cache available only on the word of one of the copies. Writers, copies and the
  signal are `Look` or `Ignore`, depending on where the round is, and `Prune` is
  `Finish`. An answer that becomes too old while the loop runs only takes a
  voucher away; the seeded fault that ignores its age breaks the refinement.
- *Peer count.* `PeerCountIsOnline` needs `OnlineIsKnown`: `SetPeers` clears
  only peers with a key.
- *Start-up.* The list of unpolled caches is made by one goroutine from what two
  others wrote, one configuration later at the earliest. `AwaitedIsWanted` says
  that every configuration anybody holds (applied, being applied, copied by the
  result manager) still wants the awaited caches; `AwaitedIsSeeded` that they
  have entries as soon as the list can be made; `AwaitedIsListed` that each is on
  the list; `GateIsRight` ties the flags, and what a request has found and not
  yet stored, to the list. It holds of stale findings too, because a cache that
  has been polled is never awaited again.
- *Never served.* `NeverHeardOf(c)`: a cache without a URL has no poller, no
  result and no remote report, but is awaited; with `GateIsRight` the gate
  cannot open.
- *Division.* The loop invariant `LoopInv`: what is left and what each group has
  taken are disjoint and together all cache groups, and the turn is some group's.
  `RoundInv` preserves it and takes exactly one cache group away, so after as
  many turns as there are cache groups none is left (`TurnsInv`). That the loop
  is a recursive function is no obstacle: `NatInductionSet` is induction for a
  *set* of numbers, proved from the least element of its complement, and needs
  no operator as a parameter; `TurnsExist` and `TurnsUnfold` use it to show that
  the function is what its definition says. `DisjointSubsetsHolds` follows
  without induction over behaviours: no snapshot has an undivided configuration.
- *Removed.* Inductive as it stands: `SetCache` writes no entry that is not there,
  and entries are made only between `ReceiveConfig` and the notification. It
  holds with any number of managers, unlike the next.
- *Availability.* `CarriedOver`: between evaluations the statuses, during one
  the manager's copy, hold only flags that were found good. With two managers
  the copy of one is overtaken by the other, `CarriedOver` is not invariant, and
  `availability_writers` shows the consequence: the hypothesis is the comment
  on `CacheAvailableStatus.Set`, "This MUST NOT be called by multiple
  goroutines".

- *Synchronised.* `Ordered`: neither the configuration the poller holds nor the
  one in the backup file is newer than the present snapshot, so none is newer
  than the snapshot it fetches next; and a call without a fetched snapshot never
  gets as far as passing a configuration on.
- *History.* `RingInv`: `Matches`, slot by slot the ring is the list of entries
  taken rotated by `pos`; the newest entry offered is in the list; and
  `NoRepeats`, neighbouring slots differ except at the first slot. An entry that
  `Add` drops equals a slot it compared with, so it is in the ring, whichever
  slot that was; nothing is needed of the limit.
- *Applied when acknowledged.* An update is acknowledged by a time, long after
  the files were fetched. `RunInv` follows a run: whoever is past
  `GetConfigFileList` has fetched everything wanted except what is in `late`,
  whoever is past `ProcessConfigFiles` has it on disk except what was skipped,
  and whoever is about to report holds a time that covers no request outside
  `late`. `RevisionsExist` (nothing newer than `content` is wanted, fetched or on disk)
  makes fetching enough. That at most the lock's holder runs is part of it:
  without the lock another run could put an older file back.
- *Loaded when acknowledged.* `LoadedKnown`: a file on disk that ATS has not read
  is either about to be loaded by a run past `ProcessConfigFiles` or in
  `unloaded`. The step that needs the code's decision is `StartServices`: a run
  that changed files, none of which needs a restart, reloads (`KeptStep`).
- *Refinement.* Each action maps to `Publish` (`Change`, `Invalidate`), to
  `Deliver` (`ProcessConfigFiles`, a crash half-way through it) or to a stutter;
  the step of `Deliver` is forward because what a run fetched is at least as new
  as what is on disk, `RunInv` again.

Only model-checked: every liveness property (TLAPS does not prove properties
under fairness), and what no theorem above names. No module declares a
`RECURSIVE` operator. The violations are findings, and need no proof.

## 5. Findings

1. `availability_writers`. Health and stat manager both replace
   `localCacheStatus` (`health/cache.go:294-412`) and can restore each other's
   flags for ever, so an ADMIN_DOWN cache stays published as available.
2. `session_backup`. "This allows the monitor to come up and continue serving
   even if Traffic Ops is down" (docs/source/development/traffic_monitor.rst:196):
   it does not. `CRConfigRaw` reads the backup file and unmarshals it into a
   pointer that only the up-to-date client sets (`towrap/towrap.go:443`), which
   is an error, and the poller skips the tick (`poller/monitorconfig.go:116`).
3. `config_race`. `UpdateTrafficOps` reads the update status again
   (`t3c/t3c-apply/torequest/torequest.go:1266`) and reports the time found then.
   An update queued after the files were fetched is thereby reported as applied;
   its change is on no disk, and nothing is pending any more. The times were
   meant to fix this very race (`t3c/t3cutil/toreq/conversions.go:159-163`).

Differences that are part of the models and have no run of their own.

*Peering and start-up.*

- `numAvailablePeers` (`peer/crstates.go:271`) counts every peer that ever had a
  good last poll, configured or not. After such a peer is removed the combined
  states are served without a quorum of the configured ones, against
  docs/source/admin/traffic_monitor.rst:157. `IsolationWithdraws`
  is therefore about the number the code counts.
- The first `SetPeers` precedes the first peer result, so the quorum is off until
  a later configuration (`PeeringConverges` shows that it comes on).
- "We never return a 503 again" (`datareq/datareq.go:332`) does not hold. A
  request that found the list non-empty can store FALSE over the TRUE of a later
  one (`:343`, `:344`), and a cache that is added between the two looks of a
  request refills the list. Either way requests are refused after others were
  served; since a flag left unset is computed again by every request, this lasts
  until a request finds the list empty. `StartupEnds` shows that one does.
- A cache without a polling URL (`manager/monitorconfig.go:277`) is on the list of
  caches to wait for, so the monitor never serves the full states
  (`UnpollableNeverServed`).
- A configuration without a cache to poll blocks the configuration manager at
  `manager/monitorconfig.go:365` for ever: only the processing of a result
  empties the channel, and there is none. `AppliedAsConfigured` is therefore
  checked with configurations that have one.

*Availability.*

- `UnavailableStat` (`health/cache.go:368`) is stored but never consulted, against
  `cache/data.go:59`, so a health poll makes a cache available again that was
  taken down for a stat only the stat poll has.
- A result under way when its cache becomes ONLINE can take it down until the
  next configuration. `Converges` shows that it recovers while some other cache
  is polled. If none is, the configuration manager waits for ever at
  `manager/monitorconfig.go:365` and the cache stays down: with
  `OthersPolled = FALSE` TLC finds `Converges` violated.
- With `ipv4only` a cache that has only an IPv6 address is polled over IPv6
  (`poller/cache.go:154`).

*Traffic Ops session.*

- The legacy client's snapshot is dropped: `err` is shadowed
  (`towrap/towrap.go:395-406`), so with that client alone there is a
  configuration and never a snapshot, and the tick is skipped.
- Backup files are written before the snapshot is validated, so a refused one is
  the backup of the next start.
- Validation and storing are two steps (`:452`, `:458`), so a request can bring
  an older snapshot back; `CatchesUp` shows that the next tick mends it.
- `(pos-1)%limit` at 0 is not `limit-1` unless the limit divides 2^64. With the
  default of 100 the entry compared against is slot 15, so a repeat is added,
  or a new entry dropped if it equals slot 15, against the comment on `Add`
  (`towrap/towrap.go:146-147`). `HistoryKeepsLatest` says what is left of it: a
  repeat only in the first slot, and the newest entry is in the ring, if not last.
- A monitor that does not name its CDN and starts without Traffic Ops keeps an
  empty CDN name until the next SIGHUP. A CDN restored to an older snapshot is
  refused until the monitor is restarted.

*Configuration propagation.*

- After a failed reload or a crash before it, the next run finds no differing
  file, reports the update applied and reloads nothing (`unloaded`).
- A file that cannot be written counts as a change made, a certificate that does
  not parse counts as none; the update is reported applied either way
  (`skipped`).
- A changed `plugin.config` keeps a run from reloading the other files it
  replaced (`t3c/t3c-check-reload/t3c-check-reload.go:79-85`).
- In revalidate mode the old metadata is used without the check for nil that its
  comment demands (`t3c/t3c-apply/t3c-apply.go:118`, `:262`): the run panics
  until another one has written the file. `QueuedIsCleared` holds because the
  syncds job does.
- A queued update whose transaction began before the reported time is not
  pending when it commits (`overtaken`; `Overlap`).
- An edge that waits for a parent that is gone waits until an operator clears
  the parent's flag. The status read from the cache and from the database do not
  agree on who the parents are (topologies); `Parents` is any function.

## 6. Not modelled

- Numbers: vitals, bandwidths, kbps and the comparison with thresholds are
  abstracted to what a poll finds. Delivery service statistics are floating
  point sums; only their effect on the shared states is modelled.
- Wording, events, time stamps, JSON.
- `updateStatusSameIpServers` and the filtering of `?raw` and `?local` states in
  `datareq/crstate.go`; the order in which the monitors of another group are
  asked; monitors that hold different snapshots; `pruneHistory` and the event
  log; `todata`. These are planned.
- Of t3c: the contents of the files (`lib/go-atscfg`, pure functions from data to
  text, reduced to revisions), packages, git, Maxmind, Varnish, the modes other
  than syncds and revalidate.
- Of Traffic Ops: everything but the update flags. Some 100,000 lines are
  handlers that validate a request, run one SQL statement in one transaction and
  format the answer; their interleaving is the database's, and there is no state
  between them for a model to get wrong.
- Pure input and output, user interfaces, generated code, and the other
  products of the repository (see `components` in `PROJECT.json`).

The models cover a small share of the repository's 166,000 lines of
implementation, and this is its nature rather than a stage of the work: CRUD
handlers, API types for five versions, clients, generators of text and user
interfaces make up nearly all of it. What coordinates processes, threads or
machines is a few thousand lines, and those are what is modelled or planned.

## 7. Plan

Done: `StateCombiner`, `PeerQuorum`, `MonitorStartup`, `CacheAvailability`,
`TrafficOpsSession`, `UpdateFlags` with `ConfigPropagation` and its refinement of
`ConfigDelivery`, `CombinerHistory` and its refinement of `OptimisticHealth`,
`CacheGroupPartition` with `DistributedPolling`, each with its MC module, runs
and proofs; every safety property that a run checks is a theorem. Next, in this
order:

1. A composition of two monitors and a router's view, on top of
   `OptimisticHealth`; with distributed polling, of two that hold different
   snapshots.
2. `Histories`: `pruneHistory` (`manager/stat.go:38-43`) and the event log
   (`health/event.go:100`). Theorems: the limits hold, the newest entries stay.
3. `updateStatusSameIpServers` and the request filters, in `PeerQuorum`; a
   property for caches that come back while `seenCaches` remembers them, in
   `MonitorStartup`.
4. tc-health-client, as a component of its own.

The runs stay few: a run per question, several properties per run, the findings
kept to those that matter most.
