# A TLA+ model of glint

glint is one Go process that polls Proxmox VE and Proxmox Backup Server,
keeps what it learns in a cache and in SQLite, raises alerts and serves a
dashboard. This directory holds TLA+ modules translated from its source, TLC
configurations that check them on small instances, and TLAPS proofs of the
most important results for every value of the constants.

    tlc -workers 2 -config Alerter.cfg MCAlerter.tla
    tlapm AlerterProofs.tla

## 1. The system

Everything runs in one process. `main` builds the parts below, starts one
goroutine for each loop in an `errgroup` and waits for a signal.

| Component | State | Operations | Talks to |
|---|---|---|---|
| PVE collector, one per instance (`internal/collector/pve.go`) | `nodes`, `clusterID`, `lastDiskPoll`; the maps of the running poll | `Collect`: discover nodes, one pool task per node, wait, publish, record | PVE API; pool; cache; store |
| Worker pool (`collector.go`) | a channel of slots | `Submit` | shared by all PVE collectors |
| PBS collector (`pbs.go`) | none between polls | `Collect`: datastores, snapshots, tasks, publish, record | PBS API; cache; store |
| Temperature collector (`temperature.go`) | none | `Collect`: run `sensors` over SSH, write one temperature | SSH; cache |
| Cache (`internal/cache/cache.go`) | nodes, guests, disks, datastores, backups, tasks, temperatures, last polls, one `RWMutex` | `Update*` (each its own critical section), `Snapshot` (deep copy) | written by collectors, read by alerter and handlers |
| Alerter (`internal/alerter/alerter.go`) | `lastFired`, `sustained` | `evaluate` every 30 s: snapshot, cleanup, rules, `fire` | cache; store; notification providers |
| Providers (`internal/notify`) | none | `Send`, bounded by a 10 s timeout, no retry | ntfy, webhooks |
| SMART evaluation (`internal/smart`) | none | parsers, thresholds, `EvaluateDisk` | called by the PVE collector |
| Store (`internal/store/store.go`) | SQLite tables, keyed by time and subject | inserts (replacing), upserts, sparkline queries | collectors, alerter, handlers |
| Pruner (`pruner.go`) | none | every hour, delete rows older than their table's retention | store |
| HTTP server (`internal/api`) | none | handlers over snapshots and sparkline queries; `Run`, `Shutdown` | cache; store |
| main (`cmd/glint/main.go`) | contexts, errgroup | start, wait, stop | all |
| Configuration (`internal/config`) | none | `Load`: defaults, file, environment, `Validate` | main |
| Views (`templates/helpers.go`, widget handler) | the threshold of the backup chip | classes and labels of disks and backups | cache snapshots |

What makes the system correct, and hard to test:

* **Alerter.** Alerts of one subject are a cooldown apart; a held rule fires only after its
  condition has lasted; a condition that stays bad is reported, and reported again, at every
  provider, within a time that can be named. Hard because the maps are pruned by age,
  evaluations use a snapshot and an instant that both grow old while providers are slow,
  subjects come and go, and restarts lose everything.
* **Polling.** What a poll publishes was true during the poll; healthy parts do not suffer
  from failing ones; the cache converges; nobody starves in the pool. Hard because guests
  migrate while nodes are visited one after the other, calls fail one by one, and publishing
  takes several critical sections.
* **Lifecycle.** A signal ends the process, the store is closed after every loop and the
  server, a failure stops everything, and no poll that begins after the cancellation
  publishes anything it has learnt. Hard because a `select` may prefer a tick to the
  cancellation, a cancelled PVE poll leaves its tasks behind, and a PBS poll may go on and
  publish that there is nothing.
* **Disks and SMART.** A wearing disk never looks better, and one that fails its own test is
  alerted for. Hard because of a cascade of fallback queries and three dialects.
* **Backups.** The newest backup of every subject is what is shown, and what is stale is not
  hidden by a failing datastore. None is shown of a datastore that is not.
* **Store.** Nothing within retention is pruned, what is beyond it goes in a time that the
  failures bound, and a disk's rows lack the disk only if its own statement fails. Hard
  because polls, prunes and crashes fall between each other's statements.
* **Start-up.** What `Validate` refuses is refused wherever it comes from; all that is
  configured is started; dashboard and alerter use one threshold. Hard because three sources
  of settings are applied in turn and parts run while others are started.
* **Temperatures.** One that was measured long ago does not stay. Hard because the SSH
  session has no bound and the nodes it is written into are replaced meanwhile.

`PROJECT.json` lists every component with its status and every hazard with its
source line and the properties aimed at it.

## 2. The modules

| Module | Models | Lines of the source |
|---|---|---|
| `Ages` | a Go `map[string]time.Time`, seen from the present | helpers of `alerter.go` |
| `Alerter` | the alerter | `alerter.go`, the rule loop of `main.go` |
| `AlertPromise` | what the alerter promises (abstract) | none |
| `Polling` | PVE collectors, pool, nodes and guests in the cache | `pve.go`, `collector.go`, `cache.go` |
| `Lifecycle` | start, cancellation and end of the process | `main.go`, `collector.go`, `pve.go`, `pbs.go`, `handlers.go` (`Server.Run`) |
| `ShutdownPromise` | what the process promises of its end (abstract) | none |
| `Smart` | thresholds, buckets, evaluation of attributes | `internal/smart` |
| `Views` | how disks and backups are judged for display and alerts | `helpers.go`, `handlers.go`, `alerter.go` |
| `Disks` (uses `Smart`, `Views`) | the disk poll: lists, cascade of SMART queries, the merge into the cache | `pve.go`, `cache.go`, parsers of `internal/smart` |
| `Backups` | the PBS collector and its part of the cache | `pbs.go`, `cache.go` |
| `Store` | rows, the disks they belong to, pruner, crashes | `store.go`, `pruner.go`, `migrations.go`, the ends of `Collect` |
| `HistoryPromise` | what the store promises of measurements (abstract) | none |
| `Startup` (uses `Views`) | configuration, and main up to the running process | `config.go`, `main.go`, `collector.go` |
| `Temperature` (extends `Startup`) | the started process, as far as node temperatures go | `temperature.go`, `cache.go` |
| `*Proofs` | theorems about `Alerter`, `Lifecycle`, `Smart`, `Disks`, `Polling`, `Backups`, `Store`, and `Startup` within `Temperature` | |
| `MC*` | values for the constants of the runs | |

Definitions named `Mutant: ...` are wrong versions of the definition after them.
They belong to no specification: putting one in the place of the right
definition must make TLC find a property violated, which shows that the
property depends on the code it is about.

### Alerter

`obs` is what the cache says of each alert key: `absent`, `ok` or `bad`; a key
is one rule on one subject, so the seven rules of `evaluate` differ only in
whether they are `Held` (CPU, memory, guest down) and in their times.
`Observe` changes it at any time, as collectors do. `Tick` lets one unit (30 s)
pass; all times are ages, so no clock grows. `Evaluate` is the beginning of
`evaluate` (snapshot, `now`, `cleanup`), `Check` one rule on one subject of the
snapshot, `Send` one provider. `lag` is how old `now` has become: `now.Sub(t)` in the
code is `age - lag` here. `Restart` loses the process. `raised` and `clear` are
history variables: what was really alerted, and when an evaluation last saw a
key in good condition, or did not see it; the start of a process, whose cache is empty,
counts as not seeing any.

`AlertPromise` says what a reader of the alerts may rely on. `Promise` maps its
`badSince` to `sustained` and its `lastAlert` to the history `raised` and
not to `lastFired`, which `cleanup` empties: that the deduplication survives its
own cleanup is part of what the refinement shows.

`ReportedInTime` is the other half, as a safety property: `NotBad(k)` is how long ago an
evaluation last found k other than bad, and if that is more than `Delay(k)` ago, an alert is
no older than `Delay(k)`. The delay adds up what can go wrong at once: cleanup drops the
entry that had lasted just before the repeat is due, so a hold follows the cooldown; each of
the two is noticed up to a gap between evaluations late; and slow providers keep the
evaluation that notices from the key for `MaxLag`. With evaluations of at most a minute and
the built-in rule for CPU, 5 min and 1 h, it is 67 min. With a delay one unit shorter TLC
finds a violation.

### Polling

`place` and `online` are the world, which moves while it is looked at. A
collector goes through `idle`, `discover`, `submit`, `guests`, `record`; a task
of the pool through `status`, `lxc`, `qemu`, `merge`, `disks`, `release`. Every
API call is a step of its own that may fail. `UpdateNodes` and `UpdateGuests`
are the two critical sections the code has. `spotted`, `steady` and `missed` are
history: where each guest has been since discovery, which did not move, which
nodes had a failed call.

### Lifecycle

`loop[x]` is what a goroutine of the errgroup does. `TakeTick` is possible whether or not
the context is cancelled, because a Go `select` chooses among ready cases. A PVE poll is
modelled as far as cancellation reaches into it: `Discover` needs a live context,
`SubmitCancelled` is the early return that leaves `running` tasks behind as `stray` ones,
`AllDone` and `Written` do not look at the context. A PBS poll needs one answer: `Usage` is
any for its datastores, after which failures are logged and the poll is published;
`UsageFails` is none, as under a cancelled context, and ends the poll unless the datastores
are configured by name (`Named`): such a poll goes on (`blank`), and `Publish` empties the
collector's part of the cache. `Signal` is fatal before the handler is registered and after
`stop()`, and swallowed in between but for the first.

`ShutdownPromise` knows loops, a server, and polls that will be published, but no tasks,
requests or selects. `Promise` maps its phase to `main` and the context, its polls to the
collectors in `submit`, `write` or `blank`: a poll that fails in `busy`, as every PVE poll
does that a tick starts after the cancellation, is none it sees. It lets only its `Heedless`
collectors, mapped to `Named`, begin a poll once the phase is `stopping`, and such a poll is
among its `blank` ones: nothing was learnt by it. The promise covers loops and
`Server.Run`; handlers that outlive the 5 s of `Shutdown` may still query the store while
`main` closes it, and their queries then fail.

### Smart and Disks

`Smart` holds no state: `ThresholdRows` is the table, `FindBucket` its lookup with
both ends of a bucket included, as the code has it, `EvaluateDisk` the bits of a
disk's status as a set. Rates are in thousandths, and `Huge` stands for
`1<<62 - 1`.

In `Disks` the drives are the world: `wear` moves through the `Readings` of the
attribute that tells a drive's wear, and at the last one the drive fails its
manufacturer's test. `Wait`, `Begin` and `UpdateDisks` are what `Collect` does with
`lastDiskPoll`; `Visit` and `Leave` the node's task; `ask` is the query under way,
which `QueryRejected`, `QueryRead`, `QueryGarbled`, `QueryEmpty` and `QueryFails`
answer as `collectSMARTWithType` distinguishes them. `health` carries what one
query leaves in the disk for the next. Nodes are visited one at a time, as their
tasks share nothing but the list they append to; offline nodes are visits that
fail. `how` in a disk is history: how its query ended (`silent`: not even the first was
answered), and so is `failing`, the drives that failed their own test as the poll began.
`Views` has what is made of a disk: by the chip and the widget, from its status bits, and
by the alerter, from the bits and its health. `NoFaultUnalerted` relates the two.

### Backups

`world` is what each datastore holds; backups are made, pruned and forgotten while
`Collect` goes through its calls, each an action that may fail. `configured` chooses
between the two ways to learn of datastores: one call for all, whose failure ends
the poll, or one call for each, where a 403 leaves a stub and any other failure
leaves the datastore out. `CollectSnapshots` keeps the newest snapshot of each key,
any one of equally new ones, since the server promises no order. Times are ages, as
in `Alerter`. `existed`, `began` and `missed` are history: the keys that had a
snapshot during the poll, how old the newest was when it began, and the datastores
with a failed call. `jobs` holds the age of each task the server has run; `Recent` is what
`collectTasks` asks for, those not older than `Window` (7 days) and of them the `Limit` (200)
newest, so the cached `tasks` lose some as well as gain.

### Store

`rows` are the primary keys of the tables with a `ts` column, a row being its subject and
its age; values are abstracted away, so a replacing insert is a union. `Begin`,
`UpsertDisk`, `Insert` and `InsertFails` are the end of a poll, statement by statement,
nodes before guests before disks; `BeginPrune`, `DeleteOld` and `DeleteFails` are the
pruner, table by table, with the cutoffs it took at the start; `Crash` and `Start` lose and
resume the process. `lag` and `pruneLag` are how old the `now` of a poll or prune has
become. `Broken` tables are ones a `DELETE` from which always fails. `refused` is history:
the disks whose `UpsertDisk` has only ever failed, the one way for a SMART row to be without
its disk. `Promise` maps the rows within their retention to the `samples` of
`HistoryPromise`, which knows neither pruner nor crashes.

### Startup and Temperature

`file` and `env` are what the operator wrote; `LoadConfig` and `LoadFails` are
`config.Load`, with `FromFile`, `WithEnv` and `Valid` in its order. The actions after
it are `main`'s, one instance at a time, and what is in `running` runs already:
`Panic` is the ticker of a collector whose interval is not positive. `Temperature`
adds the nodes of the cache: `Publish` is a PVE poll's `UpdateNodes`, whose nodes have
no temperature; `Measure`, `Deliver` and `MeasureFails` are the SSH session, from the
reading of the sensors to the write into whatever node the cache holds by then.

## 3. The runs

| Run | Instance | Checks |
|---|---|---|
| `alerter` | one held key (hold 2, cooldown 1), one other (cooldown 3), `cleanup` at 3, two providers, evaluations up to 2 units long | `TypeOK`, `ReportedInTime`, `RepeatsAreSpaced`, `OkRestartsTheHold`, `KeepsPromise`, `BadIsReported` |
| `alerter_absence` | as `alerter`, cooldown 2, one provider | `AbsenceRestartsTheHold` is violated |
| `polling` | a cluster of two nodes, a single host, one container, one slot, one failing call, one change of the world | `TypeOK`, `GuestsHaveNodes`, `NoGhostGuests`, `SteadyGuestsPublished`, `CacheConverges`, `EveryInstancePolled` |
| `lifecycle` | a PVE collector of up to three nodes, two PBS collectors, one with configured datastores, the alerter, one request, two slots | `TypeOK`, `PollsDoNotMix`, `KeepsPromise`, `ShutdownCompletes`, `FailureStopsAll` |
| `lifecycle_ssh` | one PVE collector and a temperature collector | `ShutdownCompletes` is violated |
| `lifecycle_failure` | one PVE collector | `FailureEndsProcess` is violated |
| `disks` | a drive that answers nothing, one behind an HBA (`sat` and `scsi`), an NVMe drive; two nodes, four readings, one fault | `TypeOK`, `UnreadAreUnreadable`, `CacheConverges`, `NeverBetter`, `DisksStay`, `NoFaultUnalerted` |
| `disks_nvme` | the same, no fault | `AtaRatesForAtaOnly` is violated |
| `backups` | two datastores, one not to be audited; two groups that share an id; two backups made, the tasks asked for at most one and at most 1 old, one fault | `TypeOK`, `BackupsHaveDatastores`, `NothingHidden`, `NothingInvented`, `TasksStay`, `CacheConverges` |
| `store` | a node and a disk, three tables with retentions 1, 1 and 2 of which the second cannot be pruned, one failing statement, one crash | `TypeOK`, `SmartRowsHaveDisk`, `TablesBounded`, `KeepsHistory`, `OldRowsGo` |
| `store_history` | `history_hours` above the node table's retention | `HistoryHoursKept` is violated |
| `startup` | 19 files and 24 environments, valid and not, with up to two PVE instances and one PBS instance; two temperatures of one node | `TypeOK`, `PoolAndRulesFit`, `ChipMatchesAlerter`, `AllStarted`, `OnlyNegativeIntervalsPanic`, `StaleTemperatureGoes` |

What a run that passes shows: *alerter*, that alerts are spaced, held, repeated and in time
over every interleaving of observations, slow sends and restarts; *polling*, that what a
poll publishes was true during it and failures stay where they happen; *lifecycle*, that a
signal always ends the process, in the order it promises, when SSH is not used; *disks*,
that no sequence of answers, rejections and faults shows a wearing drive better than before
or keeps from the alerter that a drive which answers has failed; *backups*, that a poll
hides and invents nothing while the server changes; *store*, that no crash, fault or prune
loses a row early or keeps it for ever, or for long while the process lives; *startup*, that
what `Validate` refuses never runs and everything else is started in full, or panics at a
negative interval.

Why the bounds are enough. *Alerter*: the two keys show both kinds of rule and that keys do
not interfere beyond sharing an evaluation; the times are small but keep the order the code
guarantees (holds and cooldowns at most `cleanup`'s age); `AgeCap` of 8 lies above
everything ages are compared with, `Delay` (7) included, so saturation is invisible and a
late alert would be seen; `MaxLag` of two lets an evaluation overtake a whole hold time.
*Polling*: with one slot the instances compete; one change and one failure are placed at
every point of two concurrent polls. The invariants the proofs use were also checked with
two guests and two changes. *Lifecycle*: two slots for up to three tasks make `Submit`
block, be cancelled and succeed, for its own tasks as for those of others (instances that
contend for slots are `polling`'s), and each kind of collector meets the cancellation at
every one of its calls. *Disks*: the three drives take the cascade through every branch, the
readings 0, 4, 60 and 70 lie on and between the ends of buckets, and one fault is placed at
every call of every poll. *Backups*: two snapshots are enough for one to be newer, pruned or
forgotten, or for one key to be in both datastores; one fault is placed at every call, in
both modes. Two tasks for a limit of one, and a window below `Old`, make tasks leave by
number and by age. *Store*: a retention equal to `MaxLag` is the tightest the code could
meet (48 h beside seconds); the table that cannot be pruned stands between two that can; a
crash and a fault fall between any two statements. `Old` of 6 lies above what
`TablesBounded` allows each table before a statement has failed (4 and 5); after the fault
it allows as much as `Old`, and only the theorem speaks. *Startup*: each clause of `Valid`
is broken by the file, by the environment, and by neither; instances have their node's name
or another, a readable key or none, an interval left out, set or negative.

### Fairness

* `Alerter`: time passes, the goroutine takes its ticks and gets through its loops (every
  `Send` ends at its client's 10 s timeout). Nothing makes the world change or the process
  restart.
* `Polling`: goroutines run and calls return (30 s timeouts). `Submit` is strongly fair, as
  senders blocked on a Go channel are served in order.
* `Backups` and `Disks`: the collector keeps polling and its calls return; drives need not
  wear out, and the backup server need do nothing. Faults are bounded, so `CacheConverges`
  speaks of what follows the last one.
* `Lifecycle`: as above; `Stop` is strongly fair because `select` picks among ready cases at
  random and will not pass over one for ever. `Finish` of a temperature collector is *not*
  fair: `session.Run` has neither deadline nor context.
* `Store`: statements return, the pruner takes its ticks, time passes, and a process that
  crashed is started again (the service manager's `Restart=`). Nobody crashes it.
* `Temperature`: each PVE collector now and then has a poll in which every call succeeds. No
  fairness is asked of `main`, of SSH sessions or of the world: `StaleTemperatureGoes` holds
  even if no session ever answers again.

`Lifecycle` and `Temperature` stop for good when the process has ended, by a signal, a
refused configuration or a panic, so their configurations switch deadlock checking off.

## 4. What the checks found

Disagreements that a run demonstrates:

1. A subject that leaves the cache keeps its `sustained` entry; back in bad
   condition it is alerted without a hold (`alerter_absence`).
2. A hanging SSH command makes graceful shutdown hang (`lifecycle_ssh`).
3. After a fatal server error the process stops all work but does not end
   (`lifecycle_failure`).
4. An NVMe drive's "percentage used" has the id of "reallocated sectors" and gets
   its failure rates: at 16 % or more the drive is shown as failed; the run's drive
   is at 60 % (`disks_nvme`).
5. `history_hours` has no effect: the pruner is built with fixed retentions
   (`store_history`).

Met while modelling, and described by no property (each would restate a line):

* A hold time above 6 h is accepted and never fires: `cleanup` (alerter.go:132)
  deletes the entry of `sustained` first.
  `ReportedInTime` therefore excepts holds that leave no room for a gap below `MaxAge`.
* An answer that cannot be parsed leaves a disk shown as passed (pve.go:655), where
  docs/architecture.md:222 speaks of an internal error.
* A disk that PVE calls FAILED, with good attributes, is alerted but neither the chip nor the
  widget's numbers show it: they look at the status bits only (helpers.go:91-106,
  handlers.go:460, alerter.go:247), where docs/architecture.md:217 says of no bits "All checks
  passed" and docs/dashboard-widgets.md:27 counts "by SMART health category".
  `NoFaultUnalerted` is the direction that does hold.
* A PBS poll that begins after the cancellation, with configured datastores, logs that each
  call failed and publishes no datastores and no backups (pbs.go:81-97, 141-143): a request
  still being served may see that. `KeepsPromise` bounds it to such collectors.
* `src/docs/architecture.md:227` maps `IN_THE_PAST` to `StatusWarnScrutiny`; the evaluation
  never reads that text: a failure rate, or a critical value outside every bucket, sets the
  flag. `StatusUnknown` is never set,
  `LastPoll` is written and never read, and the widget's number of offline nodes is always 0.
* Drives without WWN and serial that share a device path on two nodes are one entry of
  the cache (pve.go:538-540; docs/architecture.md:58 has no `/dev/sdX` identities).
* Node discovery (pve.go:75) and every call of the PBS collector are made outside the
  worker pool that docs/architecture.md:53 has all calls go through.
* `IsCluster` is never set, so `detectCluster` never runs (docs/architecture.md:52,140).
* The temperature collector takes its instance's name for the node's (main.go:232-234);
  with any other name its measurements are dropped. Each PVE poll clears the
  temperature, so the rows' `cpu_temp` is nearly always NULL.
* Environment variables override the file's log level and pool size, while
  docs/configuration.md:184-185 gives the file precedence.
* A negative `poll_interval` passes `Validate` and panics (`OnlyNegativeIntervalsPanic`
  says that nothing else does). Two instances may have one name.
* `GuestBackupCell` has its own 36 h instead of the configured staleness; the
  `severity` of `disk_smart_failed` is read and not used; the health check
  subcommand ignores `listen:`.
* `UpsertDisk` does not update a disk's size and type; the primary key of
  `backup_snapshots` lacks the datastore, but no query reads that table; a node
  with no memory makes a sparkline query fail.

## 5. What is proved

Every theorem holds for all values of the constants that satisfy the named
assumptions of the module it is about.

`AlerterProofs` (`RuleAssumption`, `BoundAssumption`): types (`TypeCorrect`);
`RepeatsAreSpaced` (`Spacing`), by the inductive invariant `StampsAgree`;
`OkRestartsTheHold` (`HoldRestarts`), by the inductive invariant `OkIsOlder`; and the
refinement `KeepsPromise` (`PromiseKept`). What makes the spacing inductive
is `StampsAgree`: `lastFired` says nothing of alerts it forgot, so the invariant has
to say that whatever was forgotten is older than `MaxAge`, hence than any cooldown,
*measured from the evaluation's own instant*. For the hold it is `OkIsOlder`,
with its exception for a key the running evaluation has yet to visit.
`InTime` (`ReportedInTime`) needs most: `Paced` says that evaluations are at most a gap
apart, a goroutine that is late having a tick waiting; `OnTime` says, of each key whose hold
fits below `MaxAge`, what its age without an alert can be at each place where an
evaluation may be: before the visit (`Waiting`), after it (`Visited`), and for as long as
its entry counts (`Counting`). Each clause pairs "not bad for less than ..." with "alerted
within ...", and it is `Visited` that lets cleanup drop an entry: what is old enough to
be dropped has been alerted within the cooldown.

`LifecycleProofs` (`LifecycleAssumption`), for all disjoint sets of loops, any of the PBS
collectors `Named`, all pool sizes and node counts: types (`TypeCorrect`), `PollsDoNotMix`
(`NoMixing`), the refinement `KeepsPromise` (`PromiseKept`), and an invariant it rests on,
that the store is open until all loops and the server are stopped (`ClosedLast`). The
inductive invariant says of each collector (`Polls`) that it has tasks of its own only while
submitting, no stray ones then, and stray ones only once the context is cancelled; since a
cancelled context lets no discovery succeed, a PVE poll can no more reach `submit`; a PBS
poll can reach `blank` still, which the promise allows the `Named` ones. The refinement adds
`Ordered`: what has begun to end (main past its wait, a server that no longer listens) has
been cancelled; with `ClosedLast` that gives the abstract `Close` its guard.

`SmartProofs` shows what the lookup needs of the table (`RowsOrdered`: buckets that
cover every value, ascend and have growing rates) and from it that a larger raw
value is never judged more mildly (`RateGrows`). `DisksProofs` lifts this to the
poll, for all drives, queries they answer, readings that never fall
(`ReadingsAssumption`) and faults: types, `NothingLost` (`DisksStay`),
`NeverShownBetter` (`NeverBetter`), `NoReadingMissed` (`UnreadAreUnreadable`) and
`FaultsAlerted` (`NoFaultUnalerted`). The inductive invariant says that nothing
recorded looks worse than its drive is now (`NotWorse`), that what the running
poll has read is no better than what the cache shows (`NotBetter`), and that a
query is asked only when every better one has given nothing (`Cascade`): without
the last, a drive once read through `sat` might later be read through `scsi`, which
sees nothing of its wear. `Cascade` also carries `NoReadingMissed` (`NoneMissed`): a
cascade that ends without data has asked, or been rejected, all the way down. For
`FaultsAlerted`, `Heard` says that once the first query is answered a drive of `failing`
is known as FAILED, by the cascade under way and by all that is gathered: each later query
carries the health on, an answer repeats it since a failed drive does not recover, and an
error overrides the bits alone.

`PollingProofs` (`PollingAssumption`), for all clusters, guests, pools, faults and
changes of the world: types, `GuestsOnNodes` (`GuestsHaveNodes`), `NoGhosts`
(`NoGhostGuests`) and `SteadyPublished` (`SteadyGuestsPublished`). `Grouped` says that
a task asks for guests only once its node is known (`Listed`), so what the poll has
gathered is on nodes it has gathered, and that no task is at work outside
`submit` (`Quiet`). `Truthful` says that what tasks and maps hold was seen during the
poll (`FoundSeen`, `MapSeen`), that a steady guest was seen in one place only
(`OnePlace`), and that, unless a call failed, it is in the map or in a task that has
still to ask for it (`Covered`): without `OnePlace` a second merge could overwrite the
right node.

`BackupsProofs` (`BackupsAssumption`): types, `BackupsArePlaced`
(`BackupsHaveDatastores`), `NothingIsHidden` (`NothingHidden`),
`NothingIsInvented` (`NothingInvented`), `HistoryStays` (`TasksStay`). `Placed` follows
the datastores from the gathering through both updates of the cache. For `NothingHidden`,
`BeganThere` says that a key with a backup at the beginning still has one no older,
since pruning takes only what something newer outlives, and `Reached` how far the
poll is with it, stage by stage. For `NothingInvented`, `FromPoll` says that whatever a
datastore holds, or the poll has found, existed during the poll. For `HistoryStays`,
`Ordered` says that later tasks are younger, and `Settled` that a task shown
which the list waiting to be published lacks has a reason to leave, which further ageing
and further tasks do not take away.

`StoreProofs` (`StoreAssumption`): types, `DisksAreKnown` (`SmartRowsHaveDisk`, by `DisksFirst`:
a disk whose statement has been tried is known or refused before its row is due) and the
refinement `HistoryKept` (`KeepsHistory`). The step that matters is that a prune spares
what is within retention although its cutoff is as old as `pruneLag`: the type
invariant's bound on the lag, and that no retention is shorter than `MaxLag`.
`TablesAreBounded` (`TablesBounded`) is the other half: `Reach` says how old a row of each
table may be while the pruner is before it, past it or at rest, every failed statement
being worth a period (`WithinReach`). It speaks of processes that did not crash, since a
crash takes as long as whoever starts the process again.

`StartupProofs` (`StartupAssumption`, `TemperatureAssumption`), for all files,
environments and numbers of instances: types (`TypeCorrect`), `SettingsFit`
(`PoolAndRulesFit`), `ChipAgrees` (`ChipMatchesAlerter`), `EverythingStarts`
(`AllStarted`) and `OnlyNegativePanic` (`OnlyNegativeIntervalsPanic`). `ConfigLoaded`
ties the settings to their sources, `Progress` says that exactly those collectors run
that main's loops have passed. They are theorems of `Temperature`'s specification:
what already runs disturbs nothing of this.

Only model-checked: liveness (`BadIsReported`, `CacheConverges` of three modules,
`EveryInstancePolled`, `ShutdownCompletes`, `FailureStopsAll`, `OldRowsGo`,
`StaleTemperatureGoes`), which is out of the prover's reach. Of three of them a safety
property says what can be said without fairness, and is proved: `ReportedInTime`,
`TablesBounded` and, for what a cache converges to, `UnreadAreUnreadable`. The
invariants of all passing runs, and their action properties, are theorems.

## 6. Not modelled, and the plan

Metric values, formatting, the texts of HTTP requests and SQL statements, logging,
templates, styles and scripts are left out, and so are the HTTP handlers, which keep no
state: each takes a snapshot, or runs one query, and renders it. Of the providers,
`Alerter` has a call that takes time and may fail; their requests are I/O. The health
check subcommand and flags end before anything runs.

`PROJECT.json` lists the hazards no property covers, with the reason for each: an
answer that cannot be parsed, the key of a backup without its type, the division by a
node's memory. Left for later: two instances of one name, which share
their part of the cache; and a
composition of `Polling` with `Alerter`, to follow one failed call from the cache to
the alert it delays.
