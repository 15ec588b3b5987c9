# dbopt: the specifications

TLA+ modules, TLC configurations and TLAPS proofs for dbopt, a SQL Server
performance optimizer: an analyzer of SQL and plans, and a monitoring daemon
("sentinel") that polls a server, keeps what it saw in a SQLite file and raises
alerts, behind one HTTP backend and a web application.

Paths below are relative to the repository's root. File and line references
follow the commit the models were written from.

## 1. The system

### Parts, state and operations

| Part | State it keeps | Operations | What makes it hard |
|---|---|---|---|
| Daemon lifecycle (`crates/backend/src/sentinel_api.rs`, `crates/sentinel/src/lib.rs`) | one process-wide slot behind a tokio mutex; `sentinel-config.json` | start, stop, status, alert-config save (stops and restarts), autostart at boot, shutdown | handlers interleave at awaits and file accesses; a client that hangs up drops its handler halfway; the file is truncated, then written; stop waits for polls |
| Scheduler (`scheduler.rs`) | per daemon: a task per poller, an alert evaluator per instance, one pruner; a cancellation token | tick, poll, leave | a due tick may win against a cancelled token; a poll in flight outlives the request to stop |
| Telemetry store (`storage.rs`, `migrations/`) | SQLite: `meta`, `instances`, `poller_state`, a table per kind of sample, `alerts_fired`, logs | open and migrate, insert, look up, prune, report queries | opened anew by each HTTP request, by the daemon and by the CLI, possibly of different builds; each call locks by itself |
| Counter pollers (`poll/waits.rs`, `index_usage.rs`, `io_latency.rs`) | a snapshot of cumulative counters in `poller_state` | read, diff, insert a row per key, save the snapshot | server restarts, keys that appear, missed ticks, a crash between rows and snapshot, a second poller |
| Deadlock poller (`poll/deadlocks.rs`) | `deadlock_capture` | read the ring buffer, skip stored graphs, insert | look-up and insert are two calls; the ring buffer forgets; retention forgets sooner |
| Sampling pollers (`live`, `sizes`, `cpu_pressure`, `memory_headroom`, `tempdb_contention`, `plan_cache`) | none | query, insert | some insert nothing when there is nothing to report |
| Query Store poller (`poll/query_store.rs`), baselines | `query_store_snapshot`, `query_baseline` | insert, fold and judge each sample | read and fold are two calls; several plans and databases share one baseline |
| Missing-index capture (`poll/missing_index.rs`) | `missing_index_snapshot` | capture once a day | the gap is checked long before the rows are written |
| Alerting (`alerts.rs`, `notify.rs`, `poll/alert_eval.rs`) | `alerts_fired` | evaluate, de-duplicate, store, post, mark | five steps that may each fail; two tiers of one metric; stale samples |
| AI log (`web/src/store/ailog.ts`, `llm/router.ts`, `backend/src/logs.rs`) | a ring buffer per page; `ai_interactions` | start, token, finish, clear, hydrate; upsert, list, delete | unordered, unacknowledged requests; several tabs; eviction |
| Analysis history (`runlog.ts`, `logs.rs`) | a cache per page; `analysis_runs` | record, hydrate | as above, without an upsert |
| Browser stores (`scanlog.ts`, `fixlog.ts`, `persist.ts`) | whole maps in localStorage | append, tick, clear | two tabs overwrite each other |
| Actual plan (`routes.rs`, `sqlserver.rs`, `App.tsx`) | the editor's text and the page's request; a session of the server | price, confirm, run, roll back | a batch that ends its own transaction; text typed while the request is out; hang-ups |
| Health front door (`health/`, `sqlserver.rs`) | none: one scan's facts | read the DMV bundle, the store, the operational facts and the monitor's age; deduplicate, reconcile, score, sum up | each query fails by itself; time passes and the monitor moves between the reads |
| Index advisor (`analyzer-core/dmv.rs`) | none; what it advises changes the catalog it reads next | consolidate, create, merge, drop | advice is followed one statement at a time, from counters a restart forgets |
| HTTP API (`routes.rs`, `main.rs`), server access (`sqlserver.rs`, `scan.rs`), LLM proxy (`providers/`, `ollama.rs`) | none between requests | explain, scan, validate, chat | dropped handlers |
| Analyzer (the rest of `analyzer-core`), its CLI, WebAssembly and npm packages, editor extension | none (the extension: the diagnostics it shows) | lint text, suppress, rank | heuristics; the extension's runs overlap |

How they meet: the backend's handlers start and stop the daemon through the slot;
the daemon's tasks and the handlers share the store, through separate connections
to one file; the evaluator knows of the pollers only what is in the store; the web
application reads all of it by polling, and writes the logs.

### What each part must guarantee

- Lifecycle: never two daemons polling, none that nobody can stop, none that polls
  after a stop has been answered; what the user was told survives a restart; every
  request is answered.
- Store: the recorded version never claims tables that are not there; an open that
  succeeds has what its build needs; a crash between two migrations leaves a store
  that opens again.
- Counter pollers: a row is what its counter did in the window it covers, no more
  and no less; nothing is booked twice; nothing that happened between two good
  polls is left out.
- Deadlock poller: one row per deadlock, and every deadlock gets it.
- Alerting: no breach is repeated within its cool-down, none is hidden by another
  rule, "notified" is true only of a delivery, and a standing breach is recorded.
- AI log: what the store says of a chat that is over is its end and its whole
  answer; a cleared log stays cleared.
- Query baselines: the running baseline of a query is what a pass over all its
  samples would give, whoever folds them in whatever order; the poller and the report
  flag the same samples; a flagged one shows.
- Missing-index capture: one row-set a day however often the daemon restarts; every
  look that ends leaves a trace, an empty one too.
- Health scan: nothing it found is lost or softened on the way to the headline; a
  query that fails, or an order that no one chose, adds no finding; "all clear" is
  said only of enough, and fresh, history.
- Index advisor: every suggestion is answered once; whoever follows one statement of a
  fresh scan takes no seek away, nor, unannounced, a covering index.
- Actual plan: a heavy batch runs only when asked for; no batch leaves a trace.
- Browser stores: section 8.

## 2. The modules

`SentinelLifecycle` models the daemon's life. Its variables are the slot, the mutex
(`lock`), the config file, each handler's program counter and locals, and for each
daemon its token and the state of its tasks. A handler's step ends where another
thread can tell: at an await and around each file access. `std::fs::write` is two
steps (`Truncate`, `WriteBody`) with readers and crashes in between; a failed write
(`WriteFails`) is only logged, as in the code. `StartLaunches`, `StopTakes` and
`AlertsTakes` are the critical sections; `drain` is the await inside
`Sentinel::stop` while the mutex is held. `AlertsRead` reads the file before it asks
for the mutex, which is what the code does. `Disconnect` drops a handler's future at
an await (a constant says whether clients hang up). `Crash` ends the process;
`BootResumes` and `BootIdle` are `autostart_from_disk`. Instances and alert configs
are model values. `MonitorService` is the abstract promise (off, on, draining; polls
begin only while not off; off or anew only when no poll is in flight), which the run
`lifecycle_concurrent` shows to be implemented.

`StoreMigration` models `Storage::open`: the version is read once (`ReadVersion`),
then each pending migration commits together with the number it records
(`Migrate`), fails because its column is there (`DuplicateColumn`), or is refused a
lock (`Busy`). Openers are connections; `Close` is also the death of a process.
`Builds` are the numbers of migrations that builds in use know, so an older CLI may
open a newer store. `shared` is a history variable: two openers were migrating at
once.

`CounterDelta` is the three counter pollers in one: `kind`, chosen initially, says
which (only waits are cut to `TopN`, only files are diffed against a snapshot of any
age). `Query`, `Diff`, `InsertRow`, `Save` are the poll's calls; `EndsUnsaved` and
`EndsEarly` are crashes and failures between them; inserts that fail are the
disjunct of `InsertRow` that books nothing. One number stands for a key's counters.
`grown` (what was counted while watched) and the `grown`/`epoch` parts of a reading
are history that no guard reads.

Four modules are about the tasks of the daemon's collectors:

`DeadlockCapture` models the ring buffer, the look-up by hash (`Known`, `New`), the
insert, `Prune` and crashes, for several pollers of one store.

`QueryHistory` models the Query Store poll row by row: the row is stored (`InsertRow`),
the baseline read under one lock (`ReadBaseline`), and folded into under another
(`UpdateBaseline`), with other pollers, pruning and crashes between. `Fold` is
Welford's update in integers scaled so that every division the bounds allow is exact,
where the code rounds to `f64`. `log` and `seen` are history: the samples the baseline
holds, and those it held when it was read. `DetectRegressionDurable`,
`DetectRegression` and `Band` are the poller's verdict, the report's and the badge's.

`MissingIndexDaily` models the gap check, the DMV's answer, the inserts one by one, the
row that says "nothing" and the failures between them, for pollers that may watch
several databases of one server.

`Alerting` models samples, evaluation passes, and each breach's way through the
cool-down look-up, the row, the POST and the mark (`Suppress`, `Fire`, `FireFails`,
`PostOk`, `PostFails`). The breaches of a pass are a set of places in the list of
rules, handled in that order. `alerts` is every row ever stored; `Prune` moves `cutoff`,
and neither the look-up nor the samples reach behind it. A level stands for a value and one comparison for the four
comparators. `SameName` says whether the instance's configured name is its server's
name, since pollers register under the latter and the evaluator looks up the former.

`Collectors` puts the four beside each other as one daemon runs them. They share a
file but no rows, so a behaviour moves the tasks of one kind (`active`, chosen once) and
interleaves those: a product of the four would multiply states without one new
interaction.

Five modules are about the backend's requests:

`AiLog` models the pages, the network and the backend of the AI log. Requests in
flight are a set: they arrive in any order or get lost. An entry is its status and
how many tokens it holds; chats are numbered as they start, which is the order of
`occurred_at`. `excused`, `torn` and `wiped` are history: chats whose end cannot
reach the store, chats that a boot listing replaced while they streamed, and chats
that a served DELETE found nowhere but in the store.

`OperationalChecks` is the scan's probes and its best-practice checks: which facts each
probe fills (`PullOperational`) and what each check makes of a fact that may be missing.

`HealthReport` models one scan as the sequence of reads it is (`ReadBundle`, the store,
`PullOperational`, the monitor's age), each of which may fail, while the clock, the
monitor, the pruner and the server's restarts move; then what becomes of the issues
(`Dedup`, `Reconcile`, the score, the headline). The order in which the code's hash
maps yield equal issues is an arbitrary order here.

`IndexAdvisor` models the advice (`Creates`, the drops, the merges) as a function of
catalog, counters and suggestions, and the loop the advice is part of: a workload that
seeks and leaves suggestions, writes, restarts, scans with failing queries, and a
person who runs one statement (`Follow`).

`ActualPlan` models the page's request, the price, the confirmation, the session with
its transaction and the statements of the batch, each of which may fail, and what ends
a request early. `licence` and `trace` are history.

`Requests` puts `AiLog`, `HealthReport`, `IndexAdvisor` and `ActualPlan` beside each
other as one backend serves them, in the manner of `Collectors`.

`MC*` modules hold the symmetry sets and the structured constants the `.cfg` files
name. `*Proofs` modules hold the theorems. Definitions called `Mutant` in a comment
are plausible bugs of the code, each of which breaks the property it is paired with
in `PROJECT.json`; nothing else uses them.

## 3. The runs

| Run | Instance | What it shows |
|---|---|---|
| `lifecycle_serial` | 1 handler, 2 daemons, 2 tasks, 2 instance lists, 2 alert configs; crashes anywhere but inside the write | running daemon, file and acknowledged answers agree when nothing is in flight (`RunsWhatFileSays`, `AckedIsPersisted`, `EditsSurvive`); a reload keeps its instances |
| `lifecycle_concurrent` | 2 handlers, 2 daemons, 2 tasks; crashes anywhere; disk faults; no hang-ups | `AtMostOneDaemon`; refinement of `MonitorService` |
| `lifecycle_hangups` | 2 handlers, 2 daemons, 1 task; hang-ups; fairness | `NoOrphanDaemon`; `HandlersAnswer`, `CancelledDrains` |
| `lifecycle_reload_race` | 2 handlers, start and alert save | violation of `ReloadKeepsInstances` (section 6) |
| `migration_openers` | 3 openers, builds that know 3, 4 and 9 of the nine migrations, ALTERs 4 and 5 | `VersionIsApplied`, `OpenIsMigrated` always; `ReopenableIfApart`, `VersionGrows` while no two migrate at once |
| `migration_bricked` | 2 openers of one build on a new file | violation of `Reopenable` (section 6) |
| `delta_poll` | 2 keys, 1 poller that sees both, each of the three kinds; 1 restart, 1 fault, 3 instants | `RowsAreWindows`, `RowsAreExact`, `RowsAreRecent`, `NeverOverbooked`, `NothingSkipped` |
| `delta_top30` | the same with a query cut below the number of keys | violation of `RowsAreWindows` (section 6) |
| `alerts_label` | 1 rule, an instance with a name of its own | violation of `StandingBreachFires` (section 6) |
| `collectors_kept` | 2 pollers of each kind; 2 graphs, a ring buffer that forgets, retention 1; 6 poll results on 4 histories of up to 7 samples; 2 suggested tables, a gap of 2; 2 tiers of one metric, cooldown and retention 2; 1 crash or fault each; fairness | `OneRowPerPoller`, `Captured`; `BaselineIsBatch`, `DetectorsAgree`, `SpikeShows`; `SpacedCaptures`, `LooksAreRecorded`; `NoSpam`, `NoTierMasked`, `StandingBreachFires` |
| `requests` | 2 pages, 2 chats, 1 token, a buffer of 1 entry, 1 clear, 1 lost request; 4 servers, 3 sets of failing bundle queries, 3 of failing probes, 3 instants; 5 catalogs, 3 queries; 6 batches, 2 of them heavy | `EndIsStored`, `AnswerIsWhole`, `ClearedStaysCleared`; `WorstIsKept`, `OrderFree`, `ChecksAreHonest`, `AllClearIsEarned`; `ConsolidationIsSound`, `SeeksStay`, `CoverStays`; `NoUnaskedLoad`, `OnlyOwnRollbackTraces` |
| `plan_trace` | the actual plan of `requests` alone | violation of `LeavesNoTrace` (section 6) |

Every run checks deadlock. The type invariants of the modules with proofs are
theorems (section 5) and no run repeats them.

### Bounds

Two handlers give every pair of handler steps; a third waits on the same mutex as the
second and adds only queueing. Two daemons are enough for one being drained while
another is wanted; if the code ever ran two at once, two would show it. Three openers
are one more than a race needs, so that a third observes what two left. Two keys show
a key's first sight next to a known one; a counter that grows twice over three
instants covers before, within and past the largest gap (`MaxGap` = 1). Two tiers are
what the built-in rules have. A ring buffer of one entry makes eviction happen at the
second chat. A baseline is judged from its sixth sample on, so the histories hold five
or six before the run adds its own. The thresholds of the health report in ticks and
counts (`Learning`, `Mature`, `Live`, `Window`, `ManyDeadlocks`, ...) are scaled to 0,
1 and 2: what matters is each side of each. The four servers are a sound one, a
neglected one on which every check fires, a read-only archive that was never backed
up, and one whose table has advice and static findings to reconcile: two missing indexes,
an idle one, and two to drop, of which one is listed twice. The catalogs give
each kind of advice its occasion: an idle index, a unique one, exact and same-key
duplicates, overlapping keys, a clustered index that is not unique; the three queries leave suggestions that fold into one.
The alerts' retention is the shortest that outlasts a cooldown and a pass (`PassTime`,
what the POSTs of one evaluation may take), so that rows are pruned the moment they
may be. The batches cover each kind of statement before and after a rollback. Bounds
on faults, crashes, restarts, clears and lost requests are one each: the properties
speak of pairs (a crash and what follows it), and the theorems drop the bound
altogether. Counters that only bound the model (`MaxTime`, `MaxFaults`, `MaxCrashes`,
`MaxClears`, `MaxLost`, `MaxRestarts`, `MaxGrowth`, `MaxBefore`, `MaxTokens`,
`MaxChats`, `LateTime`, `MaxSamples`, `MaxPolls`, `MaxReads`, `MaxSuggestions`) appear
in the guards of the actions of the environment; `Max` (the ring buffer), `TopN`,
`MaxGap`, `Retention` and `Cooldown` are the code's own limits.

## 4. Fairness

- Lifecycle: strong fairness of a handler's `Locks` steps, because tokio's mutex is
  first come first served; weak fairness of steps that wait for nothing; strong
  fairness of `PollerExit`, because `select!` picks among ready branches at random
  (`scheduler.rs:279`); weak fairness of `PollDone`. The last is an assumption the
  code earns only in part: the TCP connect has a timeout of 15 s, the queries have
  none, so a server that accepts a query and never answers holds `stop`, and with it
  the mutex `status` needs, for ever. `HandlersAnswer` is about the handlers, given
  polls that return.
- Alerting: weak fairness of `Evaluate` (its ticker) and of `Handle`; the POST has a
  timeout of eight seconds, and failures are bounded by `MaxFaults`.
- Deadlocks: weak fairness of the poll, strong fairness of `Insert` (an insert that
  is tried again and again succeeds in the end).

`CollectorsSpec` has the last two, each only of the tasks a behaviour moves. The requests
need none: their properties are about what a step may do.

No fairness is put on users, clients, the monitored server or crashes.

## 5. What is proved

For all values of the constants, from the named assumption of each module (the
bounds are natural numbers, `None` is no handler or page, the kinds are the three
kinds, and so on):

| Module | Theorems | Argument |
|---|---|---|
| `SentinelLifecycleProofs` | `TypeCorrect`, `NoOrphan`, `DrainsLocked`; without hang-ups `AtMostOne` and `Refines` (of `MonitorService`); with one handler `EditsKept` (no crash inside the write) and `ReloadKeeps` (a sound disk); with one handler, or any number of them as long as nobody saves alert rules (`Serialised`), on a sound disk `AckedKept` (no crash inside the write) and `RunsTheFile` (no hang-ups) | `Inv` adds to the properties that only a handler in `drain`, or in the two write steps of start and stop, holds the mutex, and that nothing is in flight while the process is down. `NoOrphanDaemon` alone is not inductive: that a launch finds the slot empty follows from the lock discipline. `AtMostOne` adds `Accounted`: a daemon with tasks left is in the slot or is some handler's victim in `drain`; hang-ups break exactly this. The same accounting maps each step to one of the service or to a stutter. The last four tie a handler's locals to the file: what it read is still there, and what it is about to write is what it read but for its own edit. That takes a writer nobody interferes with: start and stop read and write the file under the mutex, so that with any number of them a writer is the only one (`OneWriter`) and holds a slot nobody changes (`OthersHold`); a save of alert rules does neither, which is the finding of section 6. |
| `StoreMigrationProofs` | `TypeCorrect`, `VersionTrusted`, `OpenComplete`, `ReopensIfApart`, `GrowsIfApart` | `VersionIsApplied` needs that every migration an opener has passed is applied; the last two need `ExactIfApart`: as long as no two openers have shared the file, `applied` is exactly `1..version` and a migrating opener is just behind it. |
| `CounterDeltaProofs` | `TypeCorrect`; for any pollers `RowsRecent`; for any number of pollers whose queries return every key that counted (`FullSight`) `RowsExact` and `NoneSkipped`; for one of them (`OnePoller`) `NothingTwice` and, for one or while the server does not restart, `RowsWithinWindow` | One poller: the invariant ties its reading and the snapshot to the history, in the order they were taken; what is booked is at most what was grown at the snapshot, unless a poll ended unsaved. Several: that order is lost, since any of them may save first. What is left is `Agree`: within one life of the server, counter and `grown` differ by a constant per key, so any two readings in play (`InPlay`) differ in their counts as in what was grown, whichever came first. That makes a row exact and leaves no key out, but does not forbid two pollers to book the same growth. `RowsRecent` needs only that a poller has pending rows only while it inserts them, which it reaches through the gap check. |
| `QueryHistoryProofs` | of `QueryHistory`: `RowIsBatch`, `PollersAgree`, `SpikesShow` | `RowIsFold`: the baseline row is the fold of `log`, and what a poller read is the fold of `seen`. Then algebra: Welford's step adds to the mean and to the sum of squares what the batch formulas say (`Exact` in, `Exact` out), exactly when `Unit` is a multiple of n(n-1), which the assumption asks; by induction over the length the fold is the batch. Where the baseline of a poll is the series before the sample, the two detectors compare the same numbers. |
| `CollectorsProofs` | of `DeadlockCapture`: `TypeCorrect`, `OneRowEachPoller`, `OneRowEach` (one poller); of `Collectors`: `OneRowEachCollected`; `CaptureTypes`, `CapturesApart`, `LooksCaptured`; `BaselineExact`, `DetectorsSame`, `FlaggedShow`; `AlertTypes`, `AlertsApart` (a retention that outlasts a cooldown and a pass, `Outlives`), `NoTierSilenced` (a cooldown above zero) | A poller that is about to insert a graph has no row of it: true at the look-up, kept because only that poller adds rows of its own and pruning only removes. `Flight`: a poll that has found a capture due has only captures of its own that are a gap older than its check, and what it stores is stamped no earlier. Alerts are appended, and only after a look at all earlier rows of the rule but the pruned, which `AlertClocks` shows to be older than a cooldown and a pass; the mark that a delivery leaves changes neither rule nor time. That the pass has a next breach at all (`LeastExists`) is well-founded induction on numbers. A step of `Collectors` is a step of each component or leaves it alone, which carries the theorems of the components over. |
| `RequestsProofs` | of `AiLog`: `TypeCorrect`, `StaysCleared`, `StoredWhole`, `EndStored`; of `Requests`: `ChatsStayCleared`, `AnswersStoredWhole`, `EndsStored`; `PlanTypes`, `LoadAskedFor`, `OwnTraces`; `Consolidates`, `SeeksAreKept`, `CoverIsKept` | AI log: `NoMore` (no copy of a chat has more tokens than were streamed, and only started chats stream) carries the types; `Gone`: a wiped chat is in no buffer, listing, request or row, and whatever is written to the store comes from one of these; `Whole`: until a boot listing tears it, the owner's buffer has all the tokens streamed, and what is posted at the end is that buffer's entry; `Settled`: a chat that is over and stored as streaming still has its last POST under way, unless excused. Actual plan: `Licensed`: past its price a heavy batch has its licence; `Wrapped`: what is left of a running batch is part of it, has no blocked word, and is in the transaction unless the batch itself rolled back. Index advisor: `AdvisorInv` adds `Sought` to the types: a query that ran since the restart left a read on every index it could have sought, so an index without reads is no query's only one; of a suggestion that absorbs another, key and columns by induction over the list (`FoldLeftTheorems`). |
| `HealthReportProofs` | of `Requests`: `Honest`, `ClearIsEarned`, `AnyOrderShows`; `NothingLost` if no two tables' names differ only in digits (`NamesApart`) | `ScanInv` carries what a scan holds from read to read: issues that can be ranked, an age that is what the clock said, a monitor that sampled within `Live` if it was called running, checks that a full answer would have brought. `Concluded` says that a report is the summary of what was gathered. `AnyOrderShows`: the face of a card depends on the set of issues alone. An issue's `Home` is the set of issues it may end on; two homes are equal or apart because advice is folded only into advice of its kind and a table has one heap, which its id shows; hence in every list two issues end on one card just when their homes are equal (`AnchorsMeet`). `NothingLost` needs `Gathered`: of two issues with one id, the one that ranks higher, or as high but earlier, is no milder and of the same table. That is true of the advice because it comes sorted and its severity follows from its gain (`Rated`), of the findings because rule and table decide the severity, and across sources because an id names its source. Then the winner of an id, the card it ends on and the sum of the points (a fold) are each at least as bad as what they stand for. |
| `FoldLeftTheorems` | `FoldEmpty`, `FoldExtends`; `FoldOverEmpty`, `FoldOverStep` | What `FoldLeft` and `FoldSet` of the community modules compute. The folded operator is a constant of the module, so that a proof about `Fold`, `Add`, `SortIn` or `Points` gets the theorems for its own operator by `INSTANCE`. Both folds are recursive functions chosen by `CHOOSE`; that such a function exists is induction on the length, or the size, over a set of numbers (`SetInduction`, from the library's well-founded relations). |

Each module's section of lemmas states what its helpers (`Launch`, `ReadPersisted`,
`Lookup`, `Put`, `Newest`, `Listed`, `SortIn`, `Dedup`, `Reconcile`, ...) return, once.

Assumptions that are more than a type: `QueryHistoryAssumption` has a `Unit` that the
products n(n-1) divide, which is the model's exact arithmetic and not the code's `f64`.
`HealthAssumption` has `Rated`: of two suggestions to create an index, or two about one
index to drop, the one with the greater gain is no milder, because both come of one
score (`dmv.rs:877`) or of the index's size (`dmv.rs:1574`). The hypotheses of single
theorems are in the table; each but `NamesApart` and `Outlives` is a setting of the
model (who hangs up, where crashes fall, how many handlers there are and what they serve), and section 6
says what happens without it.

Every safety invariant and every action property of the passing runs is stated by a
theorem. Only model-checked is liveness (`HandlersAnswer`, `CancelledDrains`,
`StandingBreachFires`, `Captured`), which is beyond TLAPS; and no theorem is about a
finding of section 6, whose properties do not hold.

## 6. Where the code departs from what it says

Five runs end in a counterexample. They are the findings of `PROJECT.json`.

- `lifecycle_reload_race`: saving alert rules while a start is being persisted
  reloads the daemon with the instance list read before the start, and writes that
  list back (`sentinel_api.rs:654-656`).
- `migration_bricked`: two openers that both read an old version. The slower one
  repeats the repeatable migrations, recording their lower numbers, then fails at the
  first ALTER the faster one has committed. The version now stays below a column
  that exists: every later open fails. The first load of the web page on a new
  machine issues two requests that each open the store (`App.tsx:303-304`).
- `delta_top30`: a wait type that climbs into the query's TOP (30) is diffed against
  zero: its total since the server's restart becomes one tick's delta
  (`waits.rs:118`).
- `alerts_label`: an instance started under a name other than its server's is never
  evaluated (`alert_eval.rs:93`).

- `plan_trace`: ROLLBACK is not on the list of blocked words (`sqlserver.rs:292`), so a
  batch that rolls back in its middle ends the wrapping transaction, and what it writes
  after that commits itself (against `routes.rs:339-340`).

Other departures the models show with other constants or properties, or that came up
while translating, not kept as runs:

- `SentinelLifecycle` with `Disconnects` and `AtMostOneDaemon`: a client that hangs
  up during stop releases the mutex while the daemon drains, and a start in that time
  has two daemons polling (`sentinel_api.rs:5`: "At most one daemon").
- With two handlers and `AckedIsPersisted`: an alert save that read the file before a
  start or stop writes the old autostart flag back. With `EditsSurvive`: two writers
  lose an edit, or a reader finds a truncated file and takes the defaults
  (`sentinel_api.rs:59-60`). With `"write"` in `CrashPoints`: a crash between truncate
  and write loses the whole file (`sentinel_api.rs:91`).
- `StoreMigration` with two openers and `VersionGrows` unguarded: the version goes
  back (`storage.rs:389`).
- `CounterDelta` with two pollers that watch different keys: two databases of one
  server share one `instances` row, found by server name (`storage.rs:513`), hence one
  snapshot; each poller's keys look new to the other. With two that watch the same
  keys (the daemon and `poll-once`): both book the same growth; and a poll that read
  before a restart and diffs after the other saved its first reading of the new life
  books the difference of two unrelated totals, if no counter went backwards. With `MaxFaults` > 0
  and `NeverOverbooked` unguarded: a crash after the rows and before the snapshot
  books them twice (`waits.rs:154`). With the kind `files` in `RowsAreRecent`: its
  snapshot may be of any age (`io_latency.rs:105`).
- `DeadlockCapture` with two pollers and one row per graph: both find it missing and
  both insert it (`deadlocks.rs:68-69`). A graph whose row was pruned is captured
  again, with the time of the poll as its time (`deadlocks.rs:74`), and counts as a new
  deadlock for alerts (`alert_eval.rs:76`).
- `Alerting` with a retention that does not outlast a cooldown and a pass: an alert
  whose row was pruned repeats (`storage.rs:434`; neither setting is checked against the
  other). A metric that can no longer be read, or whose poller writes nothing when
  idle (`storage.rs:931`), keeps firing from its last sample (`alert_eval.rs:25`,
  against `alert_eval.rs:11-13`). A breach that ends and returns within the cool-down
  is suppressed (`storage.rs:813`; `alerts.rs:270-271` speaks of the next genuine
  breach).
- `QueryHistory`: a baseline is found by server and `query_id` (`storage.rs:516`), and a
  query's id is its own only within a database, so two databases of a server fold
  different queries into one row (`sentinel_api.rs:449-451`: never "another database's
  baseline"); the report groups its rows in the same way.
- `MissingIndexDaily` with two databases on one server: the gap is looked up by server,
  so whoever polls first each day starves the other database of captures.
- `HealthReport`: a read-only database whose read-only probe failed is told that its
  integrity check is due (the exception in `ChecksAreHonest`). When the query for index
  metadata fails, every table of a hundred rows or more has "no primary key". The
  monitor's age is that of the whole store, not of the server scanned. Two failed jobs,
  or two replicas, share one finding id; ids also drop the digits of a table's name
  (`Letters`), so of `Sales2023` and `Sales2024` one is dropped. Two suggestions for one
  table share an id and the first wins before they can be reconciled
  (`health/mod.rs:379-384`). A monitor just started that has seen 1 to 50 blocked
  requests reads 100 and "excellent" (`health/mod.rs:628-631`), which `AllClearIsEarned`
  excepts. A counter age that is not known does not count as learning. Which of two
  equal issues gives a card its title depends on a hash map's order (`Face`).
- `IndexAdvisor`: a unique index whose name does not begin with PK_ and a clustered one
  that is not unique are proposed for dropping when the metadata query failed
  (`dmv.rs:1011`); the passes for copies, overlaps and prefixes ask for uniqueness only
  (`dmv.rs:1122`, `dmv.rs:1157`, `dmv.rs:1803`), so a clustered index that is not unique
  may be dropped as redundant, which rebuilds the table and is excepted in `CoverStays`;
  a consolidated INCLUDE may repeat a key column; one page of advice may drop two
  indexes each of which is redundant only because of the other, so only the first
  statement followed is safe, and the scan must be repeated; creating an index and
  dropping the prefix it makes redundant may alternate.
- `ActualPlan`: the reply sets the state the page had captured when it asked, so text
  typed meanwhile is lost (`App.tsx:565`; the estimated plan likewise, `App.tsx:525`); a
  verdict of the parser may come late in the same way (`App.tsx:501`).
- `AiLog` without `excused`: a first POST that arrives after the last one turns the
  stored chat back to streaming with no answer, though "the final state is what
  survives" (`storage.rs:1904-1905`); an evicted chat, a closed page or a lost POST
  leaves it streaming for ever. Without `torn`: the boot listing replaces a chat that
  is streaming, and the answer is stored cut short (`ailog.ts:133`, against
  `ailog.ts:46`).

## 7. What is not modelled

- The rules of the analyzer, its lexer and plan parser: two fifths of the code, and
  heuristics over the tokens of a text. What a rule reports is what its patterns say; a
  model of one would be its transliteration, and there is no second definition to check
  it against. The same holds of the ranking of advice and of the wording of reports.
- The web application's views, and the state of a page that no request outlives.
- The text of the SQL sent to the monitored server, the driver, HTTP routing, CORS,
  assets, LLM providers: I/O and layout.
- In the health report: metrics, action plan, the trend line and the rarer findings;
  they add cards of their own and touch no other.
- Real time: cadences and missed-tick behaviour are "a tick may come at any time".
- SQLite below a commit: a transaction is one atomic step; `SQLITE_BUSY` is modelled
  where the code lets it surface (`Busy`, failing inserts).
- Poisoning of the store's mutex: no code panics while holding it.

These are most of the repository's lines: the definitions translate the parts whose
state or order can go wrong, and `PROJECT.json` maps each to the lines it stands for.

## 8. Plan

Done: the daemon's life and the service it implements, migration, the counter pollers,
the collectors, the requests, with the theorems above. Left:

1. `TabStore`: the browser's whole-map stores under several tabs (`scanlog.ts:103`,
   `fixlog.ts:91`), and the analysis history.
2. Late answers: the editor extension's overlapping runs (`extension.ts:170`), and the
   page's verdicts and estimated plans (`App.tsx:501`, `App.tsx:525`).
3. Suppression scopes (`suppress.rs`) against a reference definition.
4. The live monitor's page, which polls and diffs what it is given.
