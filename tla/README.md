# The aggregator in TLA+

The program (`src/`) turns flow files into accounting records. Every minute it takes the
`ft-*` files that a collector left in one directory per `nas_ip`, sums the traffic of the
clients, and writes it to Postgres as chunks of the clients' online sessions. This directory
holds TLA+ models of the program, TLC configurations that check them on small instances, and
proofs, checked by TLAPS, of what matters most for instances of any size.

Paths below are relative to the repository; the Go code lives in `src/src/`.

## 1. Inventory

| component | code | state | operations | what is hard |
|---|---|---|---|---|
| Aggregate: one nas_ip | `internal/usecase/aggregator.go:278-549`, `usecase/flow.go`, `repository/storage/flow.go`, `repository/postgresql/flow_batch.go`, `session.go` | `nas_ip/ft-*`, `nas_ip/tmp/ft-*`, tables `chunk` and `flow_batch`, the job's locals | load checkpoint, list, move to tmp, stream, sift, insert chunks, insert names, commit, delete files, delete checkpoint | file system and database have no common transaction; a crash, an error or a lost answer between any two calls; the collector renames files meanwhile |
| Cycle | `external/cron.go`, `aggregator.go:92-276` | ticker, context, two channels of one, directory list | tick, signal, load channels and sessions in two goroutines, dispatch, wait | early returns, closed and full channels, signal at any point |
| Worker pool | `tools/workerpool/workerpool.go` | semaphore, WaitGroup | `Go`, `Wait`, deferred calls after a return or a panic | a slot or a count that a panic loses; check of the context and select are two steps |
| Transaction sessions | `internal/transaction/sql.go` | `init`, `currentTx` | `Start`, `Commit`, `Rollback` | failing `BeginTxx`, a context that ends under an open transaction, any order of calls |
| Connection pool, readiness probe | `tools/pgdb/db.go`, `external/health/health.go:37-57`, `cmd/main.go:27-48` | open connections, waiting requests | begin and end a transaction, ping, time out | jobs, loaders and probes share a limit that is the pool's size and a reserve |
| Traffic | `usecase/traffic.go`, `entity/traffic`, `entity/session` | `trafficMap`, `parsedRecords`, `classifyErrCount` | `AccumulateLine`, `Result`, `SiftTraffic` | order of lines, an address that talks to itself, disabled channels, the verdict on which files are deleted |
| Loading | `usecase/channel.go`, `usecase/session.go`, `tools/gensql/select.go` | the two tables | rows to maps | no row is an error, an absent channel reads as disabled |
| Start and stop | `cmd/main.go`, `external/httpsrv/httpsrv.go` | context, `errChan`, requests | signal, listen, serve, graceful shutdown, wait, flush spans | error and signal at once, requests that never end |
| Metrics | `tools/metrics`, the calls in `aggregator.go`, `docs/monitoring/alerts.yml` | counters, one gauge, in memory | count results, stages, phases, panics, accounted traffic, saved chunks | written at other moments than the database changes, on many paths out of a job or a cycle |
| Time measurement | `tools/measure/measure.go` | `data`, `nameList` of one instance | `Start`, `Stop`, `Result`, `reset` | two loading goroutines and `Start` share it over all cycles |
| Database server | `docker/migrate/*.up.sql` | tables, their keys and column widths | apply a transaction whole, late or never | a commit given up by its client, `on conflict do nothing`, 32-bit columns |
| Logging, tracing | `tools/logger`, `tools/tracing`, `tools/dump` | none the program reads | write | nothing |
| Configuration, wiring, generators, mocks, `sqlnull` | `config`, `rimport`, `uimport`, `tools/flowgen`, `cmd/loadgen` | none while it runs | read once | nothing |

How they interact: `main` waits in `Cron.Run`, which calls `Start` for each tick. `Start` gets
two maps from two loading goroutines over channels, lists the directories, and calls
`pool.Go` with a function per directory that calls `Aggregate`. Jobs share nothing in memory;
they share the database's connections and, if two of them worked on one `nas_ip`, its
directories and its rows. One context, ended by a signal, reaches every database call.

What makes each component correct:

* Aggregate: no delivered file is counted twice and none with internal traffic is deleted
  uncounted, whatever fails or crashes; what was left behind is settled by a later job.
* Cycle and pool: one job per `nas_ip`, never more functions than slots, nothing of a cycle
  outlives it, every cycle ends, a signal ends the loop.
* Sessions: no transaction keeps a connection nobody can give back; the usecases never misuse
  a session and never wait for ever for a connection.
* Traffic: every internal address has exactly the sums of its records, the verdict on which
  files are deleted is sound, each session is billed what its address moved; a batch
  that cannot be stored is not stored in part.
* Metrics: what is billed lies between what the metrics call saved and accounted; each job and each
  cycle is reported once; a job that leaves uncounted traffic behind is seen.
* Connection pool: no transaction and no probe waits for ever; the reserve does what it is for.
* Stop: a failing server is reported, requests are drained or timed out, the process exits.

`PROJECT.json` lists the hazards line by line, with the properties that would catch each.

## 2. Modules

| module | models | remarks |
|---|---|---|
| `Deployment` | constants shared by cycle and jobs | directories, goroutines, "no nas_ip" |
| `Accounting` | abstract promise about flow files | absent, waiting, then billed in one batch or discarded for one of two reasons |
| `Rounds` | abstract promise of the cycle to the jobs | rounds that do not overlap, a directory at most once in each |
| `Aggregate` | a job of one `nas_ip`, the collector, crashes | its guard "one job per nas_ip" is the contract that `System` discharges |
| `LateCommit` | `Aggregate` on a server that applies a given-up COMMIT late | `Settles` says whether it decides before the next job |
| `JobMetrics` | `Aggregate` with the metrics of jobs | a counter of bytes is kept per file |
| `Cycle` | ticker, context, loaders, dispatch, pool, restart | jobs are opaque |
| `CycleMetrics` | `Cycle` with its metrics and the timers of `measure` | increments since the cycle began |
| `System` | `Cycle` whose goroutines run the jobs of `LateCommit` | composition by joint actions, `EXTENDS LateCommit, Cycle` |
| `SqlSession` | `transaction.Session` on a connection pool | calls in any order |
| `Transactions` | the call pattern of the usecases on `SqlSession` | some sessions may stay free of the pattern |
| `ConnectionPool` | `Transactions` and the readiness probe on one limited pool | adds the pings and their timeout |
| `Traffic` | tables to maps, lines to traffic, traffic to chunks, chunks to columns, the retry of a batch | checked against sums over the lines |
| `Shutdown` | `main`, `httpsrv.Run`, its listener, requests | cycles are opaque |
| `AggregateProofs`, `LateCommitProofs`, `JobMetricsProofs`, `CycleProofs`, `SystemProofs`, `TransactionsProofs`, `TrafficProofs`, `ShutdownProofs` | theorems | section 6 |
| `MC*` | instances for TLC | symmetry sets, sets of numbers, two constraints |

Operators whose comment begins with "Faulty:" are plausible mistakes in the operator below
them. No specification uses them: putting one in the place of its neighbour must break the
property `PROJECT.json` pairs it with, which shows that the property is about the code.

### How the state and the actions correspond to the code

**Aggregate.** `dir`, `tmp`, `tmpDir` are the file system (`storage/flow.go`), `spool` is the
file the collector still writes, `chunks[n][f]` counts the committed chunk lists that contain
the traffic of file `f`, `checkpoint[n]` holds the rows of `flow_batch`. `pc`, `nas`, `enabled`, `committed`,
`todo`, `names`, `rows` and `marks` are locals of a running `Aggregate` and of its open
transaction. Each action is one call that reaches disk or database, together with the pure
code up to the next one. `Decide` is everything between the last rename and the next effect:
streaming, `hasNewFile`, `Result`, `SiftTraffic` and the five ways they end
(`aggregator.go:306-380`). It is one step because nobody else writes `tmp` meanwhile. `Fail`
is any call that returns an error or panics without an effect; calls that may fail with an
effect have actions of their own: `RenameFails` (part of the files moved), `CommitAnswerLost`,
`RemoveOldFails` (any subset left, `tmp` present or not). `Crash` ends all jobs; Postgres
rolls open transactions back.

A file's content is one of four kinds, chosen so that `Result`'s verdict on a batch is a
function of the kinds of its files; module `Traffic` has the rule in full (`VerdictIsSound`).

**LateCommit.** `inDoubt[n]` holds transactions whose client gave up while it waited for the answer to
COMMIT: its call returned an error (`GivenUp`) or its process died (`CrashInDoubt`). Both transactions
of a job that change rows end so (`InCommit`): the one that adds chunks and names (`rows`, `marks`) and the
one of `removeOldFlow` that deletes the names (`freed`). The server later
applies one (`Lands`) or not (`Vanishes`). `SavesFileNames` and `RemovesByNasIP` wait for a transaction in doubt
that holds a row of theirs, as the row locks and the unique index of `flow_batch` make them wait; an insert then goes on,
as `on conflict do nothing` does. `Aggregate` itself has the answer that is lost while the job
still sees its outcome decided (`CommitAnswerLost`).

**JobMetrics.** Each step of `Aggregate` is joined with the counters that the code writes between
this call and the next. `verdict` is the result a job has decided on and counts when
`removeOldFlow` returns (`aggregator.go:322-373`); a job that committed counts "ok" before its clean-up.
Counters of bytes and of chunks are kept per file, as the number of times the file's traffic
was added. `base` is `chunks` when the process started, since counters start from zero with it.

**Cycle.** `main` is where the one goroutine of `Cron.Run` and `Start` is; `mailbox` is a
channel with a buffer of one that may be closed; `slots` is the semaphore, `waitGroup` the
WaitGroup and `gor` where each pool goroutine is among its function and its deferred calls.
`CheckContext` and `AcquireSlot` are two steps, as in `Pool.Go`. A panic in a loading goroutine
is not recovered by the code and ends the process: that is `Restart`.

**CycleMetrics.** Each action joins a step of `Cycle` with the calls of the metrics and of `measure` that
the code makes there; all others are in `Unreporting`. `count` holds increments since the cycle
began, because the properties compare a cycle's own. `listed` says how often a name is in `nameList`.

**System.** `Enters`, `Works`, `Returns` and `Panics` tie a pool goroutine to the job it runs;
`Allowed` makes calls with a done context fail. `Restart` and `CrashInDoubt` are one step. `ServerDecides`
is a step of the server alone, which may come when `main` has returned or a new process works.

**Transactions.** `conns[s]` counts connections of transactions the session began, which lets the
model see one that is lost. `ContextEnds` is `database/sql` rolling back by itself while the
session still believes its transaction active.

**ConnectionPool.** A probe is "waiting" for a connection, "pinging" on one, or gone; one timeout covers both
(`health.go:42`). A step of `Transactions` that takes a connection needs one the pings leave.

**Traffic.** `lines` is history: it is there to state what the accumulator should hold. `Reads`
picks any record or a line that is skipped. Doctets are what `strconv.Atoi` accepts, so they may be negative. `Select` yields the tables a cycle can have loaded:
non-empty, with unique `channel_id`, and unique `ip` and `sess_id`, the keys of the migrations.
A session's `ip` is the text of its column (`SessionIP`), which is looked up in a map whose keys
`net.IP.String()` wrote (`Addr`): a text written otherwise is no key (`ChannelList`).
`SaveChunkList` compares with `MaxInteger` what `session.go:49-53` inserts into INTEGER columns; a batch that is
refused, or that nobody could read, is read again by a later job with the channels and
sessions of that cycle, before the lines that have come since (`ReadsAgain`). `refused` is history too: the
addresses, not the sessions, whose sums did not fit, since an address may pass to another session.

**Shutdown.** `errChan` is "open", "full" or "closed"; `Drained` and `ShutdownTimesOut` are the two
ends of `srv.Shutdown`. A cycle is one place of `main` that `Cycle` shows to end.

## 3. Runs

| run | module, instance | shows |
|---|---|---|
| `aggregate_safety` | `LateCommit`: 1 nas_ip, 3 files, each of any of 4 kinds, each name once, a server that settles | `IInv`, `DoubtMatchesTmp`, `NoDoubleCount`, `ReplaySafe`, `DropsOnlyCountedFiles`, `CheckpointOutlivesFiles`, and that `Accounting` is implemented |
| `late_commit` | `LateCommit`: 1 file, a server that does not settle | counterexample to `NoDoubleCount` |
| `aggregate_reuse` | `JobMetrics`: 2 nas_ip, 2 goroutines, a name of any of 4 kinds delivered twice, one nas_ip at least with internal traffic, 2 jobs per process | `NoDoubleCount` with concurrent jobs and with stale checkpoint rows for a returning name; `MetricsBracketBilling`, `EveryJobReported`, `StuckIsReported` |
| `aggregate_live` | `Aggregate`: 1 nas_ip, 2 files of 4 kinds, fairness | `InternalIsSettled`, `LeftoversAreRemoved` |
| `cleanup_without_tmp` | `Aggregate`: 1 file, fairness | counterexample to `CheckpointIsReleased` |
| `cycle` | `CycleMetrics`: 3 nas_ip, 3 goroutines, pool of 2, fairness | `CycleInv` (with one job per nas_ip), `PoolWithinSize`, `NothingOutlivesCycle`, `CycleReported`, `NamesListedOnce`, `CycleEnds`, `StopsAfterCancel`, `ResultIsComplete`, and that `Rounds` is implemented |
| `started_after_cancel` | `Cycle`: 2 nas_ip, pool of 1 | counterexample to `NotStartedAfterCancel` |
| `system_safety` | `System`: 2 nas_ip with a file each, 2 goroutines, pool of 2, a server that settles, at most one nas_ip with files when a cycle begins | `JobMatchesGoroutine`, and that every behaviour is one of `LateCommit` |
| `transactions` | `ConnectionPool`: 2 usecase functions, 1 free session, 2 probes, 4 connections, fairness | `TransactionsInv`, `NoTransactionLost`, `ReturnsConnection`, `NeverMisused`, `ReserveSuffices`, `HalfStartedAfterFailure`, `AllAnswered` |
| `err_closed` | `Transactions`: 2 free sessions | counterexample to `ErrClosedUnreachable` |
| `traffic` | `Traffic`: 2 clients, 1 external address, 1 unclassifiable, an ip written otherwise, 2 sessions, 2 nas_ip, up to 2 lines of -3, 1 or 2 doctets, columns that hold 1 | `TrafficInv`, `TrafficIsSum`, `VerdictIsSound`, `ChunksBillSessions`, `OverflowBlocksBatch` |
| `shutdown` | `Shutdown`: up to 2 requests, fairness | `ShutdownInv`, `NothingCutShort`, `FailureIsReported`, `ExitsAfterSignal` |

### Bounds, and why they are enough

* `File`: with three files one can be counted, one left behind by a failed clean-up and one
  new at the same time; every rule of `Aggregate` speaks of at most a counted and an uncounted
  file plus the rest of `tmp`. `MaxCaptures` is 1 where names are unique, as the collector's
  timestamps make them, and 2 to see a name come back. The proofs hold for any number.
* `Nas`, `Worker`: jobs of different directories share no variable, so two of each show all
  interference there is in `Aggregate`. `Cycle` needs more goroutines than slots (a goroutine that
  released its slot but is not done yet still has an identity) and more directories than slots.
* `MaxJobs` 2 counts jobs of one process, after which only a new process begins jobs: enough for two at once,
  or one that retries what the other left.
* `System` is cut where no job works and both `nas_ip` have had their file (`OneBusy`): the second file comes while a job
  works, so two jobs with files meet in a cycle, and what one `nas_ip` leaves to later cycles is followed to the end.
  `aggregate_reuse` leaves out instances without internal traffic (`SomeInternal`), in which nothing is billed.
* `MaxOpenConns` 4 for three sessions and two probes is one more than the sessions need: the instance has
  states where the reserve suffices and states where a second ping makes a transaction wait.
  The free session may keep a connection for as long as it likes.
* `MaxLines` 2 and four addresses cover every pair of directions, channels and classification
  failures, a repeated address, and a line after a failure. Doctets of 1, 2 and -3 with `MaxInteger` 1 make
  a line overflow alone, two lines together, a line fall below the column's least value (-2), and a refused batch fit after all;
  they tell sums with a line missing or counted twice apart. Two sessions let an address
  pass from one to the other between a batch and its retry. A batch is retried while it may still grow, which ends the behaviours.
* `MaxRequests` 2: a request that ends and one that does not.

### Where CHECK_DEADLOCK is off

`Aggregate` without the cycle may stop when every name was delivered and a directory is empty;
so may `LateCommit` and `JobMetrics`, the latter
also when a process used up its jobs; `Traffic` stops with its result, `Shutdown` with the process. `Cycle`, `CycleMetrics`, `System`,
`Transactions` and `ConnectionPool` are checked for deadlock.

## 4. Fairness

* Jobs: the ticker starts a cycle each minute and a cycle starts a job for each directory, so
  `Begin` recurs; the collector always has an open file; no call fails each of the infinitely
  many times it is tried, hence strong fairness of each step that succeeds. This is an assumption
  on the environment; the code retries by running the next cycle, without a limit.
* Cycle: goroutines are scheduled, calls and jobs return, the ticker ticks: weak fairness.
  `select` chooses at random between a tick and a done context: strong fairness of `StopCron`. The run uses
  the fairness of `Cycle` for the steps of `CycleMetrics`: reports block nothing (`ReportMovesCycle`, a lemma).
* Transactions: weak fairness of the calls; `database/sql` hands a freed connection to one of the waiting requests at random,
  so a request that waits while connections come free again and again gets one with probability one, hence
  strong fairness of `Started` while the pool has a connection. A probe's timer runs off: weak
  fairness of `ProbeTimesOut`. None for failures, free sessions or answers to pings.
* Shutdown: weak fairness of the goroutines and of the timeout, strong fairness of leaving
  `select`; none for requests, which may last for ever, nor for the listener's failure.

## 5. Findings

Three statements of the repository do not hold of its code, and one protection it describes has a gap;
each is a violation run.

1. `README.md:108-111` (clean-up by a later cycle). If `RemoveOld` deletes `tmp` and cannot make it
   again, later cycles fail at reading `tmp` until a new `ft-*` file arrives, so the rows of
   `flow_batch` stay. Harmless for the counts (`NoDoubleCount` holds), but not what is said.
2. `workerpool.go:52-53` ("fn is not started if the context ended before the slot was
   taken"). Check and `select` are two steps, and a `select` with both branches ready is random.
3. `aggregator.go:488-491`, `README.md:94-101` (the checkpoint keeps files from being counted twice). So it does when
   Postgres has decided on a transaction before the next job of the `nas_ip` loads the
   checkpoint. If a COMMIT whose client is gone lands later, the next job inserts the same
   chunks again, and `on conflict do nothing` hides that the names were there.
4. `session_test.go:58-61` ("ErrClosed is unreachable"). `Start` sets `init` before `BeginTxx` fails.

Seen, and not in reach of a run: the reserve of connections is 3 in `main.go:27-29` while
`README.md:160` and `pgdb/db.go:14` speak of 2.

## 6. Proofs

Every safety invariant, action property and refinement that a passing run checks is also a
theorem, for every value of the constants, except where the table says for which.

| module | theorems | argument |
|---|---|---|
| `AggregateProofs` | `Invariance` (`IInv`), `CountedOnce`, `ReplayIsSafe`, `OnlyCountedFilesDropped`, `CheckpointOutlives` | see below |
| | `Implementation` (`ImplementsAccounting`) | each step maps to a step of `Accounting` or a stutter, for `MaxCaptures = 1`: no name is delivered twice |
| `LateCommitProofs` | `LateInvariance`, `InDoubtIsNextBatch` (`DoubtMatchesTmp`), `LateCountedOnce`, `LateReplayIsSafe` | with the hypothesis `Settles`: what is in doubt is what the next job would save or delete, so landing it is as safe as that job |
| | `LateImplementation`, `LateOnlyCountedFilesDropped`, `LateCheckpointOutlives` | with `Settles`: chunks that land bill the whole of `tmp` and map to `Bill`, a delete that lands finds `tmp` empty (`UnseenRemoval`), all other steps are those of `Aggregate` or leave its state alone |
| `JobMetricsProofs` | `MetricsInvariance`, `BilledIsBracketed` (`MetricsBracketBilling`) | on `IInv`: a file whose chunks are being saved has been accounted once more than it is in `chunks` |
| | `MetricsOnlyWatch`, `MetricsCountOnce` | a step that counts is a step of `Aggregate` |
| | `ReportInvariance`, `JobsAreReported` (`EveryJobReported`), `StuckJobsAreReported` (`StuckIsReported`) | see below |
| `CycleProofs` | `CycleInvariance`, `JobsDoNotOverlap`, `PoolKeepsSize`, `NothingIsLeft` | semaphore and WaitGroup count exactly the goroutines in certain places; before the dispatch none is alive |
| | `CycleIsRounds` (`ImplementsRounds`) | the slots stand for the busy directories; a round closes with no slot taken |
| | `ReportImplementsCycle`, `ReportInvariance`, `CycleIsReported`, `ResultFindsTimersStopped`, `NamesAreListedOnce` | a step that reports is a step of `Cycle`; counts and timers follow from where `main` and the loaders are |
| `SystemProofs` | `SystemInvariance`, `ContractKept`, `GoroutinesMatchJobs` | a goroutine that begins its function has a `nas_ip` no other one has, so `Enter` is a `Begin`; no `Settles` is needed |
| | `SystemCountsOnce`, `SystemDropsOnlyCounted`, `SystemCheckpointOutlives`, `SystemKeepsPromise` | by `ContractKept` the theorems of `LateCommit` apply, with their hypothesis `Settles`, the last for `MaxCaptures = 1` |
| | `SystemRunsCycles`, `JobsFitPool`, `JobsEndWithTheirCycle`, `QuietAtTheEnd` | the system is also a `Cycle`: its bounds on goroutines are bounds on jobs, and once `Cron.Run` has returned nothing changes `tmp`, or the tables but for the server that decides, before a restart |
| `TransactionsProofs` | `TransactionsInvariance`, `TransactionsKept`, `ConnectionsReturned`, `SessionsUsedRight`, `HalfStarted` | each function's place determines whether its session waits, is active or is over |
| | `PoolImplements`, `PoolReturnsConnection`, `ReserveIsEnough` (`ReserveSuffices`) | a ping leaves sessions alone, so `ConnectionPool` implements `Transactions`; each session holds at most one connection and one that waits holds none, so with one waiting the sessions hold fewer than they are |
| `TrafficProofs` | `TrafficInvariance` (`TrafficInv`), `TrafficIsSummed`, `VerdictsAreSound`, `SessionsAreBilled`, `OverflowBlocks` | see below |
| `ShutdownProofs` | `ShutdownInvariance`, `RequestsAreDrained`, `FailuresAreReported` | the places of the three goroutines and the channel determine each other |

**Why `NoDoubleCount` needs an invariant.** A file could be counted twice if a job counted a copy that
an earlier job had counted. `ReplaySafe` says that each copy a later job would still count has a
delivery of its own that is not in a chunk list. It is preserved because a job uses what it read
earlier as if it were current: `Snapshot` says that it is (the checkpoint it loaded is the one in the
database; its names are the files in `tmp`; its rows are the names it had not seen committed), which
needs `JobInv`, one job per `nas_ip`. `Removal` says that `tmp` is about to be emptied
only when nothing in it is still to count, which gives `DropsOnlyCountedFiles`.

**Traffic sums.** A sum of bytes over lines is stated as the number of pairs of a line and a place
in it (`Bytes`), less the number of those that negative doctets take back (`BytesBack`), so it needs no recursion: appending a line adds a set of new pairs
(`BoxesGrow`, `TotalGrows`), and what `CountTraffic` adds to the map is the size of that set. `LongerBatch`
says that a longer batch without negative doctets has sums at least as large, which is why what was refused stays too
much (`RefusedInv`): a retried batch begins with the one before (`BacklogInv`), whatever
channels and sessions the later cycle loads. With negative doctets the sums may shrink again, hence
`Unsigned` in `OverflowBlocksBatch`; the other properties need no such hypothesis.

**Reports of jobs.** `EveryJobReported` equates counters with each other while some jobs are between two
of them, so it counts the jobs in such places (`Saving`, `Unsifted` and the like). `VerdictInv` says which result a job in
each place has decided on. Each counter of a step has a lemma on what it adds, each set of jobs one on
what a step of one job changes (`OneMember`, `Membership`), and `BalancedStep` shows that the two
cancel for every way out of `Aggregate`. `StuckIsReported` is a property of steps: of the ways in which a job
ends, those that count no failure leave no file in `tmp` that is neither in the checkpoint nor settled otherwise (`Unsettled`, `CleanUpLeavesNothing`, `RemovalEffect`).

**Assumptions.** The named `ASSUME`s only: `NoNas` is no directory, contents are among the four
kinds, bounds are naturals, doctets are integers, `PoolSize` and `MaxOpenConns` are at least 1 (`workerpool.New` raises
smaller sizes), free sessions are sessions, internal clients are addresses, and the sets that are counted (goroutines, sessions, probes)
are finite. `Implementation`, `SystemKeepsPromise` and `LateImplementation` have the hypothesis `MaxCaptures = 1` and the
theorems of `LateCommitProofs`, with those of `SystemProofs` that rest on them, have `Settles`; the other theorems of `Aggregate` hold
for any number of deliveries of a name.
All proofs are about specifications without fairness.

**Only model-checked.** Liveness: `InternalIsSettled`, `LeftoversAreRemoved`, `CycleEnds`,
`StopsAfterCancel`, `AllAnswered`, `ExitsAfterSignal`, since fairness and `ENABLED` are beyond the
prover. The counterexamples of section 5 are TLC's.

## 7. Limits of the models

* Whether Postgres settles is an assumption of the theorems on late commits and of those on the whole system's files, not a result: nothing in the code ensures it.
* Names that come back lose files by design of `rename` and of the checkpoint;
  only that they are never counted twice is shown.
* Overflow is that of the columns. Go's `int` is unbounded here: a sum of NetFlow's 32-bit counts needs 2^31 lines in
  one batch to pass 64 bits, though `strconv.Atoi` would accept larger numbers.
* Text parsing is "parsed or skipped"; scanner limits are the kind "broken".
* Files nobody can read and lines the scanner cannot hold stay in `tmp`, the latter with all that is beside them.
  That is what the code does, so liveness is stated without them; that such a job is seen in the metrics
  (`StuckIsReported`) and loses nothing (`DropsOnlyCountedFiles`) is shown with them.
* Without `MEASURE=enable` the names of `measure` pile up for as long as the process lives; `NamesListedOnce` is about the other case.
* A job that panics while it cleans up after its commit is counted as "ok" and as a panic, so the properties of
  `JobMetrics` bound counts from both sides by `workerPanics` instead of equating them.
* `ResultIsComplete` and `NamesListedOnce` are about the one `measure` instance of `Start`; the
  instance each job makes is seen by no other goroutine.

### Not modelled

* Gauges that are set to a value at hand (`SetNASDiscovered`, `SetPoolSize`, the build), the histogram of
  flow sizes and the http handler of the metrics: nothing relates them to other state.
* Logging, tracing and `dump`: output only. Configuration and wiring: read once at start.
* The subnet file: read once into a trie of an external library; `Traffic` has its result as a constant.
* `flowgen`, `loadgen`: development tools. Mocks: generated. `sqlnull` and `gensql.Get`: not called by the modelled code.

## 8. Plan

The order was that of what a mistake costs: `Aggregate` with `Accounting`, then `Cycle` and `System`, on whose
contract it rests, then sessions, traffic and shutdown; after them the server that
decides late, the metrics of jobs and cycles, the width of the columns, the
connections that the probe shares, and `Rounds`, the abstract cycle.

Next, in order of weight:

1. The metrics of jobs in the whole system: `System` with `JobMetrics`, and with commits that land late, so that what `CycleMetrics` and `JobMetrics`
   count can be related.
2. The invariants that the liveness properties rest on, stated as safety: that a stuck job has
   a step that ends it.
