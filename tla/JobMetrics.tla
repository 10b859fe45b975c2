----------------------------- MODULE JobMetrics -----------------------------
(***************************************************************************)
(* Module Aggregate with the metrics a job leaves behind: how it ended, at *)
(* which stage it failed, how long its phases took, what it accounted and  *)
(* what it saved.  They are all an operator sees of a job, live in memory  *)
(* and start from zero with the process, and they are written at other     *)
(* moments than the database changes: the traffic before the transaction,  *)
(* the result before or after the clean-up.                                *)
(***************************************************************************)
EXTENDS Aggregate, FiniteSets

CONSTANT MaxJobs    \* bound: jobs of one process

ASSUME MaxJobsAssumption == MaxJobs \in Nat
ASSUME WorkerAssumption == IsFiniteSet(Worker)

Result == {"ok", "no_new", "no_internal", "unrecognized", "error"}
Stage == {"checkpoint", "prepare", "parse", "sift", "save"}
Phase == {"stream_flow", "sift_traffic", "save_chunks"}

VARIABLES
    nasProcessed,       \* [Result -> Nat], aggregator_nas_processed_total
    nasErrors,          \* [Stage -> Nat], aggregator_nas_errors_total
    nasPhase,           \* [Phase -> Nat], observations of aggregator_nas_phase_duration_seconds
    workerPanics,       \* aggregator_worker_panics_total
    accountedTraffic,   \* [Nas -> [File -> Nat]], how often the file's traffic was added to it
    chunksSaved,        \* [Nas -> [File -> Nat]], how often its chunks were added to it
    verdict,            \* [Worker -> Result or "none"], to be counted when removeOldFlow returns
    entered,            \* history: jobs of this process
    base                \* history: chunks when this process started

counters == <<nasProcessed, nasErrors, nasPhase, workerPanics, accountedTraffic, chunksSaved>>
history == <<entered, base>>
metricVars == <<counters, verdict, history>>

Zero(S) == [s \in S |-> 0]
NothingCounted == [n \in Nas |-> Zero(File)]
NoVerdict == [w \in Worker |-> "none"]

\* metrics.New creates every series at zero.
MetricsInit ==
    /\ Init
    /\ nasProcessed = Zero(Result)
    /\ nasErrors = Zero(Stage)
    /\ nasPhase = Zero(Phase)
    /\ workerPanics = 0
    /\ accountedTraffic = NothingCounted
    /\ chunksSaved = NothingCounted
    /\ verdict = NoVerdict
    /\ entered = 0
    /\ base = NothingCounted

-----------------------------------------------------------------------------
(***************************************************************************)
(* The methods of the metrics.                                             *)
(***************************************************************************)
IncNAS(r) == nasProcessed' = [nasProcessed EXCEPT ![r] = @ + 1]

IncNASError(s) == nasErrors' = [nasErrors EXCEPT ![s] = @ + 1]

ObserveNASPhase(P) == nasPhase' = [p \in Phase |-> nasPhase[p] + IF p \in P THEN 1 ELSE 0]

Add(metric, n, files) ==
    [metric EXCEPT ![n] = [f \in File |-> @[f] + IF f \in files THEN 1 ELSE 0]]

AddAccountedTraffic(n, files) == accountedTraffic' = Add(accountedTraffic, n, files)

AddChunksSaved(n, files) == chunksSaved' = Add(chunksSaved, n, files)

NasFailed(s) == IncNASError(s) /\ IncNAS("error")

Forget(w) == verdict' = [verdict EXCEPT ![w] = "none"]

-----------------------------------------------------------------------------
(***************************************************************************)
(* The steps of Aggregate with what they count.                            *)
(***************************************************************************)
StartsJob(w, n, e) ==
    /\ entered < MaxJobs
    /\ Begin(w, n, e)
    /\ entered' = entered + 1
    /\ UNCHANGED <<counters, verdict, base>>

\* Calls that write no metric.
Silent(w) ==
    \/ LoadCommittedFileNames(w)
    \/ ReadFileNamesInFlowDir(w)
    \/ Move(w)
    \/ SaveChunkList(w)
    \/ SaveFileNames(w)
    \/ RemoveOld(w)

\* The result of a job that only cleans up is written after the clean-up.
CleansUp(w, r, phases) ==
    /\ verdict' = [verdict EXCEPT ![w] = r]
    /\ ObserveNASPhase(phases)
    /\ UNCHANGED <<nasProcessed, nasErrors, workerPanics, accountedTraffic, chunksSaved, history>>

FindsNoNewFile(w) == NoNewFile(w) /\ CleansUp(w, "no_new", {"stream_flow"})

FindsNoInternal(w) == NoInternalTraffic(w) /\ CleansUp(w, "no_internal", {"stream_flow"})

SiftsNothing(w) == SiftNothing(w) /\ CleansUp(w, "error", {"stream_flow", "sift_traffic"})

FindsUnrecognized(w) ==
    /\ Unrecognized(w)
    /\ IncNASError("parse")
    /\ IncNAS("unrecognized")
    /\ ObserveNASPhase({"stream_flow"})
    /\ UNCHANGED <<workerPanics, accountedTraffic, chunksSaved, verdict, history>>

\* Faulty: the traffic is left to be accounted with the saved chunks.
AccountsLater(w) ==
    /\ SiftTraffic(w)
    /\ ObserveNASPhase({"stream_flow", "sift_traffic"})
    /\ UNCHANGED <<nasProcessed, nasErrors, workerPanics, accountedTraffic, chunksSaved, verdict,
                   history>>

\* The traffic is accounted before the transaction that saves it.
AccountsTraffic(w) ==
    /\ SiftTraffic(w)
    /\ ObserveNASPhase({"stream_flow", "sift_traffic"})
    /\ AddAccountedTraffic(nas[w], Fresh(w))
    /\ UNCHANGED <<nasProcessed, nasErrors, workerPanics, chunksSaved, verdict, history>>

\* The chunks and the result are counted before the clean-up.
SavesChunks(w) ==
    /\ Commit(w)
    /\ ObserveNASPhase({"save_chunks"})
    /\ AddChunksSaved(nas[w], rows[w])
    /\ IncNAS("ok")
    /\ UNCHANGED <<nasErrors, workerPanics, accountedTraffic, verdict, history>>

\* Faulty: commitChunks returns its error without nasFailed.
SaveFailedUnreported ==
    /\ ObserveNASPhase({"save_chunks"})
    /\ UNCHANGED <<nasProcessed, nasErrors>>

\* commitChunks returns an error.
SaveFailed ==
    /\ ObserveNASPhase({"save_chunks"})
    /\ NasFailed("save")

LosesCommitAnswer(w) ==
    /\ CommitAnswerLost(w)
    /\ SaveFailed
    /\ UNCHANGED <<workerPanics, accountedTraffic, chunksSaved, verdict, history>>

\* removeOldFlow returns, whether or not it did its work: it has no result.
RemovalReturns(w) ==
    /\ Forget(w)
    /\ \/ verdict[w] = "none" /\ UNCHANGED <<nasProcessed, nasErrors>>
       \/ verdict[w] \in {"no_new", "no_internal"} /\ IncNAS(verdict[w]) /\ UNCHANGED nasErrors
       \/ verdict[w] = "error" /\ NasFailed("sift")
    /\ UNCHANGED <<nasPhase, workerPanics, accountedTraffic, chunksSaved, history>>

RemovalEnds(w) == (RemoveByNasIP(w) \/ RemoveOldFails(w)) /\ RemovalReturns(w)

\* Faulty: a job is counted as failed at its stage, but in nas_errors only.
StageFailsUncounted(w) ==
    \/ pc[w] = "load" /\ IncNASError("checkpoint") /\ UNCHANGED <<nasProcessed, nasPhase>>
    \/ pc[w] \in {"list", "move"} /\ NasFailed("prepare") /\ ObserveNASPhase({"stream_flow"})
    \/ pc[w] \in {"saveChunks", "saveNames", "commit"} /\ SaveFailed

StageFails(w) ==
    \/ pc[w] = "load" /\ NasFailed("checkpoint") /\ UNCHANGED nasPhase
    \/ pc[w] \in {"list", "move"} /\ NasFailed("prepare") /\ ObserveNASPhase({"stream_flow"})
    \/ pc[w] \in {"saveChunks", "saveNames", "commit"} /\ SaveFailed

\* A call returns an error: to Aggregate, or to removeOldFlow.
ReturnsError(w) ==
    /\ Fail(w) \/ RenameFails(w)
    /\ \/ /\ StageFails(w)
          /\ UNCHANGED <<workerPanics, accountedTraffic, chunksSaved, verdict, history>>
       \/ pc[w] \in {"removeOld", "removeCheckpoint"} /\ RemovalReturns(w)

\* The pool recovers the goroutine and only the panic is counted.
Panics(w) ==
    /\ Fail(w)
    /\ workerPanics' = workerPanics + 1
    /\ Forget(w)
    /\ UNCHANGED <<nasProcessed, nasErrors, nasPhase, accountedTraffic, chunksSaved, history>>

\* The process starts again.
Restarts ==
    /\ Crash
    /\ nasProcessed' = Zero(Result)
    /\ nasErrors' = Zero(Stage)
    /\ nasPhase' = Zero(Phase)
    /\ workerPanics' = 0
    /\ accountedTraffic' = NothingCounted
    /\ chunksSaved' = NothingCounted
    /\ verdict' = NoVerdict
    /\ entered' = 0
    /\ base' = chunks

CountedStep(w) ==
    \/ Silent(w) /\ UNCHANGED metricVars
    \/ FindsNoNewFile(w)
    \/ FindsNoInternal(w)
    \/ SiftsNothing(w)
    \/ FindsUnrecognized(w)
    \/ AccountsTraffic(w)
    \/ SavesChunks(w)
    \/ LosesCommitAnswer(w)
    \/ RemovalEnds(w)
    \/ ReturnsError(w)
    \/ Panics(w)

MetricsNext ==
    \/ \E n \in Nas : Collector(n) /\ UNCHANGED metricVars
    \/ \E w \in Worker, n \in Nas, e \in BOOLEAN : StartsJob(w, n, e)
    \/ \E w \in Worker : CountedStep(w)
    \/ Restarts

MetricsSpec == MetricsInit /\ [][MetricsNext]_<<vars, metricVars>>

-----------------------------------------------------------------------------
(***************************************************************************)
(* Properties.                                                             *)
(***************************************************************************)

\* aggregator_chunks_saved_total never claims more than this process committed, and
\* aggregator_accounted_traffic_bytes_total, written before the commit, never less:
\* what is billed lies between the two, also when a commit fails, is retried, or
\* succeeds without its answer (src/src/internal/usecase/aggregator.go:382-393).
MetricsBracketBilling ==
    \A n \in Nas, f \in File :
        /\ base[n][f] + chunksSaved[n][f] <= chunks[n][f]
        /\ chunks[n][f] <= base[n][f] + accountedTraffic[n][f]

Processed ==
    nasProcessed["ok"] + nasProcessed["no_new"] + nasProcessed["no_internal"]
        + nasProcessed["unrecognized"] + nasProcessed["error"]

Errors ==
    nasErrors["checkpoint"] + nasErrors["prepare"] + nasErrors["parse"]
        + nasErrors["sift"] + nasErrors["save"]

\* Jobs whose result is not counted yet: all but those that clean up after a commit.
Unreported ==
    {w \in Worker : /\ nas[w] # NoNas
                    /\ pc[w] \in {"removeOld", "removeCheckpoint"} => verdict[w] # "none"}

\* Every job is counted once in aggregator_nas_processed_total, or panicked, and a
\* job in aggregator_nas_errors_total is counted there as failed or unrecognized: the
\* ratio that AggregatorNASErrorRateHigh reads is a share of the jobs.
OutcomesAddUp ==
    /\ Processed + Cardinality(Unreported) <= entered
    /\ entered <= Processed + Cardinality(Unreported) + workerPanics
    /\ Errors = nasProcessed["error"] + nasProcessed["unrecognized"]

Saving == {w \in Worker : pc[w] \in {"saveChunks", "saveNames", "commit"}}

Unsifted == {w \in Worker : verdict[w] = "error"}

\* A phase is observed once per attempt, also when it fails: each transaction ends as
\* ok or as an error of stage save, and what was sifted is saved, being saved, or an
\* error of stage sift, unless the worker panicked.
PhasesAddUp ==
    LET sifted == nasPhase["save_chunks"] + nasErrors["sift"]
                    + Cardinality(Saving) + Cardinality(Unsifted)
    IN  /\ nasPhase["save_chunks"] = nasProcessed["ok"] + nasErrors["save"]
        /\ sifted <= nasPhase["sift_traffic"]
        /\ nasPhase["sift_traffic"] <= sifted + workerPanics

\* What the metrics say of jobs, stages and phases agrees, on whichever of its paths a
\* job ends (src/docs/monitoring/alerts.yml:43-56,
\* src/src/internal/usecase/aggregator.go:295-454).
EveryJobReported == OutcomesAddUp /\ PhasesAddUp

\* Files that nothing but a saved batch may take out of sight: with internal traffic, or
\* with a line that streaming stops at, whose traffic nobody knows.
Unsettled == {"internal", "broken"}

\* A job that ends and leaves a file with internal traffic uncounted in tmp, or one that
\* holds up all the others there (src/src/internal/repository/storage/flow.go:126-147), is
\* seen in aggregator_nas_errors_total or aggregator_worker_panics_total; only a process
\* that dies says nothing.
StuckIsReported ==
    [][\A w \in Worker :
          (/\ nas[w] # NoNas
           /\ nas'[w] = NoNas
           /\ entered' = entered
           /\ \E f \in tmp'[nas[w]] \ checkpoint'[nas[w]] : content[nas[w]][f] \in Unsettled)
          => Errors' > Errors \/ workerPanics' > workerPanics]_<<vars, metricVars>>

(***************************************************************************)
(* The inductive invariant behind the two, beside that of Aggregate.       *)
(***************************************************************************)
ReportTypeOK ==
    /\ nasProcessed \in [Result -> Nat]
    /\ nasErrors \in [Stage -> Nat]
    /\ nasPhase \in [Phase -> Nat]
    /\ workerPanics \in Nat
    /\ entered \in Nat
    /\ verdict \in [Worker -> {"none", "no_new", "no_internal", "error"}]

\* A verdict waits for the clean-up, and without the one that is an error the clean-up
\* deletes no unsettled file.
VerdictInv(w) ==
    /\ verdict[w] # "none" => pc[w] \in {"removeOld", "removeCheckpoint"}
    /\ pc[w] = "removeOld" /\ verdict[w] # "error" =>
          \A f \in tmp[nas[w]] \ checkpoint[nas[w]] : content[nas[w]][f] \notin Unsettled
    /\ nas[w] # NoNas => entered > 0

ReportInv == ReportTypeOK /\ EveryJobReported /\ \A w \in Worker : VerdictInv(w)
=============================================================================
