---------------------------- MODULE CycleMetrics ----------------------------
(***************************************************************************)
(* Module Cycle with what AggregatorUsecase.Start reports of a cycle: the  *)
(* metrics the alerts read, of which the increments since the cycle began  *)
(* are kept, and the timers of tools/measure, whose one instance serves    *)
(* the whole process.  Start and both loading goroutines write them.       *)
(***************************************************************************)
EXTENDS Cycle

Reason == {"dirs_read", "nil_maps"}
CyclePhase == {"read_dirs", "load_channels", "load_sessions"}
Series == Reason \cup CyclePhase \cup {"cycles", "success"}
Timer == Loader \cup {"dirs"}

VARIABLES
    inProgress,     \* aggregator_cycle_in_progress
    count,          \* [Series -> Nat], increments since the cycle began
    measuring,      \* MEASURE=enable, never changes
    timer,          \* [Timer -> "none", "running" or "stopped"], measure.data
    listed,         \* [Timer -> "no", "once" or "again"], its places in measure.nameList
    early           \* history: a cycle ended before its dispatch since the last Result

timers == <<timer, listed, early>>
reportVars == <<inProgress, count, measuring, timers>>

NoCounts == [s \in Series |-> 0]

\* metrics.New and measure.NewMeasure.
NewReports ==
    /\ inProgress = FALSE
    /\ count = NoCounts
    /\ timer = [t \in Timer |-> "none"]
    /\ listed = [t \in Timer |-> "no"]
    /\ early = FALSE

ReportInit == CycleInit /\ NewReports /\ measuring \in BOOLEAN

-----------------------------------------------------------------------------
(***************************************************************************)
(* The calls of the metrics and of measure.                                *)
(***************************************************************************)
Increments(S) == count' = [s \in Series |-> count[s] + IF s \in S THEN 1 ELSE 0]

\* measure.Start: the entry is replaced, the name is appended.
TimerStarts(t, state) ==
    /\ timer' = [timer EXCEPT ![t] = state]
    /\ listed' = [listed EXCEPT ![t] = IF @ = "no" THEN "once" ELSE "again"]
    /\ UNCHANGED early

TimerStops(t) ==
    /\ timer' = [timer EXCEPT ![t] = "stopped"]
    /\ UNCHANGED <<listed, early>>

\* Faulty: the names are printed but not reset.
ResultKeepsNames ==
    /\ early' = FALSE
    /\ timer' = IF measuring THEN [t \in Timer |-> "none"] ELSE timer
    /\ UNCHANGED listed

\* measure.Result does nothing, not even reset, unless MEASURE=enable.
MeasureResult ==
    /\ early' = FALSE
    /\ timer' = IF measuring THEN [t \in Timer |-> "none"] ELSE timer
    /\ listed' = IF measuring THEN [t \in Timer |-> "no"] ELSE listed

\* observeCycle, deferred by Start: cycleOK makes it a success.
ObserveCycle(S) == Increments({"cycles"} \cup S) /\ inProgress' = FALSE

-----------------------------------------------------------------------------
(***************************************************************************)
(* The steps of the cycle with what they report.                           *)
(***************************************************************************)
BeginsReport ==
    /\ StartCycle
    /\ inProgress' = TRUE
    /\ count' = NoCounts
    /\ UNCHANGED <<measuring, timers>>

ReadsDirs ==
    /\ ReadFlowDirNames
    /\ Increments({"read_dirs"})
    /\ TimerStarts("dirs", "stopped")
    /\ UNCHANGED <<inProgress, measuring>>

\* The phase is observed on failure too, the timer is left running.
CannotReadDirs ==
    /\ ReadFlowDirNamesFails
    /\ Increments({"read_dirs", "dirs_read"})
    /\ TimerStarts("dirs", "running")
    /\ UNCHANGED <<inProgress, measuring>>

EndsWithoutDirs ==
    /\ ReturnAfterDirsError
    /\ ObserveCycle({})
    /\ early' = TRUE
    /\ UNCHANGED <<measuring, timer, listed>>

LoaderTimed(l) ==
    /\ LoaderBegins(l)
    /\ TimerStarts(l, "running")
    /\ UNCHANGED <<inProgress, count, measuring>>

\* The deferred Stop comes before the deferred Rollback.
LoaderStops(l) ==
    /\ LoaderRollsBack(l)
    /\ TimerStops(l)
    /\ UNCHANGED <<inProgress, count, measuring>>

LoaderObserved(l) ==
    /\ LoaderCloses(l)
    /\ Increments({IF l = "channels" THEN "load_channels" ELSE "load_sessions"})
    /\ UNCHANGED <<inProgress, measuring, timers>>

EndsWithoutMaps ==
    /\ JoinLoaders
    /\ main' = "select"
    /\ ObserveCycle({"nil_maps"})
    /\ early' = TRUE
    /\ UNCHANGED <<measuring, timer, listed>>

ReachesDispatch ==
    /\ JoinLoaders
    /\ main' = "range"
    /\ MeasureResult
    /\ UNCHANGED <<inProgress, count, measuring>>

EndsCycleOK ==
    /\ ReturnFromWait
    /\ ObserveCycle({"success"})
    /\ UNCHANGED <<measuring, timers>>

Unreporting ==
    \/ Tick
    \/ Cancel
    \/ StopCron
    \/ ReceiveChannels
    \/ ReceiveSessions
    \/ \E n \in Nas : NextDir(n) \/ SkipDir(n)
    \/ EndOfDirs
    \/ CheckContext
    \/ StopDispatch
    \/ \E l \in Loader :
          LoaderCannotBegin(l) \/ LoaderQueries(l) \/ LoaderQueryFails(l) \/ LoaderSends(l)
    \/ \E w \in Worker :
          AcquireSlot(w) \/ JobBegins(w) \/ JobReturns(w) \/ JobPanics(w) \/ Leave(w)

NewProcess ==
    /\ Restart
    /\ inProgress' = FALSE
    /\ count' = NoCounts
    /\ timer' = [t \in Timer |-> "none"]
    /\ listed' = [t \in Timer |-> "no"]
    /\ early' = FALSE
    /\ UNCHANGED measuring

ReportNext ==
    \/ Unreporting /\ UNCHANGED reportVars
    \/ BeginsReport
    \/ ReadsDirs
    \/ CannotReadDirs
    \/ EndsWithoutDirs
    \/ EndsWithoutMaps
    \/ ReachesDispatch
    \/ EndsCycleOK
    \/ \E l \in Loader : LoaderTimed(l) \/ LoaderStops(l) \/ LoaderObserved(l)
    \/ NewProcess

ReportSpec == ReportInit /\ [][ReportNext]_<<cycleVars, reportVars>>

\* Reports hold no step back, so Cycle's fairness is theirs.
FairReportSpec == ReportSpec /\ CycleFairness

-----------------------------------------------------------------------------
(***************************************************************************)
(* Properties.                                                             *)
(***************************************************************************)

\* What the alerts read of a cycle (src/docs/monitoring/alerts.yml:22-41): the gauge is
\* up exactly while Start runs, and a cycle that ended has been observed once, with
\* each of its phases, two of which other goroutines write, and with one outcome, a
\* success or one reason.
CycleReported ==
    /\ inProgress <=> main \notin {"select", "returned"}
    /\ inProgress => count["cycles"] = 0 /\ count["success"] = 0
    /\ count["cycles"] > 0 =>
          /\ count["cycles"] = 1
          /\ \A p \in CyclePhase : count[p] = 1
          /\ count["success"] + count["dirs_read"] + count["nil_maps"] = 1

\* The loaders' deferred calls run before Start goes on
\* (src/src/internal/usecase/aggregator.go:166-167): Result finds every timer stopped.
ResultIsComplete ==
    [][main = "join" /\ main' = "range" =>
          \A t \in Timer : timer[t] = "stopped"]_<<cycleVars, reportVars>>

\* The instance is one for all cycles, where measure.go:11-12 asks for one per
\* controlling function.  With MEASURE=enable a name is listed twice only after a cycle
\* that ended before its Result; without it every cycle lists its names again.
NamesListedOnce == measuring /\ ~early => \A t \in Timer : listed[t] # "again"
=============================================================================
