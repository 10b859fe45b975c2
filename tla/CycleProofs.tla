---------------------------- MODULE CycleProofs -----------------------------
(***************************************************************************)
(* Proofs about modules Cycle and CycleMetrics: CycleInv is inductive, so  *)
(* in every deployment no nas_ip has two jobs, the pool keeps its size and *)
(* nothing of a cycle is left when Cron.Run waits for the next tick; and   *)
(* what a cycle reports of itself is true of it.                           *)
(***************************************************************************)
EXTENDS CycleMetrics, FiniteSetTheorems, TLAPS

USE DEF signals, loading, dispatch, pool, cycleVars

LEMMA InitHolds == CycleInit => CycleInv
<1> SUFFICES ASSUME CycleInit PROVE CycleInv
  OBVIOUS
<1> USE DEF CycleInit, NewPool
<1>1. CycleTypeOK
  BY NoNasAssumption DEF CycleTypeOK, MainStep, LoaderStep, GorStep, Loader
<1>2. PoolInv
  BY FS_EmptySet, PoolSizeAssumption DEF PoolInv
<1>3. PhaseInv /\ OneJobPerNas
  BY NoNasAssumption DEF PhaseInv, OneJobPerNas, Alive, LoadersDone, WhileLoading
<1> QED
  BY <1>1, <1>2, <1>3 DEF CycleInv

\* The steps of the loading goroutines touch nothing else.
LEMMA LoaderStepKeeps ==
    ASSUME CycleInv, NEW l \in Loader, LoadStep(l)
    PROVE  CycleInv'
<1> USE DEF LoadStep, LoaderGoto, LoaderBegins, LoaderCannotBegin, LoaderQueries, LoaderQueryFails,
        LoaderSends, LoaderRollsBack, LoaderCloses
<1>1. CycleTypeOK'
  BY DEF CycleInv, CycleTypeOK, LoaderStep
<1>2. PoolInv' /\ OneJobPerNas'
  BY DEF CycleInv, PoolInv, OneJobPerNas, Alive
<1>3. PhaseInv'
  <2>1. main \in WhileLoading
    BY DEF CycleInv, CycleTypeOK, PhaseInv, LoadersDone
  <2> QED
    BY <2>1 DEF CycleInv, PhaseInv, Alive, BeforeDispatch, WhileLoading, LoadersDone
<1> QED
  BY <1>1, <1>2, <1>3 DEF CycleInv

\* The ticker, the signal, and the two ends of the select of Cron.Run.
LEMMA CronStepKeeps ==
    ASSUME CycleInv,
           Tick \/ Cancel \/ StartCycle \/ StopCron
    PROVE  CycleInv'
<1> USE DEF Tick, Cancel, StartCycle, StopCron
<1>1. CycleTypeOK'
  <2> USE DEF CycleInv, CycleTypeOK, MainStep
  <2>1. CASE StartCycle
    BY <2>1 DEF LoaderStep
  <2>2. CASE Tick \/ Cancel \/ StopCron
    BY <2>2
  <2> QED
    BY <2>1, <2>2
<1>2. PoolInv'
  BY DEF CycleInv, PoolInv
<1>3. PhaseInv'
  BY NoNasAssumption
  DEF CycleInv, CycleTypeOK, PoolInv, PhaseInv, Alive, BeforeDispatch, WhileLoading, LoadersDone
<1>4. OneJobPerNas'
  BY NoNasAssumption DEF CycleInv, CycleTypeOK, PoolInv, PhaseInv, OneJobPerNas, Alive, BeforeDispatch
<1> QED
  BY <1>1, <1>2, <1>3, <1>4 DEF CycleInv

\* Start up to the dispatch loop.
LEMMA LoadingStepKeeps ==
    ASSUME CycleInv,
           \/ ReadFlowDirNames \/ ReadFlowDirNamesFails \/ ReturnAfterDirsError
           \/ ReceiveChannels \/ ReceiveSessions \/ JoinLoaders
    PROVE  CycleInv'
<1> USE DEF ReadFlowDirNames, ReadFlowDirNamesFails, ReturnAfterDirsError, ReceiveChannels,
        ReceiveSessions, JoinLoaders, Receive
<1>1. CycleTypeOK'
  BY DEF CycleInv, CycleTypeOK, MainStep, Loader
<1>2. PoolInv'
  BY DEF CycleInv, PoolInv
<1>3. PhaseInv'
  BY NoNasAssumption
  DEF CycleInv, CycleTypeOK, PoolInv, PhaseInv, Alive, BeforeDispatch, WhileLoading, LoadersDone
<1>4. OneJobPerNas'
  BY NoNasAssumption DEF CycleInv, CycleTypeOK, PoolInv, PhaseInv, OneJobPerNas, Alive, BeforeDispatch
<1> QED
  BY <1>1, <1>2, <1>3, <1>4 DEF CycleInv

\* The dispatch loop, save for the start of a function.
LEMMA DispatchStepKeeps ==
    ASSUME CycleInv,
           \/ \E n \in Nas : NextDir(n) \/ SkipDir(n)
           \/ EndOfDirs \/ CheckContext \/ StopDispatch \/ ReturnFromWait
    PROVE  CycleInv'
<1> USE DEF NextDir, SkipDir, EndOfDirs, CheckContext, StopDispatch, ReturnFromWait
<1>1. CycleTypeOK'
  BY DEF CycleInv, CycleTypeOK, MainStep
<1>2. PoolInv'
  BY DEF CycleInv, PoolInv
<1>3. PhaseInv'
  BY NoNasAssumption
  DEF CycleInv, CycleTypeOK, PoolInv, PhaseInv, Alive, BeforeDispatch, WhileLoading, LoadersDone
<1>4. OneJobPerNas'
  BY NoNasAssumption DEF CycleInv, CycleTypeOK, PoolInv, PhaseInv, OneJobPerNas, Alive, BeforeDispatch
<1> QED
  BY <1>1, <1>2, <1>3, <1>4 DEF CycleInv

\* A function is started only while a slot is free.
LEMMA AcquireKeeps ==
    ASSUME CycleInv, NEW w \in Worker, AcquireSlot(w)
    PROVE  CycleInv'
<1> USE DEF AcquireSlot, Spawn
<1>1. CycleTypeOK'
  BY DEF CycleInv, CycleTypeOK, MainStep, GorStep
<1>2. PoolInv'
  <2>1. w \notin slots /\ IsFiniteSet(slots)
    BY DEF CycleInv, PoolInv
  <2>2. IsFiniteSet(slots') /\ Cardinality(slots') = Cardinality(slots) + 1
    BY <2>1, FS_AddElement
  <2>3. Cardinality(slots') <= PoolSize
    BY <2>1, <2>2, FS_CardinalityType, PoolSizeAssumption
  <2>4. target \in Nas
    BY DEF CycleInv, CycleTypeOK, PhaseInv
  <2> QED
    BY <2>2, <2>3, <2>4, NoNasAssumption DEF CycleInv, CycleTypeOK, PoolInv
<1>3. PhaseInv'
  BY NoNasAssumption
  DEF CycleInv, CycleTypeOK, PhaseInv, Alive, BeforeDispatch, WhileLoading, LoadersDone
<1>4. OneJobPerNas'
  <2>1. target \in Nas /\ target \notin dirList
    BY DEF CycleInv, CycleTypeOK, PhaseInv
  <2>2. Alive' = Alive \cup {w} /\ w \notin Alive
    BY DEF CycleInv, CycleTypeOK, Alive
  <2>3. task'[w] = target /\ \A v \in Alive : v # w /\ task'[v] = task[v]
    BY <2>2 DEF CycleInv, CycleTypeOK, Alive
  <2>4. \A v \in Alive : task[v] \in Nas /\ task[v] # target /\ task[v] \notin dirList
    BY DEF CycleInv, CycleTypeOK, PoolInv, OneJobPerNas, Alive
  <2>5. \A u, v \in Alive' : task'[u] = task'[v] => u = v
    BY <2>2, <2>3, <2>4 DEF CycleInv, OneJobPerNas
  <2>6. \A v \in Alive' : task'[v] \notin dirList' \cup {target'}
    BY <2>1, <2>2, <2>3, <2>4, NoNasAssumption
  <2> QED
    BY <2>5, <2>6 DEF OneJobPerNas
<1> QED
  BY <1>1, <1>2, <1>3, <1>4 DEF CycleInv

\* A goroutine on its way through its function and its deferred calls.
LEMMA GoroutineStepKeeps ==
    ASSUME CycleInv, NEW w \in Worker,
           JobBegins(w) \/ JobReturns(w) \/ JobPanics(w) \/ Leave(w)
    PROVE  CycleInv'
<1> USE DEF JobBegins, JobReturns, JobPanics, Leave, Recover, ReleaseSlot, WaitGroupDone, GorGoto
<1>1. CycleTypeOK'
  BY DEF CycleInv, CycleTypeOK, GorStep
<1>2. PoolInv'
  <2>1. IsFiniteSet(slots') /\ Cardinality(slots') <= PoolSize
    <3>1. slots' = slots \/ slots' = slots \ {w}
      OBVIOUS
    <3>2. IsFiniteSet(slots) /\ Cardinality(slots) <= PoolSize
      BY DEF CycleInv, PoolInv
    <3>3. IsFiniteSet(slots \ {w}) /\ Cardinality(slots \ {w}) <= Cardinality(slots)
      BY <3>2, FS_Subset
    <3> QED
      BY <3>1, <3>2, <3>3, FS_CardinalityType, PoolSizeAssumption
  <2> QED
    BY <2>1 DEF CycleInv, CycleTypeOK, PoolInv
<1>3. PhaseInv' /\ OneJobPerNas'
  BY DEF CycleInv, CycleTypeOK, PhaseInv, OneJobPerNas, Alive, LoadersDone
<1> QED
  BY <1>1, <1>2, <1>3 DEF CycleInv

LEMMA RestartKeeps ==
    ASSUME Restart PROVE CycleInv'
<1> USE DEF Restart
<1>1. CycleTypeOK'
  BY NoNasAssumption DEF CycleTypeOK, MainStep, LoaderStep, GorStep, Loader
<1>2. PoolInv'
  BY FS_EmptySet, PoolSizeAssumption DEF PoolInv
<1>3. PhaseInv' /\ OneJobPerNas'
  BY NoNasAssumption DEF PhaseInv, OneJobPerNas, Alive, LoadersDone, WhileLoading
<1> QED
  BY <1>1, <1>2, <1>3 DEF CycleInv

LEMMA CycleStepKeeps == CycleInv /\ [CycleNext]_cycleVars => CycleInv'
<1> SUFFICES ASSUME CycleInv, [CycleNext]_cycleVars PROVE CycleInv'
  OBVIOUS
<1>1. CASE Orchestrate
  <2>1. CASE Tick \/ Cancel \/ StopCron
    BY <2>1, CronStepKeeps
  <2>2. CASE MainStepTaken
    BY <2>2, CronStepKeeps, LoadingStepKeeps, DispatchStepKeeps, AcquireKeeps DEF MainStepTaken
  <2>3. CASE \E l \in Loader : LoadStep(l)
    BY <2>3, LoaderStepKeeps
  <2>4. CASE \E w \in Worker : Leave(w)
    BY <2>4, GoroutineStepKeeps
  <2> QED
    BY <1>1, <2>1, <2>2, <2>3, <2>4 DEF Orchestrate
<1>2. CASE \E w \in Worker : JobBegins(w) \/ JobReturns(w) \/ JobPanics(w)
  BY <1>2, GoroutineStepKeeps
<1>3. CASE Restart
  BY <1>3, RestartKeeps
<1>4. CASE UNCHANGED cycleVars
  BY <1>4 DEF CycleInv, CycleTypeOK, PoolInv, PhaseInv, OneJobPerNas, Alive, LoadersDone
<1> QED
  BY <1>1, <1>2, <1>3, <1>4 DEF CycleNext

\* The inductive invariant of the cycle: src/src/internal/usecase/aggregator.go:93-210
\* with the pool of src/src/tools/workerpool/workerpool.go:54-93.
THEOREM CycleInvariance == CycleSpec => []CycleInv
<1>1. CycleInit => CycleInv
  BY InitHolds
<1>2. CycleInv /\ [CycleNext]_cycleVars => CycleInv'
  BY CycleStepKeeps
<1> QED
  BY <1>1, <1>2, PTL DEF CycleSpec

\* Two jobs of one nas_ip never overlap, in one cycle or across cycles, whatever the
\* number of directories and goroutines (aggregator.go:187-209).
THEOREM JobsDoNotOverlap == CycleSpec => []OneJobPerNas
<1>1. CycleInv => OneJobPerNas
  BY DEF CycleInv
<1> QED
  BY <1>1, CycleInvariance, PTL

\* The pool never runs more functions than it has slots (workerpool.go:9-10).
THEOREM PoolKeepsSize == CycleSpec => []PoolWithinSize
<1>1. CycleInv => PoolWithinSize
  <2> SUFFICES ASSUME CycleInv PROVE PoolWithinSize
    OBVIOUS
  <2> DEFINE busy == {w \in Worker : gor[w] \in {"running", "panicking"}}
  <2>1. IsFiniteSet(slots) /\ Cardinality(slots) <= PoolSize /\ busy \subseteq slots
    BY DEF CycleInv, PoolInv
  <2>2. IsFiniteSet(busy) /\ Cardinality(busy) <= Cardinality(slots)
    BY <2>1, FS_Subset
  <2> QED
    BY <2>1, <2>2, FS_CardinalityType, PoolSizeAssumption DEF PoolWithinSize
<1> QED
  BY <1>1, CycleInvariance, PTL

\* While Cron.Run waits nothing of a cycle is left (aggregator.go:152-168, 209).
THEOREM NothingIsLeft == CycleSpec => []NothingOutlivesCycle
<1>1. CycleInv => NothingOutlivesCycle
  BY DEF CycleInv, CycleTypeOK, PoolInv, PhaseInv, NothingOutlivesCycle, Alive, BeforeDispatch,
         WhileLoading
<1> QED
  BY <1>1, CycleInvariance, PTL

-----------------------------------------------------------------------------
(***************************************************************************)
(* Module Cycle implements module Rounds.                                  *)
(***************************************************************************)

\* A slot stands for a directory that has a job.
LEMMA SlotsAndJobs ==
    ASSUME CycleInv
    PROVE  /\ IsFiniteSet({task[w] : w \in slots})
           /\ Cardinality({task[w] : w \in slots}) <= Cardinality(slots)
           /\ Cardinality({task[w] : w \in slots}) \in Nat
<1>1. IsFiniteSet(slots)
  BY DEF CycleInv, PoolInv
<1>2. /\ IsFiniteSet({task[w] : w \in slots})
      /\ Cardinality({task[w] : w \in slots}) <= Cardinality(slots)
  <2> DEFINE jobs == {task[w] : w \in slots}
             f == [w \in slots |-> task[w]]
  <2>1. f \in Surjection(slots, jobs)
    BY DEF Surjection
  <2> HIDE DEF f, jobs
  <2>2. IsFiniteSet(jobs) /\ Cardinality(jobs) <= Cardinality(slots)
    BY <1>1, <2>1, FS_Surjection
  <2> QED
    BY <2>2 DEF jobs
<1> QED
  BY <1>2, FS_CardinalityType

LEMMA AcquireHandsOut ==
    ASSUME CycleInv, NEW w \in Worker, AcquireSlot(w)
    PROVE  R!HandOut(target)
<1>1. target \in Nas /\ target \notin dirList /\ target # NoNas
  BY NoNasAssumption DEF CycleInv, CycleTypeOK, PhaseInv, AcquireSlot
<1>2. RoundOpen /\ RoundOpen' /\ dirList' = dirList /\ target' = NoNas /\ NoNas \notin dirList
  BY NoNasAssumption DEF CycleInv, CycleTypeOK, AcquireSlot, Spawn, RoundOpen
<1>3. Cardinality({task[v] : v \in slots}) < PoolSize
  <2>1. Cardinality(slots) < PoolSize
    BY DEF AcquireSlot
  <2>2. Cardinality(slots) \in Nat
    BY FS_CardinalityType DEF CycleInv, PoolInv
  <2> QED
    BY <2>1, <2>2, SlotsAndJobs, PoolSizeAssumption
<1>4. {task'[v] : v \in slots'} = {task[v] : v \in slots} \cup {target}
  <2>1. w \notin slots /\ slots \subseteq Worker /\ slots' = slots \cup {w}
    BY DEF CycleInv, CycleTypeOK, PoolInv, AcquireSlot, Spawn
  <2>2. task'[w] = target /\ \A v \in slots : task'[v] = task[v]
    BY <2>1 DEF CycleInv, CycleTypeOK, AcquireSlot, Spawn
  <2> QED
    BY <2>1, <2>2
<1>5. /\ (dirList \cup {target}) \ {NoNas} = dirList \cup {target}
      /\ (dirList' \cup {target'}) \ {NoNas} = dirList
  BY <1>1, <1>2
<1> QED
  <2>1. R!Cardinality({task[v] : v \in slots}) = Cardinality({task[v] : v \in slots})
    BY DEF R!Cardinality, Cardinality, R!IsFiniteSet, IsFiniteSet
  <2> QED
    BY <1>1, <1>2, <1>3, <1>4, <1>5, <2>1 DEF R!HandOut

LEMMA ReleaseEndsJob ==
    ASSUME CycleInv, NEW w \in Worker, ReleaseSlot(w)
    PROVE  R!JobEnds(task[w])
<1>1. w \in slots /\ slots \subseteq Alive
  BY DEF CycleInv, CycleTypeOK, PoolInv, Alive, ReleaseSlot, GorGoto
<1>2. \A v \in slots \ {w} : task[v] # task[w]
  BY <1>1 DEF CycleInv, OneJobPerNas
<1>3. {task'[v] : v \in slots'} = {task[v] : v \in slots} \ {task[w]}
  BY <1>1, <1>2 DEF ReleaseSlot, GorGoto
<1>4. UNCHANGED <<main, dirList, target>>
  BY DEF ReleaseSlot, GorGoto
<1> QED
  BY <1>1, <1>3, <1>4 DEF R!JobEnds, RoundOpen

LEMMA DispatchIsRound ==
    ASSUME CycleInv, MainStepTaken, ~\E w \in Worker : AcquireSlot(w)
    PROVE  [R!RoundsNext]_R!roundVars
<1> USE DEF R!RoundsNext, R!roundVars
<1>1. UNCHANGED <<slots, task>>
  BY DEF MainStepTaken, StartCycle, ReadFlowDirNames, ReadFlowDirNamesFails, ReturnAfterDirsError,
         ReceiveChannels, ReceiveSessions, Receive, JoinLoaders, NextDir, SkipDir, EndOfDirs,
         CheckContext, StopDispatch, ReturnFromWait
<1>2. UNCHANGED {task[w] : w \in slots}
  BY <1>1
<1>3. CASE ReadFlowDirNames
  <2>1. target = NoNas
    BY <1>3 DEF ReadFlowDirNames, CycleInv, PhaseInv
  <2>2. R!Open
    BY <1>2, <1>3, <2>1, NoNasAssumption DEF ReadFlowDirNames, R!Open, RoundOpen
  <2> QED
    BY <2>2
<1>4. CASE (JoinLoaders /\ main' = "select") \/ ReturnFromWait
  <2>1. slots = {}
    BY <1>4 DEF JoinLoaders, ReturnFromWait, CycleInv, CycleTypeOK, PoolInv, PhaseInv, Alive,
                BeforeDispatch
  <2>2. R!Close
    BY <1>1, <1>4, <2>1 DEF JoinLoaders, ReturnFromWait, R!Close, RoundOpen
  <2> QED
    BY <2>2
<1>5. CASE (\E n \in Nas : SkipDir(n)) \/ StopDispatch
  <2>1. R!LeaveOut
    BY <1>2, <1>5 DEF SkipDir, StopDispatch, R!LeaveOut, RoundOpen
  <2> QED
    BY <2>1
<1>6. CASE \E n \in Nas : NextDir(n)
  <2>1. target = NoNas
    BY <1>6 DEF NextDir, CycleInv, PhaseInv
  <2> QED
    BY <1>2, <1>6, <2>1, NoNasAssumption DEF NextDir, RoundOpen
<1>7. CASE \/ StartCycle \/ ReadFlowDirNamesFails \/ ReturnAfterDirsError \/ ReceiveChannels
           \/ ReceiveSessions \/ EndOfDirs \/ CheckContext \/ (JoinLoaders /\ main' # "select")
  BY <1>2, <1>7 DEF StartCycle, ReadFlowDirNamesFails, ReturnAfterDirsError, ReceiveChannels,
                    ReceiveSessions, Receive, EndOfDirs, CheckContext, JoinLoaders, RoundOpen
<1> QED
  BY <1>3, <1>4, <1>5, <1>6, <1>7 DEF MainStepTaken

LEMMA CycleStepIsRound ==
    ASSUME CycleInv, [CycleNext]_cycleVars PROVE [R!RoundsNext]_R!roundVars
<1> USE DEF R!RoundsNext, R!roundVars
<1>1. CASE \E w \in Worker : AcquireSlot(w)
  <2>1. target \in Nas
    BY <1>1 DEF CycleInv, CycleTypeOK, PhaseInv, AcquireSlot
  <2>2. R!HandOut(target)
    BY <1>1, AcquireHandsOut
  <2>3. R!RoundsNext
    BY <2>1, <2>2 DEF R!HandOut
  <2> QED
    BY <2>3
<1>2. CASE MainStepTaken /\ ~\E w \in Worker : AcquireSlot(w)
  BY <1>2, DispatchIsRound
<1>3. CASE \E w \in Worker : ReleaseSlot(w)
  <2>1. PICK w \in Worker : ReleaseSlot(w)
    BY <1>3
  <2>2. task[w] \in Nas
    BY <2>1 DEF ReleaseSlot, GorGoto, CycleInv, CycleTypeOK, PoolInv
  <2>3. R!JobEnds(task[w])
    BY <2>1, ReleaseEndsJob
  <2>4. R!RoundsNext
    BY <2>2, <2>3 DEF R!JobEnds
  <2> QED
    BY <2>4
<1>4. CASE \E w \in Worker : WaitGroupDone(w)
  <2>1. PICK w \in Worker : WaitGroupDone(w)
    BY <1>4
  <2>2. w \notin slots /\ slots' = slots /\ \A v \in slots : task'[v] = task[v]
    BY <2>1 DEF WaitGroupDone, GorGoto, CycleInv, CycleTypeOK, PoolInv
  <2>3. UNCHANGED {task[v] : v \in slots}
    BY <2>2
  <2> QED
    BY <2>1, <2>3 DEF WaitGroupDone, GorGoto, RoundOpen
<1>5. CASE \/ Tick \/ Cancel \/ StopCron \/ \E l \in Loader : LoadStep(l)
           \/ \E w \in Worker : Recover(w) \/ JobBegins(w) \/ JobReturns(w) \/ JobPanics(w)
           \/ UNCHANGED cycleVars
  <2>1. UNCHANGED <<slots, task, dirList, target, RoundOpen>>
    BY <1>5 DEF Tick, Cancel, StopCron, LoadStep, LoaderGoto, LoaderBegins, LoaderCannotBegin,
                LoaderQueries, LoaderQueryFails, LoaderSends, LoaderRollsBack, LoaderCloses,
                Recover, JobBegins, JobReturns, JobPanics, GorGoto, RoundOpen
  <2> QED
    BY <2>1
<1>6. CASE Restart
  <2>1. R!Abandon
    BY <1>6 DEF Restart, R!Abandon, RoundOpen
  <2> QED
    BY <2>1
<1> QED
  BY <1>1, <1>2, <1>3, <1>4, <1>5, <1>6 DEF CycleNext, Orchestrate, Leave

\* The cycle keeps its abstract promise: jobs come in rounds that do not overlap, each
\* directory at most once in a round (aggregator.go:148-210).
THEOREM CycleIsRounds == CycleSpec => ImplementsRounds
<1>1. CycleInit => R!RoundsInit
  BY DEF CycleInit, NewPool, R!RoundsInit, RoundOpen
<1>2. CycleInv /\ [CycleNext]_cycleVars => [R!RoundsNext]_R!roundVars
  BY CycleStepIsRound
<1> QED
  BY <1>1, <1>2, CycleInvariance, PTL DEF CycleSpec, ImplementsRounds, R!RoundsSpec

-----------------------------------------------------------------------------
(***************************************************************************)
(* Module CycleMetrics.                                                    *)
(***************************************************************************)

\* A step that reports is a step of the cycle.
LEMMA ReportMovesCycle ==
    ASSUME [ReportNext]_<<cycleVars, reportVars>> PROVE [CycleNext]_cycleVars
<1>1. CASE Unreporting
  BY <1>1 DEF Unreporting, CycleNext, Orchestrate, MainStepTaken, LoadStep
<1>2. CASE BeginsReport \/ ReadsDirs \/ CannotReadDirs \/ EndsWithoutDirs \/ EndsWithoutMaps
           \/ ReachesDispatch \/ EndsCycleOK
  BY <1>2 DEF BeginsReport, ReadsDirs, CannotReadDirs, EndsWithoutDirs, EndsWithoutMaps,
              ReachesDispatch, EndsCycleOK, CycleNext, Orchestrate, MainStepTaken
<1>3. CASE \E l \in Loader : LoaderTimed(l) \/ LoaderStops(l) \/ LoaderObserved(l)
  BY <1>3 DEF LoaderTimed, LoaderStops, LoaderObserved, CycleNext, Orchestrate, LoadStep
<1>4. CASE NewProcess
  BY <1>4 DEF NewProcess, CycleNext
<1>5. CASE UNCHANGED <<cycleVars, reportVars>>
  BY <1>5
<1> QED
  BY <1>1, <1>2, <1>3, <1>4, <1>5 DEF ReportNext

\* Reports hold no step of the cycle back and add none: the theorems above hold of a
\* cycle that reports (src/src/internal/usecase/aggregator.go:93-225).
THEOREM ReportImplementsCycle == ReportSpec => CycleSpec
<1>1. ReportInit => CycleInit
  BY DEF ReportInit
<1> QED
  BY <1>1, ReportMovesCycle, PTL DEF ReportSpec, CycleSpec

\* The counts of a cycle at each point of Start: its inductive invariant.
Observed(l) == count[IF l = "channels" THEN "load_channels" ELSE "load_sessions"]

CountInv ==
    /\ count \in [Series -> Nat]
    /\ inProgress \in BOOLEAN
    /\ inProgress <=> main \notin {"select", "returned"}
    /\ inProgress =>
          /\ count["cycles"] = 0 /\ count["success"] = 0 /\ count["nil_maps"] = 0
          /\ count["read_dirs"] = IF main = "readDirs" THEN 0 ELSE 1
          /\ count["dirs_read"] = IF main = "dirsFailed" THEN 1 ELSE 0
          /\ \A l \in Loader : Observed(l) = IF loader[l] = "off" THEN 1 ELSE 0
    /\ ~inProgress => CycleReported

\* A map was sent only by a goroutine whose timer it had started.
Sent(l) == mailbox[l] \in {"full", "fullClosed"} \/ got[l] = "map"

TimerInv ==
    /\ timer \in [Timer -> {"none", "running", "stopped"}]
    /\ main \in {"recvChannels", "recvSessions", "join"} => timer["dirs"] = "stopped"
    /\ main \in {"recvSessions", "join"} => got["channels"] # "nothing"
    /\ main = "join" => got["sessions"] # "nothing"
    /\ main \in WhileLoading =>
          \A l \in Loader :
             /\ loader[l] = "start" => ~Sent(l)
             /\ loader[l] \in {"close", "off"} /\ Sent(l) => timer[l] = "stopped"

LEMMA ReportInitHolds == ReportInit => CountInv /\ TimerInv
<1> SUFFICES ASSUME ReportInit PROVE CountInv /\ TimerInv
  OBVIOUS
<1> USE DEF ReportInit, NewReports, CycleInit, NoCounts, Series, Reason, CyclePhase
<1>1. CountInv
  <2>1. count \in [Series -> Nat] /\ count["cycles"] = 0
    OBVIOUS
  <2>2. CycleReported
    BY <2>1 DEF CycleReported
  <2> QED
    BY <2>1, <2>2 DEF CountInv
<1>2. TimerInv
  BY DEF TimerInv, WhileLoading
<1> QED
  BY <1>1, <1>2

\* The steps that report nothing neither begin nor end a cycle or a loading goroutine.
LEMMA SilentStepKeepsCounts ==
    ASSUME CycleInv, CountInv, Unreporting, UNCHANGED reportVars PROVE CountInv'
<1>1. UNCHANGED <<inProgress, count>>
  BY DEF reportVars
<1>2. /\ main \notin {"select", "returned"} <=> main' \notin {"select", "returned"}
      /\ main = "readDirs" <=> main' = "readDirs"
      /\ main = "dirsFailed" <=> main' = "dirsFailed"
  BY DEF Unreporting, Tick, Cancel, StopCron, ReceiveChannels, ReceiveSessions, Receive, NextDir,
         SkipDir, EndOfDirs, CheckContext, StopDispatch, LoaderCannotBegin, LoaderQueries,
         LoaderQueryFails, LoaderSends, LoaderGoto, AcquireSlot, Spawn, JobBegins, JobReturns,
         JobPanics, Leave, Recover, ReleaseSlot, WaitGroupDone, GorGoto
<1>3. \A l \in Loader : loader[l] = "off" <=> loader'[l] = "off"
  BY DEF Unreporting, Tick, Cancel, StopCron, ReceiveChannels, ReceiveSessions, Receive, NextDir,
         SkipDir, EndOfDirs, CheckContext, StopDispatch, LoaderCannotBegin, LoaderQueries,
         LoaderQueryFails, LoaderSends, LoaderGoto, AcquireSlot, Spawn, JobBegins, JobReturns,
         JobPanics, Leave, Recover, ReleaseSlot, WaitGroupDone, GorGoto, CycleInv, CycleTypeOK
<1> QED
  BY <1>1, <1>2, <1>3 DEF CountInv, CycleReported, Observed

Reporting ==
    \/ BeginsReport \/ ReadsDirs \/ CannotReadDirs \/ EndsWithoutDirs \/ EndsWithoutMaps
    \/ ReachesDispatch \/ EndsCycleOK \/ NewProcess
    \/ \E l \in Loader : LoaderTimed(l) \/ LoaderStops(l) \/ LoaderObserved(l)

\* Where Start begins, fails, ends, and where a loading goroutine ends.
LEMMA ReportedStepKeepsCounts ==
    ASSUME CycleInv, CountInv, Reporting PROVE CountInv'
<1> USE DEF CountInv, Series, Reason, CyclePhase, Increments, Loader, Observed
<1>1. CASE BeginsReport
  BY <1>1 DEF BeginsReport, StartCycle, NoCounts
<1>2. CASE ReadsDirs \/ CannotReadDirs
  BY <1>2 DEF ReadsDirs, ReadFlowDirNames, CannotReadDirs, ReadFlowDirNamesFails
<1>3. CASE EndsWithoutDirs
  <2>1. main = "dirsFailed" /\ main' = "select" /\ \A l \in Loader : loader[l] = "off"
    BY <1>3 DEF EndsWithoutDirs, ReturnAfterDirsError, LoadersDone
  <2>2. inProgress /\ inProgress' = FALSE
    BY <1>3, <2>1 DEF EndsWithoutDirs, ObserveCycle
  <2>3. /\ count' \in [Series -> Nat] /\ count'["cycles"] = 1
        /\ count'["success"] + count'["dirs_read"] + count'["nil_maps"] = 1
    BY <1>3, <2>1, <2>2 DEF EndsWithoutDirs, ObserveCycle
  <2>4. \A p \in CyclePhase : count'[p] = 1
    BY <1>3, <2>1, <2>2 DEF EndsWithoutDirs, ObserveCycle
  <2> QED
    BY <2>1, <2>2, <2>3, <2>4 DEF CycleReported
<1>4. CASE EndsWithoutMaps
  <2>1. main = "join" /\ main' = "select" /\ \A l \in Loader : loader[l] = "off"
    BY <1>4 DEF EndsWithoutMaps, JoinLoaders, LoadersDone
  <2>2. inProgress /\ inProgress' = FALSE
    BY <1>4, <2>1 DEF EndsWithoutMaps, ObserveCycle
  <2>3. /\ count' \in [Series -> Nat] /\ count'["cycles"] = 1
        /\ count'["success"] + count'["dirs_read"] + count'["nil_maps"] = 1
    BY <1>4, <2>1, <2>2 DEF EndsWithoutMaps, ObserveCycle
  <2>4. \A p \in CyclePhase : count'[p] = 1
    BY <1>4, <2>1, <2>2 DEF EndsWithoutMaps, ObserveCycle
  <2> QED
    BY <2>1, <2>2, <2>3, <2>4 DEF CycleReported
<1>5. CASE ReachesDispatch
  BY <1>5 DEF ReachesDispatch, JoinLoaders
<1>6. CASE EndsCycleOK
  <2>1. main = "wait" /\ main' = "select" /\ \A l \in Loader : loader[l] = "off"
    BY <1>6 DEF EndsCycleOK, ReturnFromWait, CycleInv, PhaseInv, WhileLoading, LoadersDone
  <2>2. inProgress /\ inProgress' = FALSE
    BY <1>6, <2>1 DEF EndsCycleOK, ObserveCycle
  <2>3. /\ count' \in [Series -> Nat] /\ count'["cycles"] = 1
        /\ count'["success"] + count'["dirs_read"] + count'["nil_maps"] = 1
    BY <1>6, <2>1, <2>2 DEF EndsCycleOK, ObserveCycle
  <2>4. \A p \in CyclePhase : count'[p] = 1
    BY <1>6, <2>1, <2>2 DEF EndsCycleOK, ObserveCycle
  <2> QED
    BY <2>1, <2>2, <2>3, <2>4 DEF CycleReported
<1>7. ASSUME NEW l \in Loader, LoaderTimed(l) \/ LoaderStops(l) PROVE CountInv'
  BY <1>7 DEF LoaderTimed, LoaderStops, LoaderBegins, LoaderRollsBack, LoaderGoto, CycleReported,
              CycleInv, CycleTypeOK
<1>8. ASSUME NEW l \in Loader, LoaderObserved(l) PROVE CountInv'
  <2>1. loader[l] = "close" /\ inProgress
    BY <1>8 DEF LoaderObserved, LoaderCloses, CycleInv, PhaseInv, WhileLoading, LoadersDone
  <2> QED
    BY <1>8, <2>1 DEF LoaderObserved, LoaderCloses, LoaderGoto, CycleInv, CycleTypeOK
<1>9. CASE NewProcess
  <2>1. main' = "select" /\ inProgress' = FALSE /\ count' = NoCounts
    BY <1>9 DEF NewProcess, Restart
  <2>2. count' \in [Series -> Nat] /\ count'["cycles"] = 0
    BY <2>1 DEF NoCounts
  <2>3. CycleReported'
    BY <2>1, <2>2 DEF CycleReported
  <2> QED
    BY <2>1, <2>2, <2>3
<1> QED
  BY <1>1, <1>2, <1>3, <1>4, <1>5, <1>6, <1>7, <1>8, <1>9 DEF Reporting

LEMMA CountsKeep ==
    ASSUME CycleInv, CountInv, [ReportNext]_<<cycleVars, reportVars>> PROVE CountInv'
<1>1. CASE Unreporting /\ UNCHANGED reportVars
  BY <1>1, SilentStepKeepsCounts
<1>2. CASE Reporting
  BY <1>2, ReportedStepKeepsCounts
<1>3. CASE UNCHANGED <<cycleVars, reportVars>>
  BY <1>3 DEF CountInv, CycleReported, Observed, reportVars
<1> QED
  BY <1>1, <1>2, <1>3 DEF ReportNext, Reporting

LEMMA TimersKeep ==
    ASSUME CycleInv, TimerInv, [ReportNext]_<<cycleVars, reportVars>> PROVE TimerInv'
<1> USE DEF TimerInv, Sent, WhileLoading, Loader, Timer, reportVars, timers
<1>1. CASE Unreporting /\ UNCHANGED reportVars
  <2>1. CASE \E l \in Loader :
                LoaderCannotBegin(l) \/ LoaderQueries(l) \/ LoaderQueryFails(l) \/ LoaderSends(l)
    BY <1>1, <2>1 DEF LoaderCannotBegin, LoaderQueries, LoaderQueryFails, LoaderSends, LoaderGoto,
                      CycleInv, CycleTypeOK
  <2>2. CASE ReceiveChannels \/ ReceiveSessions
    BY <1>1, <2>2 DEF ReceiveChannels, ReceiveSessions, Receive, CycleInv, CycleTypeOK
  <2> QED
    BY <1>1, <2>1, <2>2
    DEF Unreporting, Tick, Cancel, StopCron, NextDir, SkipDir, EndOfDirs, CheckContext,
        StopDispatch, AcquireSlot, Spawn, JobBegins, JobReturns, JobPanics, Leave, Recover,
        ReleaseSlot, WaitGroupDone, GorGoto
<1>2. CASE BeginsReport
  BY <1>2 DEF BeginsReport, StartCycle
<1>3. CASE ReadsDirs \/ CannotReadDirs
  BY <1>3 DEF ReadsDirs, ReadFlowDirNames, CannotReadDirs, ReadFlowDirNamesFails, TimerStarts
<1>4. CASE EndsWithoutDirs \/ EndsWithoutMaps \/ EndsCycleOK
  BY <1>4 DEF EndsWithoutDirs, EndsWithoutMaps, EndsCycleOK, ReturnAfterDirsError, JoinLoaders,
              ReturnFromWait
<1>5. CASE ReachesDispatch
  BY <1>5 DEF ReachesDispatch, JoinLoaders, MeasureResult
<1>6. ASSUME NEW l \in Loader, LoaderTimed(l) \/ LoaderStops(l) PROVE TimerInv'
  BY <1>6 DEF LoaderTimed, LoaderStops, LoaderBegins, LoaderRollsBack, LoaderGoto, TimerStarts,
              TimerStops, CycleInv, CycleTypeOK
<1>7. ASSUME NEW l \in Loader, LoaderObserved(l) PROVE TimerInv'
  BY <1>7 DEF LoaderObserved, LoaderCloses, LoaderGoto, CycleInv, CycleTypeOK
<1>8. CASE NewProcess
  BY <1>8 DEF NewProcess, Restart
<1>9. CASE UNCHANGED <<cycleVars, reportVars>>
  BY <1>9
<1> QED
  BY <1>1, <1>2, <1>3, <1>4, <1>5, <1>6, <1>7, <1>8, <1>9 DEF ReportNext

THEOREM ReportInvariance == ReportSpec => [](CycleInv /\ CountInv /\ TimerInv)
<1>1. ReportSpec => []CycleInv
  BY ReportImplementsCycle, CycleInvariance, PTL
<1>2. ReportInit => CountInv /\ TimerInv
  BY ReportInitHolds
<1>3. CycleInv /\ CountInv /\ TimerInv /\ [ReportNext]_<<cycleVars, reportVars>>
         => CountInv' /\ TimerInv'
  BY CountsKeep, TimersKeep
<1> QED
  BY <1>1, <1>2, <1>3, PTL DEF ReportSpec

\* Every cycle is reported once, with all of its phases and one outcome, however the
\* loading goroutines that write two of the phases interleave with Start
\* (src/src/internal/usecase/aggregator.go:97-101, 129-178, 212-225).
THEOREM CycleIsReported == ReportSpec => []CycleReported
<1>1. CountInv => CycleReported
  BY DEF CountInv, CycleReported
<1> QED
  BY <1>1, ReportInvariance, PTL

\* The timers Result prints were all stopped: a map that arrived was sent by a
\* goroutine whose deferred Stop has run (aggregator.go:129-144, 166-177).
THEOREM ResultFindsTimersStopped == ReportSpec => ResultIsComplete
<1>1. ASSUME CycleInv, TimerInv, [ReportNext]_<<cycleVars, reportVars>>,
             main = "join", main' = "range"
      PROVE  \A t \in Timer : timer[t] = "stopped"
  <2>1. JoinLoaders
    <3>1. CycleNext
      BY <1>1, ReportMovesCycle
    <3> QED
      BY <1>1, <3>1
      DEF CycleNext, Orchestrate, Tick, Cancel, StopCron, MainStepTaken, StartCycle,
          ReadFlowDirNames, ReadFlowDirNamesFails, ReturnAfterDirsError, ReceiveChannels,
          ReceiveSessions, NextDir, SkipDir, EndOfDirs, CheckContext, StopDispatch, AcquireSlot,
          Spawn, ReturnFromWait, Restart, LoadStep, LoaderBegins, LoaderCannotBegin,
          LoaderQueries, LoaderQueryFails, LoaderSends, LoaderRollsBack, LoaderCloses, Leave,
          Recover, ReleaseSlot, WaitGroupDone, JobBegins, JobReturns, JobPanics, GorGoto
  <2>2. \A l \in Loader : loader[l] = "off" /\ got[l] = "map"
    BY <1>1, <2>1 DEF JoinLoaders, LoadersDone, TimerInv, CycleInv, CycleTypeOK, Loader
  <2> QED
    BY <1>1, <2>2 DEF TimerInv, Sent, Timer, WhileLoading
<1>2. CycleInv /\ TimerInv /\ [ReportNext]_<<cycleVars, reportVars>>
         => [main = "join" /\ main' = "range" => \A t \in Timer : timer[t] = "stopped"]_<<cycleVars, reportVars>>
  BY <1>1
<1> QED
  BY <1>2, ReportInvariance, PTL DEF ReportSpec, ResultIsComplete

\* A name waits for the step that lists it, and Result has emptied the list.
NameInv ==
    /\ listed \in [Timer -> {"no", "once", "again"}]
    /\ measuring /\ ~early =>
          /\ \A t \in Timer : listed[t] # "again"
          /\ main \notin WhileLoading => \A t \in Timer : listed[t] = "no"
          /\ main = "readDirs" => listed["dirs"] = "no"
          /\ \A l \in Loader : loader[l] = "start" => listed[l] = "no"

LEMMA NamesKeep ==
    ASSUME CycleInv, NameInv, [ReportNext]_<<cycleVars, reportVars>> PROVE NameInv'
<1> USE DEF NameInv, WhileLoading, Loader, Timer, reportVars, timers
<1>1. CASE Unreporting /\ UNCHANGED reportVars
  <2>1. CASE \E l \in Loader :
                LoaderCannotBegin(l) \/ LoaderQueries(l) \/ LoaderQueryFails(l) \/ LoaderSends(l)
    BY <1>1, <2>1 DEF LoaderCannotBegin, LoaderQueries, LoaderQueryFails, LoaderSends, LoaderGoto,
                      CycleInv, CycleTypeOK
  <2> QED
    BY <1>1, <2>1
    DEF Unreporting, Tick, Cancel, StopCron, ReceiveChannels, ReceiveSessions, Receive, NextDir,
        SkipDir, EndOfDirs, CheckContext, StopDispatch, AcquireSlot, Spawn, JobBegins, JobReturns,
        JobPanics, Leave, Recover, ReleaseSlot, WaitGroupDone, GorGoto
<1>2. CASE BeginsReport
  BY <1>2 DEF BeginsReport, StartCycle
<1>3. CASE ReadsDirs \/ CannotReadDirs
  BY <1>3 DEF ReadsDirs, ReadFlowDirNames, CannotReadDirs, ReadFlowDirNamesFails, TimerStarts
<1>4. CASE EndsWithoutDirs \/ EndsWithoutMaps
  BY <1>4 DEF EndsWithoutDirs, EndsWithoutMaps
<1>5. CASE EndsCycleOK
  BY <1>5 DEF EndsCycleOK, ReturnFromWait
<1>6. CASE ReachesDispatch
  BY <1>6 DEF ReachesDispatch, JoinLoaders, MeasureResult, LoadersDone
<1>7. ASSUME NEW l \in Loader, LoaderTimed(l) PROVE NameInv'
  <2>1. loader[l] = "start" /\ main \in WhileLoading
    BY <1>7 DEF LoaderTimed, LoaderBegins, CycleInv, PhaseInv, LoadersDone
  <2> QED
    BY <1>7, <2>1 DEF LoaderTimed, LoaderBegins, LoaderGoto, TimerStarts, CycleInv, CycleTypeOK
<1>8. ASSUME NEW l \in Loader, LoaderStops(l) \/ LoaderObserved(l) PROVE NameInv'
  BY <1>8 DEF LoaderStops, LoaderRollsBack, LoaderObserved, LoaderCloses, LoaderGoto, TimerStops,
              CycleInv, CycleTypeOK
<1>9. CASE NewProcess
  BY <1>9 DEF NewProcess, Restart
<1>10. CASE UNCHANGED <<cycleVars, reportVars>>
  BY <1>10
<1> QED
  BY <1>1, <1>2, <1>3, <1>4, <1>5, <1>6, <1>7, <1>8, <1>9, <1>10 DEF ReportNext

\* With MEASURE=enable the one instance of tools/measure does not gather names of
\* earlier cycles unless one ended before its Result
\* (src/src/tools/measure/measure.go:41-66, 114-117).
THEOREM NamesAreListedOnce == ReportSpec => []NamesListedOnce
<1>1. ReportInit => NameInv
  BY DEF ReportInit, NewReports, CycleInit, NameInv, WhileLoading, Timer, Loader
<1>2. CycleInv /\ NameInv /\ [ReportNext]_<<cycleVars, reportVars>> => NameInv'
  BY NamesKeep
<1>3. NameInv => NamesListedOnce
  BY DEF NameInv, NamesListedOnce
<1> QED
  BY <1>1, <1>2, <1>3, ReportInvariance, PTL DEF ReportSpec
=============================================================================
