---------------------------- MODULE SystemProofs ----------------------------
(***************************************************************************)
(* Proofs about module System: the cycle and the pool keep the contract on *)
(* which module Aggregate relies, so what is proved of it on the server of *)
(* module LateCommit holds in the system.                                  *)
(***************************************************************************)
EXTENDS System, LateCommitProofs, CycleProofs

USE DEF Goto, collector, storage, database, local, vars, lateVars,
        signals, loading, dispatch, pool, cycleVars

\* A step of the system is a step of the cycle or leaves it alone.
LEMMA SystemMovesCycle == ASSUME [SystemNext]_allVars PROVE [CycleNext]_cycleVars
BY DEF SystemNext, allVars, CycleNext, Enters, Works, Returns, Panics

\* What a job does with the server is a step of module Aggregate.
LEMMA LateJobIsJob == ASSUME NEW w \in Worker, LateJob(w) PROVE Job(w)
BY DEF LateJob, LoadsCheckpoint, SavesFileNames, RemovesByNasIP, Proceeds, GivenUp, Job

\* Only the goroutine a job was made for is in its nas_ip.
LEMMA NobodyInside ==
    ASSUME SystemInv, NEW w \in Worker, gor[w] = "spawned"
    PROVE  task[w] \in Nas /\ ~Running(task[w])
<1>1. task[w] \in Nas
  BY DEF SystemInv, CycleInv, CycleTypeOK, PoolInv
<1>2. ASSUME NEW v \in Worker, nas[v] = task[w] PROVE FALSE
  <2>1. pc[v] # "idle"
    BY <1>1, <1>2, NoNasAssumption DEF SystemInv, JobInv
  <2>2. gor[v] = "running" /\ task[v] = task[w]
    BY <1>2, <2>1 DEF SystemInv, JobMatchesGoroutine
  <2>3. v = w
    BY <2>2 DEF SystemInv, CycleInv, OneJobPerNas, Alive
  <2> QED
    BY <2>2, <2>3
<1> QED
  BY <1>1, <1>2 DEF Running

\* A step of the system is a step LateCommit allows or leaves its variables alone.
LEMMA SystemMovesLate == ASSUME SystemInv, [SystemNext]_allVars PROVE [LateNext]_lateVars
<1>1. ASSUME NEW w \in Worker, Enters(w) PROVE LateNext
  <2>1. gor[w] = "spawned"
    BY <1>1 DEF Enters, JobBegins, GorGoto
  <2>2. /\ \E e \in BOOLEAN : Begin(w, task[w], e)
        /\ UNCHANGED inDoubt
    BY <1>1, <2>1, NobodyInside DEF Enters, Begin
  <2> QED
    BY <2>1, <2>2, NobodyInside DEF LateNext
<1>2. ASSUME NEW w \in Worker, Works(w) \/ Returns(w) PROVE LateNext
  BY <1>2 DEF Works, Returns, LateNext
<1>3. ASSUME NEW w \in Worker, Panics(w) PROVE LateNext
  BY <1>3 DEF Panics, LateJob, Proceeds, LateNext
<1>4. ASSUME NEW n \in Nas, Collector(n), UNCHANGED inDoubt PROVE LateNext
  BY <1>4 DEF LateNext
<1>5. ASSUME CrashInDoubt \/ ServerDecides PROVE LateNext
  BY <1>5 DEF LateNext
<1> QED
  BY <1>1, <1>2, <1>3, <1>4, <1>5 DEF SystemNext, allVars

\* A job inside Commit is in a nas_ip, and what it has open is a transaction.
LEMMA OpenType ==
    ASSUME TypeOK, JobInv, NEW w \in Worker, InCommit(w)
    PROVE  nas[w] \in Nas /\ OpenTransaction(w) \in Transaction
<1>1. nas[w] \in Nas
  BY BusyNas DEF InCommit
<1> QED
  BY <1>1 DEF OpenTransaction, Transaction, TypeOK

\* The types hold on any server, also on one that does not settle.
LEMMA LateTypes ==
    ASSUME TypeOK, JobInv, DoubtType, [LateNext]_lateVars
    PROVE  TypeOK' /\ JobInv' /\ DoubtType'
<1>1. ASSUME Next \/ UNCHANGED vars PROVE TypeOK' /\ JobInv'
  BY <1>1, TypeStep, JobStep
<1>2. ASSUME NEW n \in Nas, NEW t \in inDoubt[n], Lands(n, t)
      PROVE  TypeOK' /\ JobInv'
  <2>1. t \in Transaction
    BY DEF DoubtType
  <2>2. chunks' \in [Nas -> [File -> Nat]]
    BY <1>2 DEF TypeOK, Lands
  <2>3. checkpoint' \in [Nas -> SUBSET File]
    BY <1>2, <2>1 DEF TypeOK, Lands, Transaction
  <2> QED
    BY <1>2, <2>2, <2>3 DEF TypeOK, JobInv, Lands
<1>3. TypeOK' /\ JobInv'
  BY <1>1, <1>2, AggregateStep DEF TypeOK, JobInv
<1>4. ASSUME NEW w \in Worker, GivenUp(w) PROVE DoubtType'
  BY <1>4, OpenType DEF GivenUp, DoubtType
<1>5. ASSUME CrashInDoubt PROVE DoubtType'
  <2>1. PICK W \in SUBSET {w \in Worker : InCommit(w)} :
          inDoubt' = [n \in Nas |->
            inDoubt[n] \cup {OpenTransaction(w) : w \in {v \in W : nas[v] = n}}]
    BY <1>5 DEF CrashInDoubt
  <2>2. \A w \in W : OpenTransaction(w) \in Transaction
    BY OpenType
  <2> QED
    BY <2>1, <2>2 DEF DoubtType
<1>6. ASSUME ServerDecides PROVE DoubtType'
  BY <1>6 DEF ServerDecides, Lands, Vanishes, Decided, DoubtType
<1>7. DoubtType'
  BY <1>4, <1>5, <1>6 DEF LateNext, LateJob, DoubtType
<1> QED
  BY <1>3, <1>7

\* Goroutines enter and leave Aggregate when their function begins and ends.
LEMMA MatchStep ==
    ASSUME SystemInv, [SystemNext]_allVars
    PROVE  JobMatchesGoroutine'
<1> USE DEF SystemInv
<1> SUFFICES ASSUME NEW v \in Worker
             PROVE  /\ pc'[v] # "idle" <=> gor'[v] = "running"
                    /\ gor'[v] = "running" => nas'[v] = task'[v]
  BY DEF JobMatchesGoroutine
<1> /\ pc[v] # "idle" <=> gor[v] = "running"
    /\ gor[v] = "running" => nas[v] = task[v]
  BY DEF JobMatchesGoroutine
<1>1. CASE Orchestrate /\ UNCHANGED lateVars
  <2>1. /\ gor'[v] = "running" <=> gor[v] = "running"
        /\ gor[v] = "running" => task'[v] = task[v]
    BY <1>1 DEF CycleInv, CycleTypeOK, Orchestrate, Tick, Cancel, StopCron, MainStepTaken, StartCycle,
       ReadFlowDirNames, ReadFlowDirNamesFails, ReturnAfterDirsError, ReceiveChannels,
       ReceiveSessions, Receive, JoinLoaders, NextDir, SkipDir, EndOfDirs, CheckContext,
       StopDispatch, AcquireSlot, Spawn, ReturnFromWait, LoadStep, LoaderBegins,
       LoaderCannotBegin, LoaderQueries, LoaderQueryFails, LoaderSends, LoaderRollsBack,
       LoaderCloses, LoaderGoto, Leave, Recover, ReleaseSlot, WaitGroupDone, GorGoto
  <2> QED
    BY <1>1, <2>1
<1>2. ASSUME NEW n \in Nas, Collector(n), UNCHANGED cycleVars
      PROVE  /\ pc'[v] # "idle" <=> gor'[v] = "running"
             /\ gor'[v] = "running" => nas'[v] = task'[v]
  BY <1>2 DEF Collector, OpenSpool, Capture
<1>3. ASSUME NEW w \in Worker, Enters(w)
      PROVE  /\ pc'[v] # "idle" <=> gor'[v] = "running"
             /\ gor'[v] = "running" => nas'[v] = task'[v]
  BY <1>3 DEF Enters, Enter, JobBegins, GorGoto, TypeOK, CycleInv, CycleTypeOK
<1>4. ASSUME NEW w \in Worker, Works(w) \/ Returns(w) \/ Panics(w)
      PROVE  /\ pc'[v] # "idle" <=> gor'[v] = "running"
             /\ gor'[v] = "running" => nas'[v] = task'[v]
  <2>1. Job(w)
    BY <1>4, LateJobIsJob DEF Works, Returns, Panics, Job
  <2>2. UNCHANGED task /\ (v # w => gor'[v] = gor[v])
    BY <1>4 DEF Works, Returns, Panics, JobReturns, JobPanics, GorGoto, CycleInv, CycleTypeOK
  <2>3. CASE v # w
    BY <2>1, <2>2, <2>3, JobFrame DEF LocalsKept
  <2>4. CASE v = w
    <3>1. CASE Works(w)
      <4>1. gor[w] = "running" /\ gor'[w] = "running" /\ pc'[w] # "idle"
        BY <3>1 DEF Works
      <4>2. nas'[w] = nas[w]
        BY <2>1, <4>1, JobShape DEF TypeOK, End, GoesOn
      <4> QED
        BY <2>2, <2>4, <4>1, <4>2 DEF JobMatchesGoroutine
    <3>2. CASE Returns(w) \/ Panics(w)
      <4>1. gor'[w] # "running"
        BY <3>2 DEF Returns, Panics, JobReturns, JobPanics, GorGoto, CycleInv, CycleTypeOK
      <4>2. pc'[w] = "idle"
        BY <3>2 DEF Returns, Panics, Fail, End, TypeOK
      <4> QED
        BY <2>4, <4>1, <4>2
    <3> QED
      BY <1>4, <3>1, <3>2
  <2> QED
    BY <2>3, <2>4
<1>5. CASE Restart /\ CrashInDoubt
  BY <1>5 DEF Restart, CrashInDoubt, Crash
<1>6. CASE ServerDecides /\ UNCHANGED cycleVars
  BY <1>6 DEF ServerDecides, Lands, Vanishes
<1>7. CASE UNCHANGED allVars
  BY <1>7 DEF allVars
<1> QED
  BY <1>1, <1>2, <1>3, <1>4, <1>5, <1>6, <1>7 DEF SystemNext

LEMMA SystemStepKeeps == ASSUME SystemInv, [SystemNext]_allVars PROVE SystemInv'
<1>1. TypeOK' /\ JobInv' /\ DoubtType'
  BY SystemMovesLate, LateTypes DEF SystemInv, DoubtType
<1>2. CycleInv'
  BY SystemMovesCycle, CycleStepKeeps DEF SystemInv
<1> QED
  BY <1>1, <1>2, MatchStep DEF SystemInv, DoubtType

\* A goroutine is inside Aggregate exactly while its function runs, with the nas_ip
\* the dispatch loop gave it.
THEOREM SystemInvariance == SystemSpec => []SystemInv
<1>1. SystemInit => SystemInv
  <2> SUFFICES ASSUME SystemInit PROVE SystemInv
    OBVIOUS
  <2>1. TypeOK /\ JobInv /\ DoubtType
    BY MaxCapturesAssumption, NoNasAssumption
       DEF SystemInit, LateInit, Init, TypeOK, Step, JobInv, DoubtType
  <2>2. CycleInv
    BY InitHolds DEF SystemInit
  <2>3. JobMatchesGoroutine
    BY DEF SystemInit, LateInit, Init, CycleInit, NewPool, JobMatchesGoroutine
  <2> QED
    BY <2>1, <2>2, <2>3 DEF SystemInv, DoubtType
<1>2. SystemInv /\ [SystemNext]_allVars => SystemInv'
  BY SystemStepKeeps
<1> QED
  BY <1>1, <1>2, PTL DEF SystemSpec

\* The system implements module LateCommit: whatever the cycle, the pool, a signal or a
\* restart do, no job begins on a nas_ip that another one works on.
THEOREM ContractKept == SystemSpec => KeepsAggregateContract
<1>1. SystemInit => LateInit
  BY DEF SystemInit
<1>2. SystemInv /\ [SystemNext]_allVars => [LateNext]_lateVars
  BY SystemMovesLate
<1> QED
  BY <1>1, <1>2, SystemInvariance, PTL DEF SystemSpec, LateSpec, KeepsAggregateContract

\* In the whole system no file's traffic is counted more often than it was delivered,
\* provided the server decides on a commit in doubt before the next job of the nas_ip loads.
THEOREM SystemCountsOnce == ASSUME Settles PROVE SystemSpec => []NoDoubleCount
BY ContractKept, LateCountedOnce, PTL DEF KeepsAggregateContract

\* A goroutine of the pool is inside Aggregate exactly while its function runs, on the
\* nas_ip it was made for.
THEOREM GoroutinesMatchJobs == SystemSpec => []JobMatchesGoroutine
<1>1. SystemInv => JobMatchesGoroutine
  BY DEF SystemInv
<1> QED
  BY <1>1, SystemInvariance, PTL

\* What holds of the cycle alone holds of the cycle that runs jobs.
THEOREM SystemRunsCycles == SystemSpec => CycleSpec
<1>1. SystemInit => CycleInit
  BY DEF SystemInit
<1>2. [SystemNext]_allVars => [CycleNext]_cycleVars
  BY SystemMovesCycle
<1> QED
  BY <1>1, <1>2, PTL DEF SystemSpec, CycleSpec

\* In the whole system a file with internal traffic that is not in the checkpoint is
\* deleted only by a job that found every channel disabled.
THEOREM SystemDropsOnlyCounted == ASSUME Settles PROVE SystemSpec => DropsOnlyCountedFiles
BY ContractKept, LateOnlyCountedFilesDropped, PTL DEF KeepsAggregateContract

\* In the whole system a checkpoint row goes only when its file is gone, also when the
\* delete of a job that is long over lands late.
THEOREM SystemCheckpointOutlives == ASSUME Settles PROVE SystemSpec => CheckpointOutlivesFiles
BY ContractKept, LateCheckpointOutlives, PTL DEF KeepsAggregateContract

\* The whole system, with its cycles, its pool, signals, restarts and late commits, keeps
\* the promise of module Accounting, under names that are delivered once.
THEOREM SystemKeepsPromise ==
    ASSUME Settles, MaxCaptures = 1 PROVE SystemSpec => ImplementsAccounting
BY ContractKept, LateImplementation, PTL DEF KeepsAggregateContract

\* No more jobs are inside Aggregate than the pool has slots, whichever of them panic.
THEOREM JobsFitPool == SystemSpec => []JobsWithinPool
<1>1. SystemInv => JobsWithinPool
  <2> SUFFICES ASSUME SystemInv PROVE JobsWithinPool
    OBVIOUS
  <2> DEFINE working == {w \in Worker : pc[w] # "idle"}
  <2>1. working \subseteq slots
    BY DEF SystemInv, JobMatchesGoroutine, CycleInv, PoolInv
  <2>2. IsFiniteSet(slots) /\ Cardinality(slots) <= PoolSize
    BY DEF SystemInv, CycleInv, PoolInv
  <2>3. /\ Cardinality(working) <= Cardinality(slots)
        /\ Cardinality(working) \in Nat /\ Cardinality(slots) \in Nat
    BY <2>1, <2>2, FS_Subset, FS_CardinalityType
  <2> QED
    BY <2>2, <2>3, PoolSizeAssumption DEF JobsWithinPool
<1> QED
  BY <1>1, SystemInvariance, PTL

LEMMA JobsEnd == SystemInv => JobsEndWithCycle
BY DEF SystemInv, JobMatchesGoroutine, CycleInv, PhaseInv, BeforeDispatch, Alive,
       JobsEndWithCycle

\* Between two cycles, and when Cron.Run has returned, no job is left.
THEOREM JobsEndWithTheirCycle == SystemSpec => []JobsEndWithCycle
BY JobsEnd, SystemInvariance, PTL

\* When Cron.Run has returned the process does nothing more to files or rows.
THEOREM QuietAtTheEnd == SystemSpec => QuietAfterReturn
<1> DEFINE Quiet == /\ UNCHANGED <<tmp, tmpDir>>
                    /\ UNCHANGED <<database, inDoubt>> \/ ServerDecides
<1>1. ASSUME SystemInv, [SystemNext]_allVars, main = "returned" PROVE Quiet
  <2>1. \A w \in Worker : pc[w] = "idle"
    BY <1>1, JobsEnd DEF JobsEndWithCycle
  <2>2. ASSUME NEW w \in Worker, LateJob(w) PROVE FALSE
    BY <1>1, <2>1, <2>2, LateJobIsJob, JobShape DEF SystemInv
  <2>3. [LateNext]_lateVars
    BY <1>1, SystemMovesLate
  <2>4. ASSUME CrashInDoubt PROVE UNCHANGED inDoubt
    <3>1. inDoubt' = [n \in Nas |-> inDoubt[n]]
      BY <2>1, <2>4 DEF CrashInDoubt, InCommit
    <3> QED
      BY <1>1, <3>1 DEF SystemInv
  <2>5. ASSUME ServerDecides PROVE Quiet
    BY <2>5 DEF ServerDecides, Lands, Vanishes
  <2> QED
    BY <2>2, <2>3, <2>4, <2>5
       DEF LateNext, Collector, OpenSpool, Capture, Begin, Enter, CrashInDoubt, Crash
<1>2. SystemInv /\ [SystemNext]_allVars => [main = "returned" => Quiet]_allVars
  BY <1>1
<1> QED
  BY <1>2, SystemInvariance, PTL DEF SystemSpec, QuietAfterReturn

=============================================================================
