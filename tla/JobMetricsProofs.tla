-------------------------- MODULE JobMetricsProofs --------------------------
(***************************************************************************)
(* Proofs about module JobMetrics.  Metrics change nothing: every step is  *)
(* a step of module Aggregate, whose lemmas hold as they are.  That what   *)
(* is billed lies between what was saved and what was accounted needs one  *)
(* more fact: from SiftTraffic to the commit the accounted traffic is one  *)
(* batch ahead.                                                            *)
(***************************************************************************)
EXTENDS JobMetrics, AggregateProofs, FiniteSetTheorems

USE DEF Goto, collector, storage, database, local, vars, counters, history, metricVars

\* Metrics only watch: every step is one of Aggregate.
LEMMA MetricsStep == MetricsNext => Next
BY DEF MetricsNext, StartsJob, CountedStep, Silent, FindsNoNewFile, FindsNoInternal,
       SiftsNothing, FindsUnrecognized, AccountsTraffic, SavesChunks, LosesCommitAnswer,
       RemovalEnds, ReturnsError, Panics, Restarts, Next, Job, Decide

LEMMA AggregateInvStep == IInv /\ [Next]_vars => IInv'
BY TypeStep, JobStep, KnowledgeStep, CheckpointStep, ReplayStep DEF IInv

CountersType ==
    /\ accountedTraffic \in [Nas -> [File -> Nat]]
    /\ chunksSaved \in [Nas -> [File -> Nat]]
    /\ base \in [Nas -> [File -> Nat]]

\* The batch of a job that is saving is accounted and not billed yet.
Ahead(w) ==
    pc[w] \in {"saveChunks", "saveNames", "commit"} =>
        \A f \in tmp[nas[w]] \ checkpoint[nas[w]] :
            chunks[nas[w]][f] + 1 <= base[nas[w]][f] + accountedTraffic[nas[w]][f]

BillingInv ==
    /\ CountersType
    /\ MetricsBracketBilling
    /\ \A w \in Worker : Ahead(w)

CountersKept == UNCHANGED <<accountedTraffic, chunksSaved, base>>

(***************************************************************************)
(* What a step does to the three counters.                                 *)
(***************************************************************************)
LEMMA CountersFrame ==
    ASSUME NEW w \in Worker, CountedStep(w), ~AccountsTraffic(w), ~SavesChunks(w)
    PROVE  CountersKept
BY DEF CountedStep, Silent, FindsNoNewFile, FindsNoInternal, SiftsNothing, CleansUp,
       FindsUnrecognized, LosesCommitAnswer, RemovalEnds, RemovalReturns, ReturnsError, Panics,
       CountersKept

LEMMA CountedIsJob == ASSUME NEW w \in Worker, CountedStep(w) PROVE Job(w)
BY DEF CountedStep, Silent, FindsNoNewFile, FindsNoInternal, SiftsNothing, FindsUnrecognized,
       AccountsTraffic, SavesChunks, LosesCommitAnswer, RemovalEnds, ReturnsError, Panics, Job,
       Decide

\* Only a commit changes what is billed.
LEMMA ChunksFrame ==
    ASSUME NEW w \in Worker, Job(w), ~Committed(w)
    PROVE  UNCHANGED chunks
BY DEF Job, LoadCommittedFileNames, ReadFileNamesInFlowDir, Move, MoveFlowToTempDir,
     RenameFails, Decide, NoNewFile, NoInternalTraffic, Unrecognized, SiftNothing, SiftTraffic,
     ToRemoveOld, SaveChunkList, SaveFileNames, Commit, CommitAnswerLost, RemoveOld,
     RemoveOldFails, RemoveByNasIP, Fail

\* A job comes to its transaction through SiftTraffic, and its batch stays as it is.
LEMMA OwnAhead ==
    ASSUME IInv, BillingInv, NEW w \in Worker, CountedStep(w), ~AccountsTraffic(w)
    PROVE  Ahead(w)'
<1> Ahead(w) /\ TypeOK
  BY DEF BillingInv, IInv
<1>1. CASE SaveChunkList(w) /\ CountersKept
  BY <1>1 DEF TypeOK, SaveChunkList, Ahead, CountersKept
<1>2. CASE SaveFileNames(w) /\ CountersKept
  BY <1>2 DEF TypeOK, SaveFileNames, Ahead, CountersKept
<1>3. CASE End(w)
  BY <1>3 DEF TypeOK, End, Ahead
<1>4. CASE LoadCommittedFileNames(w) \/ ReadFileNamesInFlowDir(w) \/ Move(w)
  BY <1>4 DEF TypeOK, LoadCommittedFileNames, ReadFileNamesInFlowDir, Move, MoveFlowToTempDir,
              Ahead
<1>5. CASE ToRemoveOld(w) \/ Commit(w) \/ RemoveOld(w)
  BY <1>5 DEF TypeOK, ToRemoveOld, Commit, RemoveOld, Ahead
<1>6. CASE Silent(w) /\ UNCHANGED metricVars
  BY <1>1, <1>2, <1>4, <1>5, <1>6 DEF Silent, CountersKept
<1> QED
  BY <1>3, <1>5, <1>6 DEF CountedStep, FindsNoNewFile, NoNewFile, FindsNoInternal,
     NoInternalTraffic, SiftsNothing, SiftNothing, FindsUnrecognized, Unrecognized, SavesChunks,
     LosesCommitAnswer, CommitAnswerLost, RemovalEnds, RemoveByNasIP, RemoveOldFails,
     ReturnsError, RenameFails, Fail, Panics

\* The counters of the nas_ip of another job are left alone.
LEMMA OtherAhead ==
    ASSUME IInv, BillingInv, NEW w \in Worker, CountedStep(w), NEW v \in Worker, v # w,
           \A n \in Nas \ {nas[w]} : /\ accountedTraffic'[n] = accountedTraffic[n]
                                     /\ base'[n] = base[n]
    PROVE  Ahead(v)'
<1>1. TypeOK /\ JobInv /\ Job(w) /\ LocalsKept(v) /\ Ahead(v)
  BY CountedIsJob, JobFrame DEF IInv, BillingInv
<1>2. CASE pc[v] = "idle"
  BY <1>1, <1>2 DEF LocalsKept, Ahead
<1>3. CASE pc[v] # "idle"
  <2>1. nas[v] \in Nas /\ nas[v] # nas[w]
    BY <1>1, <1>3, BusyNas, NoNasAssumption DEF JobInv
  <2>2. NasKept(nas[v])
    BY <1>1, <2>1, JobFrame
  <2> QED
    BY <1>1, <2>1, <2>2 DEF LocalsKept, NasKept, Ahead
<1> QED
  BY <1>2, <1>3

LEMMA BillingStep ==
    ASSUME IInv, BillingInv, [MetricsNext]_<<vars, metricVars>>
    PROVE  BillingInv'
<1>0. /\ TypeOK /\ JobInv /\ SnapshotInv /\ CountersType /\ MetricsBracketBilling
      /\ \A w \in Worker : Ahead(w)
  BY DEF IInv, BillingInv
<1>1. CASE UNCHANGED <<vars, metricVars>>
  BY <1>0, <1>1 DEF BillingInv, CountersType, MetricsBracketBilling, Ahead
<1>2. ASSUME NEW n \in Nas, Collector(n), UNCHANGED metricVars PROVE BillingInv'
  BY <1>0, <1>2 DEF Collector, OpenSpool, Capture, BillingInv, CountersType,
     MetricsBracketBilling, Ahead
<1>3. ASSUME NEW w \in Worker, NEW n \in Nas, NEW e \in BOOLEAN, StartsJob(w, n, e)
      PROVE  BillingInv'
  BY <1>0, <1>3 DEF StartsJob, Begin, Enter, TypeOK, BillingInv, CountersType,
     MetricsBracketBilling, Ahead
<1>4. CASE Restarts
  <2>1. Crash /\ base' = chunks /\ accountedTraffic' = NothingCounted
               /\ chunksSaved' = NothingCounted
    BY <1>4 DEF Restarts
  <2>2. CountersType'
    BY <1>0, <2>1 DEF CountersType, TypeOK, NothingCounted, Zero
  <2>3. MetricsBracketBilling'
    BY <1>0, <2>1 DEF TypeOK, Crash, MetricsBracketBilling, NothingCounted, Zero
  <2>4. \A w \in Worker : Ahead(w)'
    BY <2>1 DEF Crash, Ahead
  <2> QED
    BY <2>2, <2>3, <2>4 DEF BillingInv
<1>5. ASSUME NEW w \in Worker, AccountsTraffic(w) PROVE BillingInv'
  <2> DEFINE n == nas[w]
  <2>1. /\ n \in Nas /\ CountedStep(w) /\ UNCHANGED <<chunks, tmp, checkpoint, nas, base, chunksSaved>>
        /\ accountedTraffic' = Add(accountedTraffic, n, Fresh(w))
    BY <1>0, <1>5, BusyNas DEF AccountsTraffic, AddAccountedTraffic, SiftTraffic, Streamed,
       CountedStep
  <2>2. Fresh(w) = tmp[n] \ checkpoint[n]
    BY <1>0, <1>5 DEF AccountsTraffic, SiftTraffic, Streamed, Fresh, SnapshotInv, Snapshot
  <2>3. CountersType'
    BY <1>0, <2>1 DEF CountersType, Add
  <2>4. \A m \in Nas, f \in File : accountedTraffic[m][f] <= accountedTraffic'[m][f]
    BY <1>0, <2>1 DEF CountersType, Add
  <2>5. MetricsBracketBilling'
    BY <1>0, <2>1, <2>3, <2>4 DEF CountersType, MetricsBracketBilling, TypeOK
  <2>6. Ahead(w)'
    <3>1. ASSUME NEW f \in tmp[n] \ checkpoint[n]
          PROVE  chunks[n][f] + 1 <= base[n][f] + accountedTraffic'[n][f]
      <4>1. f \in File
        BY <1>0, <2>1 DEF TypeOK
      <4>2. accountedTraffic'[n][f] = accountedTraffic[n][f] + 1
        BY <1>0, <2>1, <2>2, <4>1 DEF CountersType, Add
      <4>3. chunks[n][f] <= base[n][f] + accountedTraffic[n][f]
        BY <1>0, <2>1, <4>1 DEF MetricsBracketBilling
      <4>4. /\ chunks[n][f] \in Nat /\ base[n][f] \in Nat /\ accountedTraffic[n][f] \in Nat
        BY <1>0, <2>1, <4>1 DEF CountersType, TypeOK
      <4> QED
        BY <4>2, <4>3, <4>4
    <3> QED
      BY <2>1, <3>1 DEF Ahead
  <2>7. ASSUME NEW v \in Worker, v # w PROVE Ahead(v)'
    <3>1. \A m \in Nas \ {n} : accountedTraffic'[m] = accountedTraffic[m] /\ base'[m] = base[m]
      BY <1>0, <2>1 DEF CountersType, Add
    <3> QED
      BY <2>1, <2>7, <3>1, OtherAhead
  <2> QED
    BY <2>3, <2>5, <2>6, <2>7 DEF BillingInv
<1>6. ASSUME NEW w \in Worker, CountedStep(w), Committed(w),
             SavesChunks(w) \/ CountersKept
      PROVE  BillingInv'
  <2> DEFINE n == nas[w]
  <2>1. /\ n \in Nas /\ pc[w] = "commit" /\ Ahead(w) /\ Snapshot(w)
        /\ UNCHANGED <<accountedTraffic, base>>
    BY <1>0, <1>6, BusyNas DEF Committed, SavesChunks, SnapshotInv, CountersKept
  <2>2. rows[w] = tmp[n] \ checkpoint[n]
    BY <2>1 DEF Snapshot
  <2>3. \/ chunksSaved' = Add(chunksSaved, n, rows[w])
        \/ chunksSaved' = chunksSaved
    BY <1>6 DEF SavesChunks, AddChunksSaved, CountersKept
  <2>4. CountersType'
    <3>1. chunksSaved' \in [Nas -> [File -> Nat]]
      <4>1. CASE chunksSaved' = Add(chunksSaved, n, rows[w])
        BY <1>0, <2>1, <4>1 DEF CountersType, Add
      <4> QED
        BY <1>0, <2>3, <4>1 DEF CountersType
    <3> QED
      BY <1>0, <2>1, <3>1 DEF CountersType
  <2>5. ASSUME NEW m \in Nas, NEW f \in File
        PROVE  /\ base'[m][f] + chunksSaved'[m][f] <= chunks'[m][f]
               /\ chunks'[m][f] <= base'[m][f] + accountedTraffic'[m][f]
    <3>1. /\ chunks[m][f] \in Nat /\ base[m][f] \in Nat /\ accountedTraffic[m][f] \in Nat
          /\ chunksSaved[m][f] \in Nat
          /\ base[m][f] + chunksSaved[m][f] <= chunks[m][f]
          /\ chunks[m][f] <= base[m][f] + accountedTraffic[m][f]
      BY <1>0 DEF CountersType, TypeOK, MetricsBracketBilling
    <3>2. CASE m = n /\ f \in rows[w]
      <4>1. chunks'[m][f] = chunks[m][f] + 1
        BY <1>0, <1>6, <3>2 DEF Committed, TypeOK
      <4>2. chunksSaved'[m][f] <= chunksSaved[m][f] + 1 /\ chunksSaved'[m][f] \in Nat
        BY <1>0, <2>3, <3>1, <3>2 DEF CountersType, Add
      <4>3. chunks[m][f] + 1 <= base[m][f] + accountedTraffic[m][f]
        BY <2>1, <2>2, <3>2 DEF Ahead
      <4> QED
        BY <2>1, <3>1, <4>1, <4>2, <4>3
    <3>3. CASE ~(m = n /\ f \in rows[w])
      <4>1. chunks'[m][f] = chunks[m][f]
        BY <1>0, <1>6, <3>3 DEF Committed, TypeOK
      <4>2. chunksSaved'[m][f] = chunksSaved[m][f]
        BY <1>0, <2>3, <3>1, <3>3 DEF CountersType, Add
      <4> QED
        BY <2>1, <3>1, <4>1, <4>2
    <3> QED
      BY <3>2, <3>3
  <2>6. ~AccountsTraffic(w)
    BY <2>1 DEF AccountsTraffic, SiftTraffic, Streamed
  <2>7. \A v \in Worker : Ahead(v)'
    BY <1>6, <2>1, <2>6, OwnAhead, OtherAhead
  <2> QED
    BY <2>4, <2>5, <2>7 DEF BillingInv, MetricsBracketBilling
<1>7. ASSUME NEW w \in Worker, CountedStep(w), ~Committed(w), CountersKept PROVE BillingInv'
  <2>1. UNCHANGED chunks
    BY <1>7, CountedIsJob, ChunksFrame
  <2>2. CountersType' /\ MetricsBracketBilling'
    BY <1>0, <1>7, <2>1 DEF CountersType, MetricsBracketBilling, CountersKept
  <2>3. ASSUME NEW v \in Worker PROVE Ahead(v)'
    <3>1. CASE AccountsTraffic(w)
      BY <1>5, <3>1 DEF BillingInv
    <3>2. CASE ~AccountsTraffic(w)
      BY <1>7, <3>2, OwnAhead, OtherAhead DEF CountersKept
    <3> QED
      BY <3>1, <3>2
  <2> QED
    BY <2>2, <2>3 DEF BillingInv
<1>8. ASSUME NEW w \in Worker, CountedStep(w) PROVE BillingInv'
  <2>1. SavesChunks(w) => Committed(w)
    BY DEF SavesChunks, Commit
  <2> QED
    BY <1>5, <1>6, <1>7, <1>8, <2>1, CountersFrame
<1> QED
  BY <1>1, <1>2, <1>3, <1>4, <1>8 DEF MetricsNext

(***************************************************************************)
(* Results.                                                                *)
(***************************************************************************)

\* The inductive invariant of Aggregate and the counters' place around the bill.
THEOREM MetricsInvariance == MetricsSpec => [](IInv /\ BillingInv)
<1>1. MetricsInit => IInv /\ BillingInv
  <2> SUFFICES ASSUME MetricsInit PROVE IInv /\ BillingInv
    OBVIOUS
  <2>1. TypeOK
    BY MaxCapturesAssumption DEF MetricsInit, Init, TypeOK, Step
  <2>2. JobInv /\ SnapshotInv /\ RemovalInv
    BY NoNasAssumption DEF MetricsInit, Init, JobInv, SnapshotInv, Snapshot, RemovalInv, Removal
  <2>3. CheckpointInv /\ ReplaySafe
    BY DEF MetricsInit, Init, CheckpointInv, ReplaySafe, Due
  <2>4. BillingInv
    BY DEF MetricsInit, Init, BillingInv, CountersType, MetricsBracketBilling, Ahead,
           NothingCounted, Zero
  <2> QED
    BY <2>1, <2>2, <2>3, <2>4 DEF IInv
<1>2. (IInv /\ BillingInv) /\ [MetricsNext]_<<vars, metricVars>> => (IInv /\ BillingInv)'
  <2>1. [MetricsNext]_<<vars, metricVars>> => [Next]_vars
    BY MetricsStep
  <2> QED
    BY <2>1, AggregateInvStep, BillingStep
<1> QED
  BY <1>1, <1>2, PTL DEF MetricsSpec

\* The metrics change nothing of the jobs: with them the program is still module
\* Aggregate, so that all that is shown of Aggregate holds beside the counters.
THEOREM MetricsOnlyWatch == MetricsSpec => Spec
<1>1. MetricsInit => Init
  BY DEF MetricsInit
<1>2. [MetricsNext]_<<vars, metricVars>> => [Next]_vars
  BY MetricsStep
<1> QED
  BY <1>1, <1>2, PTL DEF MetricsSpec, Spec

\* Also a name that comes back, two jobs at once and a retry count no file twice.
THEOREM MetricsCountOnce == MetricsSpec => []NoDoubleCount
BY MetricsOnlyWatch, CountedOnce, PTL

\* Between two restarts what is billed is at least what was counted as saved and at
\* most what was accounted, whichever commits fail or lose their answer.
THEOREM BilledIsBracketed == MetricsSpec => []MetricsBracketBilling
<1>1. BillingInv => MetricsBracketBilling
  BY DEF BillingInv
<1> QED
  BY <1>1, MetricsInvariance, PTL

-----------------------------------------------------------------------------
(***************************************************************************)
(* Jobs and outcomes.  The three sets of goroutines that EveryJobReported  *)
(* counts change by the goroutine that takes the step; what matters is     *)
(* whether it is a member before and after.                                *)
(***************************************************************************)
One(b) == IF b THEN 1 ELSE 0

LEMMA OneMember ==
    ASSUME NEW w \in Worker, NEW S \in SUBSET Worker, NEW T \in SUBSET Worker,
           \A v \in Worker \ {w} : v \in S <=> v \in T
    PROVE  /\ Cardinality(S) \in Nat /\ Cardinality(T) \in Nat
           /\ Cardinality(T) + One(w \in S) = Cardinality(S) + One(w \in T)
<1>1. /\ IsFiniteSet(S) /\ IsFiniteSet(T)
      /\ Cardinality(S) \in Nat /\ Cardinality(T) \in Nat
  BY WorkerAssumption, FS_Subset, FS_CardinalityType
<1>2. CASE (w \in S) <=> (w \in T)
  <2>1. S = T
    BY <1>2
  <2> QED
    BY <1>1, <2>1 DEF One
<1>3. CASE w \in S /\ w \notin T
  <2>1. S = T \cup {w}
    BY <1>3
  <2>2. Cardinality(S) = Cardinality(T) + 1
    BY <1>1, <1>3, <2>1, FS_AddElement
  <2> QED
    BY <1>1, <1>3, <2>2 DEF One
<1>4. CASE w \notin S /\ w \in T
  <2>1. T = S \cup {w}
    BY <1>4
  <2>2. Cardinality(T) = Cardinality(S) + 1
    BY <1>1, <1>4, <2>1, FS_AddElement
  <2> QED
    BY <1>1, <1>4, <2>2 DEF One
<1> QED
  BY <1>2, <1>3, <1>4

\* Where a goroutine is tells to which of the sets it belongs.
LEMMA Membership ==
    ASSUME TypeOK, JobInv, NEW w \in Worker
    PROVE  /\ w \in Unreported <=> /\ pc[w] # "idle"
                                   /\ pc[w] \in {"removeOld", "removeCheckpoint"} => verdict[w] # "none"
           /\ w \in Saving <=> pc[w] \in {"saveChunks", "saveNames", "commit"}
           /\ w \in Unsifted <=> verdict[w] = "error"
           /\ Unreported \in SUBSET Worker /\ Saving \in SUBSET Worker /\ Unsifted \in SUBSET Worker
BY DEF JobInv, Unreported, Saving, Unsifted

\* What one more of a series does to the sums.
LEMMA IncNASAdds ==
    ASSUME ReportTypeOK, NEW r \in Result, IncNAS(r)
    PROVE  /\ nasProcessed' \in [Result -> Nat]
           /\ Processed' = Processed + 1
           /\ \A x \in Result : nasProcessed'[x] = nasProcessed[x] + One(x = r)
<1>1. /\ nasProcessed \in [Result -> Nat]
      /\ nasProcessed' = [nasProcessed EXCEPT ![r] = nasProcessed[r] + 1]
  BY DEF ReportTypeOK, IncNAS
<1>2. nasProcessed' \in [Result -> Nat]
  BY <1>1
<1>3. \A x \in Result : nasProcessed'[x] = nasProcessed[x] + One(x = r)
  BY <1>1 DEF One
<1>4. Processed' = Processed + 1
  BY <1>1, <1>3 DEF Processed, Result, One
<1> QED
  BY <1>2, <1>3, <1>4

LEMMA IncNASErrorAdds ==
    ASSUME ReportTypeOK, NEW s \in Stage, IncNASError(s)
    PROVE  /\ nasErrors' \in [Stage -> Nat]
           /\ Errors' = Errors + 1
           /\ \A x \in Stage : nasErrors'[x] = nasErrors[x] + One(x = s)
<1>1. /\ nasErrors \in [Stage -> Nat]
      /\ nasErrors' = [nasErrors EXCEPT ![s] = nasErrors[s] + 1]
  BY DEF ReportTypeOK, IncNASError
<1>2. nasErrors' \in [Stage -> Nat]
  BY <1>1
<1>3. \A x \in Stage : nasErrors'[x] = nasErrors[x] + One(x = s)
  BY <1>1 DEF One
<1>4. Errors' = Errors + 1
  BY <1>1, <1>3 DEF Errors, Stage, One
<1> QED
  BY <1>2, <1>3, <1>4

LEMMA PhaseAdds ==
    ASSUME ReportTypeOK, NEW P, ObserveNASPhase(P)
    PROVE  /\ nasPhase' \in [Phase -> Nat]
           /\ \A x \in Phase : nasPhase'[x] = nasPhase[x] + One(x \in P)
BY DEF ReportTypeOK, ObserveNASPhase, One

LEMMA SumsType ==
    ASSUME ReportTypeOK
    PROVE  Processed \in Nat /\ Errors \in Nat
BY DEF ReportTypeOK, Processed, Errors, Result, Stage

\* Where the goroutine of a step is before and after it.
At(w, before, after) == pc[w] \in before /\ pc'[w] \in after

EndsAt(w, before) == At(w, before, {"idle"})

LEMMA EndIsIdle ==
    ASSUME TypeOK, NEW w \in Worker, End(w)
    PROVE  pc'[w] = "idle" /\ nas'[w] = NoNas
BY DEF TypeOK, End

LEMMA WorksBefore ==
    ASSUME TypeOK, NEW w \in Worker, CountedStep(w)
    PROVE  pc[w] # "idle" /\ entered' = entered
<1>1. pc[w] # "idle"
  BY CountedIsJob, JobShape
<1>2. entered' = entered
  BY DEF CountedStep, Silent, FindsNoNewFile, FindsNoInternal, SiftsNothing, CleansUp,
     FindsUnrecognized, AccountsTraffic, SavesChunks, LosesCommitAnswer, RemovalEnds,
     RemovalReturns, ReturnsError, Panics
<1> QED
  BY <1>1, <1>2

\* A silent step stays on its side of the transaction, and of the clean-up.
LEMMA SilentPlaces ==
    ASSUME TypeOK, NEW w \in Worker, Silent(w)
    PROVE  \/ At(w, {"load"}, {"list"}) \/ At(w, {"list"}, {"move"}) \/ At(w, {"move"}, {"move"})
           \/ At(w, {"saveChunks"}, {"saveNames"}) \/ At(w, {"saveNames"}, {"commit"})
           \/ At(w, {"removeOld"}, {"removeCheckpoint"})
BY DEF Silent, TypeOK, LoadCommittedFileNames, ReadFileNamesInFlowDir, Move, MoveFlowToTempDir,
       SaveChunkList, SaveFileNames, RemoveOld, At

LEMMA CleanUpPlaces ==
    ASSUME TypeOK, NEW w \in Worker, FindsNoNewFile(w) \/ FindsNoInternal(w) \/ SiftsNothing(w)
    PROVE  At(w, {"move"}, {"removeOld"})
BY DEF FindsNoNewFile, NoNewFile, FindsNoInternal, NoInternalTraffic, SiftsNothing, SiftNothing,
       ToRemoveOld, Streamed, TypeOK, At

LEMMA SavingPlaces ==
    ASSUME TypeOK, NEW w \in Worker
    PROVE  /\ AccountsTraffic(w) => At(w, {"move"}, {"saveChunks"})
           /\ SavesChunks(w) => At(w, {"commit"}, {"removeOld"})
BY DEF AccountsTraffic, SiftTraffic, Streamed, SavesChunks, Commit, Committed, TypeOK, At

LEMMA EndPlaces ==
    ASSUME TypeOK, NEW w \in Worker
    PROVE  /\ FindsUnrecognized(w) => EndsAt(w, {"move"})
           /\ LosesCommitAnswer(w) => EndsAt(w, {"commit"})
           /\ RemovalEnds(w) => EndsAt(w, {"removeOld", "removeCheckpoint"})
           /\ ReturnsError(w) \/ Panics(w) => pc'[w] = "idle"
BY EndIsIdle DEF FindsUnrecognized, Unrecognized, Streamed, LosesCommitAnswer, CommitAnswerLost,
       Committed, RemovalEnds, RemoveByNasIP, RemoveOldFails, ReturnsError, RenameFails, Fail,
       Panics, At, EndsAt

(***************************************************************************)
(* The verdict of a job.                                                   *)
(***************************************************************************)
VerdictType == verdict \in [Worker -> {"none", "no_new", "no_internal", "error"}]

\* A step writes only its own verdict; an end leaves none.
LEMMA VerdictFrame ==
    ASSUME TypeOK, VerdictType, NEW w \in Worker, VerdictInv(w), CountedStep(w)
    PROVE  /\ VerdictType'
           /\ \A v \in Worker \ {w} : verdict'[v] = verdict[v]
           /\ pc'[w] = "idle" => verdict'[w] = "none"
<1>1. CASE verdict' = verdict /\ pc'[w] # "idle"
  BY <1>1 DEF VerdictType
<1>2. CASE Forget(w)
  BY <1>2 DEF VerdictType, Forget
<1>3. CASE verdict' = verdict /\ pc[w] \notin {"removeOld", "removeCheckpoint"}
  BY <1>3 DEF VerdictType, VerdictInv
<1>4. CASE Silent(w) /\ UNCHANGED metricVars
  <2>1. pc'[w] # "idle"
    BY <1>4, SilentPlaces DEF At
  <2> QED
    BY <1>1, <1>4, <2>1
<1>5. CASE FindsNoNewFile(w) \/ FindsNoInternal(w) \/ SiftsNothing(w)
  <2>1. pc'[w] # "idle"
    BY <1>5, CleanUpPlaces DEF At
  <2>2. PICK r \in {"no_new", "no_internal", "error"} : verdict' = [verdict EXCEPT ![w] = r]
    BY <1>5 DEF FindsNoNewFile, FindsNoInternal, SiftsNothing, CleansUp
  <2> QED
    BY <2>1, <2>2 DEF VerdictType
<1>6. CASE AccountsTraffic(w) \/ SavesChunks(w)
  <2>1. pc'[w] # "idle"
    BY <1>6, SavingPlaces DEF At
  <2>2. verdict' = verdict
    BY <1>6 DEF AccountsTraffic, SavesChunks
  <2> QED
    BY <1>1, <2>1, <2>2
<1>7. CASE FindsUnrecognized(w) \/ LosesCommitAnswer(w)
  <2>1. pc[w] \in {"move", "commit"}
    BY <1>7, EndPlaces DEF EndsAt, At
  <2>2. verdict' = verdict
    BY <1>7 DEF FindsUnrecognized, LosesCommitAnswer
  <2> QED
    BY <1>3, <2>1, <2>2
<1>8. CASE RemovalEnds(w) \/ Panics(w)
  BY <1>2, <1>8 DEF RemovalEnds, RemovalReturns, Panics
<1>9. CASE ReturnsError(w)
  <2>1. CASE RemovalReturns(w)
    BY <1>2, <2>1 DEF RemovalReturns
  <2>2. CASE StageFails(w) /\ verdict' = verdict
    <3>1. pc[w] \notin {"removeOld", "removeCheckpoint"}
      BY <2>2 DEF StageFails
    <3> QED
      BY <1>3, <2>2, <3>1
  <2> QED
    BY <1>9, <2>1, <2>2 DEF ReturnsError
<1> QED
  BY <1>4, <1>5, <1>6, <1>7, <1>8, <1>9 DEF CountedStep

\* What the clean-up of a job may delete.
Harmless(n) == \A f \in tmp[n] \ checkpoint[n] : content[n][f] \notin Unsettled

LEMMA OwnVerdict ==
    ASSUME IInv, VerdictType, NEW w \in Worker, VerdictInv(w), CountedStep(w)
    PROVE  VerdictInv(w)'
<1>0. /\ TypeOK /\ JobInv /\ SnapshotInv /\ Snapshot(w) /\ Job(w)
  BY CountedIsJob DEF IInv, SnapshotInv
<1>1. entered' > 0
  BY <1>0, WorksBefore DEF VerdictInv, JobInv
<1>2. CASE pc'[w] = "idle"
  BY <1>0, <1>1, <1>2, VerdictFrame DEF VerdictInv
<1>3. ASSUME pc'[w] \notin {"removeOld", "removeCheckpoint", "idle"}, verdict'[w] = "none"
      PROVE  VerdictInv(w)'
  BY <1>1, <1>3 DEF VerdictInv
<1>4. CASE Silent(w) /\ UNCHANGED metricVars
  <2>1. CASE At(w, {"removeOld"}, {"removeCheckpoint"})
    BY <1>1, <1>4, <2>1 DEF At, VerdictInv
  <2>2. CASE ~At(w, {"removeOld"}, {"removeCheckpoint"})
    <3>1. /\ pc[w] \notin {"removeOld", "removeCheckpoint"}
          /\ pc'[w] \notin {"removeOld", "removeCheckpoint", "idle"}
      BY <1>0, <1>4, <2>2, SilentPlaces DEF At
    <3>2. verdict'[w] = "none"
      BY <1>4, <3>1 DEF VerdictInv
    <3> QED
      BY <1>3, <3>1, <3>2
  <2> QED
    BY <2>1, <2>2
<1>5. CASE FindsNoNewFile(w) \/ FindsNoInternal(w) \/ SiftsNothing(w)
  <2>1. pc'[w] = "removeOld"
    BY <1>0, <1>5, CleanUpPlaces DEF At
  <2>2. UNCHANGED <<content, tmp, checkpoint, nas>>
    BY <1>5 DEF FindsNoNewFile, NoNewFile, FindsNoInternal, NoInternalTraffic, SiftsNothing,
                SiftNothing, ToRemoveOld
  <2>3. CASE SiftsNothing(w)
    <3>1. verdict'[w] = "error"
      BY <2>3 DEF SiftsNothing, CleansUp, VerdictType
    <3> QED
      BY <1>1, <2>1, <3>1 DEF VerdictInv
  <2>4. CASE FindsNoNewFile(w) \/ FindsNoInternal(w)
    <3>1. FreshOf(w, "internal") = {} /\ FreshOf(w, "broken") = {} /\ pc[w] = "move"
      BY <2>4 DEF FindsNoNewFile, NoNewFile, FindsNoInternal, NoInternalTraffic, Streamed, FreshOf
    <3>2. Fresh(w) = tmp[nas[w]] \ checkpoint[nas[w]]
      BY <1>0, <3>1 DEF Snapshot, Fresh
    <3>3. Harmless(nas[w])
      BY <3>1, <3>2 DEF FreshOf, Harmless, Unsettled
    <3> QED
      BY <1>1, <2>1, <2>2, <3>3 DEF VerdictInv, Harmless
  <2> QED
    BY <1>5, <2>3, <2>4
<1>6. CASE AccountsTraffic(w)
  <2>1. pc[w] = "move" /\ pc'[w] = "saveChunks" /\ verdict' = verdict
    BY <1>0, <1>6, SavingPlaces DEF At, AccountsTraffic
  <2> QED
    BY <1>3, <2>1 DEF VerdictInv
<1>7. CASE SavesChunks(w)
  <2>1. Committed(w) /\ UNCHANGED <<nas, tmp, content>> /\ pc[w] = "commit"
    BY <1>7 DEF SavesChunks, Commit, Committed
  <2>2. tmp'[nas[w]] \ checkpoint'[nas[w]] = {}
    BY <1>0, <2>1, CommitEffect
  <2> QED
    BY <1>1, <1>0, <1>7, <2>1, <2>2, SavingPlaces DEF At, VerdictInv
<1>8. CASE FindsUnrecognized(w) \/ LosesCommitAnswer(w) \/ RemovalEnds(w) \/ ReturnsError(w) \/ Panics(w)
  BY <1>0, <1>2, <1>8, EndPlaces DEF EndsAt, At
<1> QED
  BY <1>4, <1>5, <1>6, <1>7, <1>8 DEF CountedStep

LEMMA OtherVerdict ==
    ASSUME IInv, VerdictType, NEW w \in Worker, VerdictInv(w), CountedStep(w),
           NEW v \in Worker, v # w, VerdictInv(v)
    PROVE  VerdictInv(v)'
<1>1. TypeOK /\ JobInv /\ Job(w) /\ LocalsKept(v) /\ UNCHANGED content
  BY CountedIsJob, JobFrame DEF IInv
<1>2. verdict'[v] = verdict[v] /\ entered' = entered
  BY <1>1, VerdictFrame, WorksBefore
<1>3. CASE pc[v] = "idle"
  BY <1>1, <1>2, <1>3 DEF LocalsKept, VerdictInv
<1>4. CASE pc[v] # "idle"
  <2>1. nas[v] \in Nas /\ nas[v] # nas[w]
    BY <1>1, <1>4, BusyNas, NoNasAssumption DEF JobInv
  <2>2. NasKept(nas[v])
    BY <1>1, <2>1, JobFrame
  <2> QED
    BY <1>1, <1>2, <2>2 DEF LocalsKept, NasKept, VerdictInv
<1> QED
  BY <1>3, <1>4

(***************************************************************************)
(* A job that leaves something behind.                                     *)
(***************************************************************************)
StageReported == \E s \in Stage : IncNASError(s)

LEMMA ReportedCounts ==
    ASSUME ReportTypeOK, StageReported PROVE Errors' > Errors
BY IncNASErrorAdds, SumsType DEF StageReported

\* The clean-up of a job that is not in error leaves no unsettled file that is not counted.
LEMMA CleanUpLeavesNothing ==
    ASSUME IInv, NEW w \in Worker, VerdictInv(w), verdict[w] # "error",
           pc[w] \in {"removeOld", "removeCheckpoint"},
           tmp'[nas[w]] \subseteq tmp[nas[w]],
           checkpoint'[nas[w]] = checkpoint[nas[w]] \/ pc[w] = "removeCheckpoint"
    PROVE  \A f \in tmp'[nas[w]] \ checkpoint'[nas[w]] : content[nas[w]][f] \notin Unsettled
<1>1. CASE pc[w] = "removeCheckpoint"
  BY <1>1 DEF IInv, SnapshotInv, Snapshot
<1>2. CASE pc[w] = "removeOld"
  BY <1>2 DEF VerdictInv
<1> QED
  BY <1>1, <1>2

LEMMA RemovalReported ==
    ASSUME NEW w \in Worker, RemovalReturns(w), verdict[w] = "error"
    PROVE  StageReported
BY DEF RemovalReturns, NasFailed, Stage, StageReported

LEMMA StageFailsReported ==
    ASSUME NEW w \in Worker, StageFails(w) PROVE StageReported
BY DEF StageFails, SaveFailed, NasFailed, Stage, StageReported

\* What the file system and the database are like when a job leaves the clean-up.
LEMMA RemovalEffect ==
    ASSUME TypeOK, JobInv, NEW w \in Worker,
           RemovalEnds(w) \/ (Fail(w) /\ pc[w] \in {"removeOld", "removeCheckpoint"})
    PROVE  /\ pc[w] \in {"removeOld", "removeCheckpoint"}
           /\ tmp'[nas[w]] \subseteq tmp[nas[w]]
           /\ checkpoint'[nas[w]] = checkpoint[nas[w]] \/ pc[w] = "removeCheckpoint"
<1>1. CASE RemoveByNasIP(w)
  BY <1>1 DEF RemoveByNasIP
<1>2. CASE RemoveOldFails(w)
  <2>1. nas[w] \in Nas
    BY <1>2, BusyNas DEF RemoveOldFails
  <2> QED
    BY <1>2, <2>1 DEF RemoveOldFails, TypeOK
<1>3. CASE Fail(w) /\ pc[w] \in {"removeOld", "removeCheckpoint"}
  BY <1>3 DEF Fail
<1> QED
  BY <1>1, <1>2, <1>3 DEF RemovalEnds

\* So a job that ends and leaves an unsettled file uncounted says so.
LEMMA EndReported ==
    ASSUME IInv, ReportTypeOK, NEW w \in Worker, VerdictInv(w), CountedStep(w), pc'[w] = "idle",
           NEW f \in tmp'[nas[w]] \ checkpoint'[nas[w]], content[nas[w]][f] \in Unsettled
    PROVE  StageReported \/ workerPanics' > workerPanics
<1>0. TypeOK /\ JobInv
  BY DEF IInv
<1>1. CASE Silent(w) \/ FindsNoNewFile(w) \/ FindsNoInternal(w) \/ SiftsNothing(w)
           \/ AccountsTraffic(w) \/ SavesChunks(w)
  BY <1>0, <1>1, SilentPlaces, CleanUpPlaces, SavingPlaces DEF At
<1>2. CASE FindsUnrecognized(w)
  BY <1>2 DEF FindsUnrecognized, Stage, StageReported
<1>3. CASE LosesCommitAnswer(w)
  BY <1>3 DEF LosesCommitAnswer, SaveFailed, NasFailed, Stage, StageReported
<1>4. CASE Panics(w)
  BY <1>4 DEF Panics, ReportTypeOK
<1>5. ASSUME RemovalReturns(w),
             RemovalEnds(w) \/ (Fail(w) /\ pc[w] \in {"removeOld", "removeCheckpoint"})
      PROVE  StageReported
  <2>1. verdict[w] = "error"
    BY <1>0, <1>5, RemovalEffect, CleanUpLeavesNothing
  <2> QED
    BY <1>5, <2>1, RemovalReported
<1>6. CASE RemovalEnds(w)
  BY <1>5, <1>6 DEF RemovalEnds
<1>7. CASE ReturnsError(w)
  <2>1. CASE StageFails(w)
    BY <2>1, StageFailsReported
  <2>2. CASE RemovalReturns(w) /\ pc[w] \in {"removeOld", "removeCheckpoint"}
    <3>1. Fail(w)
      BY <1>7, <2>2 DEF ReturnsError, RenameFails
    <3> QED
      BY <1>5, <2>2, <3>1
  <2> QED
    BY <1>7, <2>1, <2>2 DEF ReturnsError
<1> QED
  BY <1>1, <1>2, <1>3, <1>4, <1>6, <1>7 DEF CountedStep

LEMMA StuckStep ==
    ASSUME IInv, IInv', ReportTypeOK, \A v \in Worker : VerdictInv(v),
           [MetricsNext]_<<vars, metricVars>>,
           NEW w \in Worker, nas[w] # NoNas, nas'[w] = NoNas, entered' = entered,
           NEW f \in tmp'[nas[w]] \ checkpoint'[nas[w]], content[nas[w]][f] \in Unsettled
    PROVE  Errors' > Errors \/ workerPanics' > workerPanics
<1>0. TypeOK /\ JobInv /\ JobInv' /\ VerdictInv(w) /\ entered > 0
  BY DEF IInv, VerdictInv
<1>1. CASE UNCHANGED nas
  BY <1>1
<1>2. ASSUME NEW n \in Nas, Collector(n) PROVE UNCHANGED nas
  BY <1>2 DEF Collector, OpenSpool, Capture
<1>3. ASSUME NEW v \in Worker, NEW n \in Nas, NEW e \in BOOLEAN, StartsJob(v, n, e) PROVE FALSE
  BY <1>0, <1>3, NoNasAssumption DEF StartsJob, Begin, Enter, TypeOK
<1>4. CASE Restarts
  <2>1. entered' = 0 /\ entered \in Nat
    BY <1>4 DEF Restarts, ReportTypeOK
  <2> QED
    BY <1>0, <2>1
<1>5. ASSUME NEW v \in Worker, CountedStep(v)
      PROVE  Errors' > Errors \/ workerPanics' > workerPanics
  <2>1. v = w
    BY <1>0, <1>5, CountedIsJob, JobFrame DEF LocalsKept
  <2>2. pc'[w] = "idle"
    BY <1>0 DEF JobInv
  <2> QED
    BY <1>0, <1>5, <2>1, <2>2, EndReported, ReportedCounts
<1> QED
  BY <1>1, <1>2, <1>3, <1>4, <1>5 DEF MetricsNext

(***************************************************************************)
(* Every counter that goes up is matched by another one, or by a goroutine *)
(* that joins or leaves one of the three sets.                             *)
(***************************************************************************)
Open(w) == One(w \in Unreported)
Saves(w) == One(w \in Saving)
Owes(w) == One(w \in Unsifted)

Members(w, unreported, saving, unsifted) ==
    /\ Open(w) = unreported
    /\ Saves(w) = saving
    /\ Owes(w) = unsifted

Places(w) ==
    /\ pc[w] = "idle" => Members(w, 0, 0, 0)
    /\ pc[w] \in {"load", "list", "move"} => Members(w, 1, 0, 0)
    /\ pc[w] \in {"saveChunks", "saveNames", "commit"} => Members(w, 1, 1, 0)
    /\ pc[w] \in {"removeOld", "removeCheckpoint"} =>
          Members(w, One(verdict[w] # "none"), 0, One(verdict[w] = "error"))

LEMMA PlacesBefore ==
    ASSUME TypeOK, JobInv, NEW w \in Worker, VerdictInv(w) PROVE Places(w)
BY DEF JobInv, VerdictInv, Places, Members, Open, Saves, Owes, One, Unreported, Saving, Unsifted

LEMMA PlacesAfter ==
    ASSUME TypeOK', JobInv', NEW w \in Worker, VerdictInv(w)' PROVE Places(w)'
BY DEF JobInv, VerdictInv, Places, Members, Open, Saves, Owes, One, Unreported, Saving, Unsifted

Balanced(w) ==
    /\ Processed' + Open(w)' = Processed + Open(w)
    /\ Errors' + nasProcessed["error"] + nasProcessed["unrecognized"]
          = Errors + nasProcessed'["error"] + nasProcessed'["unrecognized"]
    /\ nasPhase'["save_chunks"] + nasProcessed["ok"] + nasErrors["save"]
          = nasPhase["save_chunks"] + nasProcessed'["ok"] + nasErrors'["save"]
    /\ nasPhase'["save_chunks"] + nasErrors'["sift"] + Saves(w)' + Owes(w)'
                + nasPhase["sift_traffic"]
          = nasPhase["save_chunks"] + nasErrors["sift"] + Saves(w) + Owes(w)
                + nasPhase'["sift_traffic"]

CountsType == ReportTypeOK' /\ workerPanics' = workerPanics

\* The values of the counters before a step.
LEMMA CountsBefore ==
    ASSUME ReportTypeOK
    PROVE  /\ \A x \in Result : nasProcessed[x] \in Nat
           /\ \A x \in Stage : nasErrors[x] \in Nat
           /\ \A x \in Phase : nasPhase[x] \in Nat
           /\ Processed \in Nat /\ Errors \in Nat
BY SumsType DEF ReportTypeOK

\* What an ended transaction, stage or clean-up counts.
LEMMA NasFailedAdds ==
    ASSUME ReportTypeOK, NEW s \in Stage, NasFailed(s)
    PROVE  /\ nasProcessed' \in [Result -> Nat] /\ nasErrors' \in [Stage -> Nat]
           /\ Processed' = Processed + 1 /\ Errors' = Errors + 1
           /\ \A x \in Result : nasProcessed'[x] = nasProcessed[x] + One(x = "error")
           /\ \A x \in Stage : nasErrors'[x] = nasErrors[x] + One(x = s)
<1>1. "error" \in Result
  BY DEF Result
<1> QED
  BY <1>1, IncNASAdds, IncNASErrorAdds DEF NasFailed

LEMMA BalancedSilent ==
    ASSUME IInv, ReportTypeOK, NEW w \in Worker, Places(w), Places(w)', VerdictType',
           Silent(w), UNCHANGED metricVars
    PROVE  Balanced(w) /\ CountsType
<1>1. Open(w)' = Open(w) /\ Saves(w)' = Saves(w) /\ Owes(w)' = Owes(w)
  <2>1. TypeOK /\ verdict'[w] = verdict[w]
    BY DEF IInv
  <2> QED
    BY <2>1, SilentPlaces DEF At, Places, Members
<1>2. UNCHANGED <<nasProcessed, nasErrors, nasPhase, workerPanics, entered, verdict>>
  OBVIOUS
<1>3. CountsType
  BY <1>2 DEF CountsType, ReportTypeOK
<1> QED
  BY <1>1, <1>2, <1>3 DEF Balanced, Processed, Errors

LEMMA BalancedCleansUp ==
    ASSUME IInv, ReportTypeOK, NEW w \in Worker, Places(w), Places(w)', VerdictType',
           FindsNoNewFile(w) \/ FindsNoInternal(w) \/ SiftsNothing(w)
    PROVE  Balanced(w) /\ CountsType
<1>1. TypeOK /\ VerdictType' /\ At(w, {"move"}, {"removeOld"})
  BY CleanUpPlaces DEF IInv
<1>2. PICK r \in {"no_new", "no_internal", "error"} :
          /\ verdict' = [verdict EXCEPT ![w] = r]
          /\ ObserveNASPhase({"stream_flow"} \cup (IF r = "error" THEN {"sift_traffic"} ELSE {}))
          /\ UNCHANGED <<nasProcessed, nasErrors, workerPanics, entered>>
  <2>1. FindsNoNewFile(w) => CleansUp(w, "no_new", {"stream_flow"})
    BY DEF FindsNoNewFile
  <2>2. FindsNoInternal(w) => CleansUp(w, "no_internal", {"stream_flow"})
    BY DEF FindsNoInternal
  <2>3. SiftsNothing(w) => CleansUp(w, "error", {"stream_flow", "sift_traffic"})
    BY DEF SiftsNothing
  <2>4. {"stream_flow"} \cup {"sift_traffic"} = {"stream_flow", "sift_traffic"}
        /\ {"stream_flow"} \cup {} = {"stream_flow"}
    OBVIOUS
  <2> QED
    BY <2>1, <2>2, <2>3, <2>4 DEF CleansUp
<1>3. verdict'[w] = r
  BY <1>2 DEF ReportTypeOK
<1>4. Members(w, 1, 0, 0) /\ Members(w, 1, 0, One(r = "error"))'
  BY <1>1, <1>2, <1>3 DEF At, Places, Members, One
<1>5. /\ nasPhase' \in [Phase -> Nat]
      /\ nasPhase'["save_chunks"] = nasPhase["save_chunks"]
      /\ nasPhase'["sift_traffic"] = nasPhase["sift_traffic"] + One(r = "error")
  BY <1>2, PhaseAdds, CountsBefore DEF Phase, One
<1>6. CountsType
  BY <1>1, <1>2, <1>5 DEF CountsType, ReportTypeOK, VerdictType
<1>7. nasPhase["save_chunks"] \in Nat /\ nasPhase["sift_traffic"] \in Nat
  BY CountsBefore DEF Phase
<1>8. One(r = "error") \in Nat
  BY DEF One
<1>9. /\ nasProcessed' = nasProcessed /\ nasErrors' = nasErrors
      /\ Processed' = Processed /\ Errors' = Errors
  BY <1>2 DEF Processed, Errors
<1>10. nasErrors["sift"] \in Nat
  BY CountsBefore DEF Stage
<1> QED
  BY <1>4, <1>5, <1>6, <1>7, <1>8, <1>9, <1>10 DEF Balanced, Members

LEMMA BalancedAccounts ==
    ASSUME IInv, ReportTypeOK, NEW w \in Worker, Places(w), Places(w)', VerdictType',
           AccountsTraffic(w)
    PROVE  Balanced(w) /\ CountsType
<1>1. /\ At(w, {"move"}, {"saveChunks"})
      /\ ObserveNASPhase({"stream_flow", "sift_traffic"})
      /\ UNCHANGED <<nasProcessed, nasErrors, workerPanics, entered, verdict>>
  BY SavingPlaces DEF IInv, AccountsTraffic
<1>2. Members(w, 1, 0, 0) /\ Members(w, 1, 1, 0)'
  BY <1>1 DEF At, Places, Members
<1>3. /\ nasPhase' \in [Phase -> Nat]
      /\ nasPhase'["save_chunks"] = nasPhase["save_chunks"]
      /\ nasPhase'["sift_traffic"] = nasPhase["sift_traffic"] + 1
  BY <1>1, PhaseAdds, CountsBefore DEF Phase, One
<1>4. CountsType
  BY <1>1, <1>3 DEF CountsType, ReportTypeOK
<1>5. /\ nasProcessed' = nasProcessed /\ nasErrors' = nasErrors
      /\ Processed' = Processed /\ Errors' = Errors
  BY <1>1 DEF Processed, Errors
<1>6. /\ nasPhase["save_chunks"] \in Nat /\ nasPhase["sift_traffic"] \in Nat
      /\ nasErrors["sift"] \in Nat
  BY CountsBefore DEF Phase, Stage
<1> QED
  BY <1>2, <1>3, <1>4, <1>5, <1>6 DEF Balanced, Members

LEMMA BalancedSaves ==
    ASSUME IInv, ReportTypeOK, NEW w \in Worker, Places(w), Places(w)', VerdictType',
           verdict'[w] = "none", SavesChunks(w)
    PROVE  Balanced(w) /\ CountsType
<1>1. /\ At(w, {"commit"}, {"removeOld"})
      /\ ObserveNASPhase({"save_chunks"}) /\ IncNAS("ok")
      /\ UNCHANGED <<nasErrors, workerPanics, entered, verdict>>
  BY SavingPlaces DEF IInv, SavesChunks
<1>2. Members(w, 1, 1, 0) /\ Members(w, 0, 0, 0)'
  BY <1>1 DEF At, Places, Members, One
<1>3. /\ nasPhase' \in [Phase -> Nat]
      /\ nasPhase'["save_chunks"] = nasPhase["save_chunks"] + 1
      /\ nasPhase'["sift_traffic"] = nasPhase["sift_traffic"]
  BY <1>1, PhaseAdds, CountsBefore DEF Phase, One
<1>4. /\ nasProcessed' \in [Result -> Nat] /\ Processed' = Processed + 1
      /\ nasProcessed'["ok"] = nasProcessed["ok"] + 1
      /\ nasProcessed'["error"] = nasProcessed["error"]
      /\ nasProcessed'["unrecognized"] = nasProcessed["unrecognized"]
  BY <1>1, IncNASAdds, CountsBefore DEF Result, One
<1>5. CountsType
  BY <1>1, <1>3, <1>4 DEF CountsType, ReportTypeOK
<1>6. nasErrors' = nasErrors /\ Errors' = Errors
  BY <1>1 DEF Errors
<1>7. /\ nasPhase["save_chunks"] \in Nat /\ nasPhase["sift_traffic"] \in Nat
      /\ nasErrors["sift"] \in Nat /\ nasErrors["save"] \in Nat /\ nasProcessed["ok"] \in Nat
      /\ Processed \in Nat
  BY CountsBefore DEF Phase, Stage, Result
<1> QED
  BY <1>2, <1>3, <1>4, <1>5, <1>6, <1>7 DEF Balanced, Members

LEMMA BalancedUnrecognized ==
    ASSUME IInv, ReportTypeOK, NEW w \in Worker, Places(w), Places(w)', VerdictType',
           FindsUnrecognized(w)
    PROVE  Balanced(w) /\ CountsType
<1>1. /\ EndsAt(w, {"move"}) /\ IncNASError("parse") /\ IncNAS("unrecognized")
      /\ ObserveNASPhase({"stream_flow"}) /\ UNCHANGED <<workerPanics, entered, verdict>>
  BY EndPlaces DEF IInv, FindsUnrecognized
<1>2. Members(w, 1, 0, 0) /\ Members(w, 0, 0, 0)'
  BY <1>1 DEF EndsAt, At, Places, Members
<1>3. /\ nasPhase' \in [Phase -> Nat]
      /\ nasPhase'["save_chunks"] = nasPhase["save_chunks"]
      /\ nasPhase'["sift_traffic"] = nasPhase["sift_traffic"]
  BY <1>1, PhaseAdds, CountsBefore DEF Phase, One
<1>4. /\ nasProcessed' \in [Result -> Nat] /\ Processed' = Processed + 1
      /\ nasProcessed'["ok"] = nasProcessed["ok"]
      /\ nasProcessed'["error"] = nasProcessed["error"]
      /\ nasProcessed'["unrecognized"] = nasProcessed["unrecognized"] + 1
  BY <1>1, IncNASAdds, CountsBefore DEF Result, One
<1>5. /\ nasErrors' \in [Stage -> Nat] /\ Errors' = Errors + 1
      /\ nasErrors'["save"] = nasErrors["save"] /\ nasErrors'["sift"] = nasErrors["sift"]
  BY <1>1, IncNASErrorAdds, CountsBefore DEF Stage, One
<1>6. CountsType
  BY <1>1, <1>3, <1>4, <1>5 DEF CountsType, ReportTypeOK
<1>7. /\ Processed \in Nat /\ Errors \in Nat
      /\ nasProcessed["error"] \in Nat /\ nasProcessed["unrecognized"] \in Nat
  BY CountsBefore DEF Result
<1> QED
  BY <1>2, <1>3, <1>4, <1>5, <1>6, <1>7 DEF Balanced, Members

\* A transaction that failed, as its caller sees it.
LEMMA BalancedSaveFails ==
    ASSUME ReportTypeOK, NEW w \in Worker, Members(w, 1, 1, 0), Members(w, 0, 0, 0)', VerdictType',
           SaveFailed, UNCHANGED <<workerPanics, entered>>
    PROVE  Balanced(w) /\ CountsType
<1>1. ObserveNASPhase({"save_chunks"}) /\ NasFailed("save")
  BY DEF SaveFailed
<1>2. /\ nasPhase' \in [Phase -> Nat]
      /\ nasPhase'["save_chunks"] = nasPhase["save_chunks"] + 1
      /\ nasPhase'["sift_traffic"] = nasPhase["sift_traffic"]
  BY <1>1, PhaseAdds, CountsBefore DEF Phase, One
<1>3. "save" \in Stage
  BY DEF Stage
<1>4. /\ nasProcessed' \in [Result -> Nat] /\ nasErrors' \in [Stage -> Nat]
      /\ Processed' = Processed + 1 /\ Errors' = Errors + 1
      /\ \A x \in Result : nasProcessed'[x] = nasProcessed[x] + One(x = "error")
      /\ \A x \in Stage : nasErrors'[x] = nasErrors[x] + One(x = "save")
  BY <1>1, <1>3, NasFailedAdds
<1>5. /\ nasProcessed'["ok"] = nasProcessed["ok"]
      /\ nasProcessed'["error"] = nasProcessed["error"] + 1
      /\ nasProcessed'["unrecognized"] = nasProcessed["unrecognized"]
      /\ nasErrors'["save"] = nasErrors["save"] + 1
      /\ nasErrors'["sift"] = nasErrors["sift"]
  BY <1>4, CountsBefore DEF Result, Stage, One
<1>6. CountsType
  BY <1>2, <1>4 DEF CountsType, ReportTypeOK, VerdictType
<1>7. /\ nasPhase["save_chunks"] \in Nat /\ nasPhase["sift_traffic"] \in Nat
      /\ nasErrors["sift"] \in Nat /\ nasErrors["save"] \in Nat /\ nasProcessed["ok"] \in Nat
      /\ nasProcessed["error"] \in Nat /\ nasProcessed["unrecognized"] \in Nat
      /\ Processed \in Nat /\ Errors \in Nat
  BY CountsBefore DEF Phase, Stage, Result
<1> QED
  BY <1>2, <1>4, <1>5, <1>6, <1>7 DEF Balanced, Members

\* A stage before the transaction that failed.
LEMMA BalancedStage ==
    ASSUME ReportTypeOK, NEW w \in Worker, Members(w, 1, 0, 0), Members(w, 0, 0, 0)', VerdictType',
           NEW s \in {"checkpoint", "prepare"}, NasFailed(s),
           \/ UNCHANGED nasPhase
           \/ ObserveNASPhase({"stream_flow"}),
           UNCHANGED <<workerPanics, entered>>
    PROVE  Balanced(w) /\ CountsType
<1>1. /\ nasPhase' \in [Phase -> Nat]
      /\ nasPhase'["save_chunks"] = nasPhase["save_chunks"]
      /\ nasPhase'["sift_traffic"] = nasPhase["sift_traffic"]
  <2>1. CASE UNCHANGED nasPhase
    BY <2>1 DEF ReportTypeOK
  <2>2. CASE ObserveNASPhase({"stream_flow"})
    BY <2>2, PhaseAdds, CountsBefore DEF Phase, One
  <2> QED
    BY <2>1, <2>2
<1>2. s \in Stage
  BY DEF Stage
<1>3. /\ nasProcessed' \in [Result -> Nat] /\ nasErrors' \in [Stage -> Nat]
      /\ Processed' = Processed + 1 /\ Errors' = Errors + 1
      /\ \A x \in Result : nasProcessed'[x] = nasProcessed[x] + One(x = "error")
      /\ \A x \in Stage : nasErrors'[x] = nasErrors[x] + One(x = s)
  BY <1>2, NasFailedAdds
<1>4. /\ nasProcessed'["ok"] = nasProcessed["ok"]
      /\ nasProcessed'["error"] = nasProcessed["error"] + 1
      /\ nasProcessed'["unrecognized"] = nasProcessed["unrecognized"]
      /\ nasErrors'["save"] = nasErrors["save"]
      /\ nasErrors'["sift"] = nasErrors["sift"]
  BY <1>3, CountsBefore DEF Result, Stage, One
<1>5. CountsType
  BY <1>1, <1>3 DEF CountsType, ReportTypeOK, VerdictType
<1>6. /\ nasProcessed["error"] \in Nat /\ nasProcessed["unrecognized"] \in Nat
      /\ Processed \in Nat /\ Errors \in Nat
  BY CountsBefore DEF Result
<1> QED
  BY <1>1, <1>3, <1>4, <1>5, <1>6 DEF Balanced, Members

\* The clean-up counts what it was told to count, or nothing after a commit.
LEMMA BalancedRemoval ==
    ASSUME ReportTypeOK, NEW w \in Worker,
           Members(w, One(verdict[w] # "none"), 0, One(verdict[w] = "error")),
           Members(w, 0, 0, 0)', VerdictType', RemovalReturns(w)
    PROVE  Balanced(w) /\ CountsType
<1>1. UNCHANGED <<nasPhase, workerPanics, entered>>
  BY DEF RemovalReturns
<1>2. /\ nasPhase["save_chunks"] \in Nat /\ nasPhase["sift_traffic"] \in Nat
      /\ nasErrors["sift"] \in Nat /\ nasErrors["save"] \in Nat /\ nasProcessed["ok"] \in Nat
      /\ nasProcessed["error"] \in Nat /\ nasProcessed["unrecognized"] \in Nat
      /\ Processed \in Nat /\ Errors \in Nat
  BY CountsBefore DEF Phase, Stage, Result
<1>3. CASE verdict[w] = "none" /\ UNCHANGED <<nasProcessed, nasErrors>>
  <2>1. Members(w, 0, 0, 0)
    BY <1>3 DEF One
  <2>2. CountsType
    BY <1>1, <1>3 DEF CountsType, ReportTypeOK, VerdictType
  <2> QED
    BY <1>1, <1>2, <1>3, <2>1, <2>2 DEF Balanced, Members, Processed, Errors
<1>4. CASE verdict[w] \in {"no_new", "no_internal"} /\ IncNAS(verdict[w]) /\ UNCHANGED nasErrors
  <2>1. Members(w, 1, 0, 0)
    BY <1>4 DEF One
  <2>2. PICK r \in {"no_new", "no_internal"} : verdict[w] = r /\ IncNAS(r)
    BY <1>4
  <2>3. /\ nasProcessed' \in [Result -> Nat] /\ Processed' = Processed + 1
        /\ \A x \in Result : nasProcessed'[x] = nasProcessed[x] + One(x = r)
    BY <2>2, IncNASAdds DEF Result
  <2>4. /\ nasProcessed'["ok"] = nasProcessed["ok"]
        /\ nasProcessed'["error"] = nasProcessed["error"]
        /\ nasProcessed'["unrecognized"] = nasProcessed["unrecognized"]
    BY <1>2, <2>3 DEF Result, One
  <2>5. CountsType
    BY <1>1, <1>4, <2>3 DEF CountsType, ReportTypeOK, VerdictType
  <2>6. nasErrors' = nasErrors /\ Errors' = Errors
    BY <1>4 DEF Errors
  <2> QED
    BY <1>1, <1>2, <2>1, <2>3, <2>4, <2>5, <2>6 DEF Balanced, Members
<1>5. CASE verdict[w] = "error" /\ NasFailed("sift")
  <2>1. Members(w, 1, 0, 1)
    BY <1>5 DEF One
  <2>2. "sift" \in Stage
    BY DEF Stage
  <2>3. /\ nasProcessed' \in [Result -> Nat] /\ nasErrors' \in [Stage -> Nat]
        /\ Processed' = Processed + 1 /\ Errors' = Errors + 1
        /\ \A x \in Result : nasProcessed'[x] = nasProcessed[x] + One(x = "error")
        /\ \A x \in Stage : nasErrors'[x] = nasErrors[x] + One(x = "sift")
    BY <1>5, <2>2, NasFailedAdds
  <2>4. /\ nasProcessed'["ok"] = nasProcessed["ok"]
        /\ nasProcessed'["error"] = nasProcessed["error"] + 1
        /\ nasProcessed'["unrecognized"] = nasProcessed["unrecognized"]
        /\ nasErrors'["save"] = nasErrors["save"]
        /\ nasErrors'["sift"] = nasErrors["sift"] + 1
    BY <1>2, <2>3 DEF Result, Stage, One
  <2>5. CountsType
    BY <1>1, <2>3 DEF CountsType, ReportTypeOK, VerdictType
  <2> QED
    BY <1>1, <1>2, <2>1, <2>3, <2>4, <2>5 DEF Balanced, Members
<1> QED
  BY <1>3, <1>4, <1>5 DEF RemovalReturns

\* A call that returns an error ends the job in the state it was in.
LEMMA BalancedReturnsError ==
    ASSUME IInv, ReportTypeOK, NEW w \in Worker, Places(w), Places(w)', VerdictType',
           ReturnsError(w)
    PROVE  Balanced(w) /\ CountsType
<1>1. Members(w, 0, 0, 0)'
  <2>1. pc'[w] = "idle"
    BY EndPlaces DEF IInv
  <2> QED
    BY <2>1 DEF Places
<1>2. CASE pc[w] \in {"removeOld", "removeCheckpoint"} /\ RemovalReturns(w)
  <2>1. Members(w, One(verdict[w] # "none"), 0, One(verdict[w] = "error"))
    BY <1>2 DEF Places
  <2> QED
    BY <1>1, <1>2, <2>1, BalancedRemoval
<1>3. CASE StageFails(w) /\ UNCHANGED <<workerPanics, entered>>
  <2>1. CASE pc[w] = "load" /\ NasFailed("checkpoint") /\ UNCHANGED nasPhase
    <3>1. Members(w, 1, 0, 0)
      BY <2>1 DEF Places
    <3> QED
      BY <1>1, <1>3, <2>1, <3>1, BalancedStage
  <2>2. CASE pc[w] \in {"list", "move"} /\ NasFailed("prepare") /\ ObserveNASPhase({"stream_flow"})
    <3>1. Members(w, 1, 0, 0)
      BY <2>2 DEF Places
    <3> QED
      BY <1>1, <1>3, <2>2, <3>1, BalancedStage
  <2>3. CASE pc[w] \in {"saveChunks", "saveNames", "commit"} /\ SaveFailed
    <3>1. Members(w, 1, 1, 0)
      BY <2>3 DEF Places
    <3> QED
      BY <1>1, <1>3, <2>3, <3>1, BalancedSaveFails
  <2> QED
    BY <1>3, <2>1, <2>2, <2>3 DEF StageFails
<1> QED
  BY <1>2, <1>3 DEF ReturnsError

LEMMA BalancedEnds ==
    ASSUME IInv, ReportTypeOK, NEW w \in Worker, Places(w), Places(w)', VerdictType',
           LosesCommitAnswer(w) \/ RemovalEnds(w)
    PROVE  Balanced(w) /\ CountsType
<1>1. CASE LosesCommitAnswer(w)
  <2>1. EndsAt(w, {"commit"})
    BY <1>1, EndPlaces DEF IInv
  <2>2. Members(w, 1, 1, 0) /\ Members(w, 0, 0, 0)'
    BY <2>1 DEF EndsAt, At, Places
  <2>3. SaveFailed /\ UNCHANGED <<workerPanics, entered>>
    BY <1>1 DEF LosesCommitAnswer
  <2> QED
    BY <2>2, <2>3, BalancedSaveFails
<1>2. CASE RemovalEnds(w)
  <2>1. EndsAt(w, {"removeOld", "removeCheckpoint"})
    BY <1>2, EndPlaces DEF IInv
  <2>2. Members(w, One(verdict[w] # "none"), 0, One(verdict[w] = "error")) /\ Members(w, 0, 0, 0)'
    BY <2>1 DEF EndsAt, At, Places
  <2>3. RemovalReturns(w)
    BY <1>2 DEF RemovalEnds
  <2> QED
    BY <2>2, <2>3, BalancedRemoval
<1> QED
  BY <1>1, <1>2

LEMMA BalancedStep ==
    ASSUME IInv, ReportTypeOK, NEW w \in Worker, VerdictInv(w), Places(w), Places(w)',
           CountedStep(w), ~Panics(w)
    PROVE  Balanced(w) /\ CountsType
<1>1. TypeOK /\ VerdictType /\ VerdictType'
  BY VerdictFrame DEF IInv, ReportTypeOK, VerdictType
<1>2. SavesChunks(w) => verdict'[w] = "none"
  <2> SUFFICES ASSUME SavesChunks(w) PROVE verdict'[w] = "none"
    OBVIOUS
  <2>1. pc[w] = "commit" /\ verdict' = verdict
    BY <1>1, SavingPlaces DEF At, SavesChunks
  <2> QED
    BY <2>1 DEF VerdictInv
<1> QED
  BY <1>1, <1>2, BalancedSilent, BalancedCleansUp, BalancedUnrecognized, BalancedAccounts,
     BalancedSaves, BalancedEnds, BalancedReturnsError DEF CountedStep

\* The sets change with the goroutine of the step alone.
LEMMA MembersMove ==
    ASSUME IInv, IInv', ReportTypeOK, NEW w \in Worker, VerdictInv(w), CountedStep(w)
    PROVE  /\ Cardinality(Unreported) \in Nat /\ Cardinality(Unreported)' \in Nat
           /\ Cardinality(Saving) \in Nat /\ Cardinality(Saving)' \in Nat
           /\ Cardinality(Unsifted) \in Nat /\ Cardinality(Unsifted)' \in Nat
           /\ Cardinality(Unreported)' + Open(w) = Cardinality(Unreported) + Open(w)'
           /\ Cardinality(Saving)' + Saves(w) = Cardinality(Saving) + Saves(w)'
           /\ Cardinality(Unsifted)' + Owes(w) = Cardinality(Unsifted) + Owes(w)'
<1>1. \A v \in Worker \ {w} : LocalsKept(v) /\ verdict'[v] = verdict[v]
  BY CountedIsJob, JobFrame, VerdictFrame DEF IInv, ReportTypeOK, VerdictType
<1>2. /\ Unreported \in SUBSET Worker /\ Unreported' \in SUBSET Worker
      /\ Saving \in SUBSET Worker /\ Saving' \in SUBSET Worker
      /\ Unsifted \in SUBSET Worker /\ Unsifted' \in SUBSET Worker
  BY DEF Unreported, Saving, Unsifted
<1>3. \A v \in Worker \ {w} : v \in Unreported <=> v \in Unreported'
  BY <1>1 DEF Unreported, LocalsKept
<1>4. \A v \in Worker \ {w} : v \in Saving <=> v \in Saving'
  BY <1>1 DEF Saving, LocalsKept
<1>5. \A v \in Worker \ {w} : v \in Unsifted <=> v \in Unsifted'
  BY <1>1 DEF Unsifted
<1>6. /\ Open(w)' = One(w \in Unreported') /\ Saves(w)' = One(w \in Saving')
      /\ Owes(w)' = One(w \in Unsifted')
  BY DEF Open, Saves, Owes, One
<1>7. /\ Cardinality(Unreported) \in Nat /\ Cardinality(Unreported') \in Nat
      /\ Cardinality(Unreported') + One(w \in Unreported)
            = Cardinality(Unreported) + One(w \in Unreported')
  BY <1>2, <1>3, OneMember
<1>8. /\ Cardinality(Saving) \in Nat /\ Cardinality(Saving') \in Nat
      /\ Cardinality(Saving') + One(w \in Saving) = Cardinality(Saving) + One(w \in Saving')
  BY <1>2, <1>4, OneMember
<1>9. /\ Cardinality(Unsifted) \in Nat /\ Cardinality(Unsifted') \in Nat
      /\ Cardinality(Unsifted') + One(w \in Unsifted)
            = Cardinality(Unsifted) + One(w \in Unsifted')
  BY <1>2, <1>5, OneMember
<1> QED
  BY <1>6, <1>7, <1>8, <1>9 DEF Open, Saves, Owes

\* The sums before a step, as numbers.
LEMMA SumsBefore ==
    ASSUME ReportTypeOK, EveryJobReported,
           Cardinality(Unreported) \in Nat, Cardinality(Saving) \in Nat, Cardinality(Unsifted) \in Nat
    PROVE  /\ Processed + Cardinality(Unreported) <= entered
           /\ entered <= Processed + Cardinality(Unreported) + workerPanics
           /\ Errors = nasProcessed["error"] + nasProcessed["unrecognized"]
           /\ nasPhase["save_chunks"] = nasProcessed["ok"] + nasErrors["save"]
           /\ nasPhase["save_chunks"] + nasErrors["sift"] + Cardinality(Saving)
                + Cardinality(Unsifted) <= nasPhase["sift_traffic"]
           /\ nasPhase["sift_traffic"] <= nasPhase["save_chunks"] + nasErrors["sift"]
                + Cardinality(Saving) + Cardinality(Unsifted) + workerPanics
BY DEF EveryJobReported, OutcomesAddUp, PhasesAddUp

LEMMA OneType == ASSUME NEW w \in Worker PROVE Open(w) \in Nat /\ Saves(w) \in Nat /\ Owes(w) \in Nat
BY DEF Open, Saves, Owes, One

LEMMA OneTypeAfter ==
    ASSUME NEW w \in Worker PROVE Open(w)' \in Nat /\ Saves(w)' \in Nat /\ Owes(w)' \in Nat
BY DEF Open, Saves, Owes, One

LEMMA ReportedAfter ==
    ASSUME IInv, IInv', ReportTypeOK, EveryJobReported, NEW w \in Worker, VerdictInv(w),
           CountedStep(w), Balanced(w), CountsType
    PROVE  EveryJobReported'
<1>1. /\ Cardinality(Unreported) \in Nat /\ Cardinality(Unreported)' \in Nat
      /\ Cardinality(Saving) \in Nat /\ Cardinality(Saving)' \in Nat
      /\ Cardinality(Unsifted) \in Nat /\ Cardinality(Unsifted)' \in Nat
      /\ Cardinality(Unreported)' + Open(w) = Cardinality(Unreported) + Open(w)'
      /\ Cardinality(Saving)' + Saves(w) = Cardinality(Saving) + Saves(w)'
      /\ Cardinality(Unsifted)' + Owes(w) = Cardinality(Unsifted) + Owes(w)'
  BY MembersMove
<1>2. /\ entered' = entered /\ entered \in Nat /\ workerPanics' = workerPanics
      /\ workerPanics \in Nat /\ ReportTypeOK'
  BY WorksBefore DEF IInv, ReportTypeOK, CountsType
<1>3. /\ Processed \in Nat /\ Processed' \in Nat /\ Errors \in Nat /\ Errors' \in Nat
      /\ nasProcessed["error"] \in Nat /\ nasProcessed'["error"] \in Nat
      /\ nasProcessed["unrecognized"] \in Nat /\ nasProcessed'["unrecognized"] \in Nat
      /\ nasProcessed["ok"] \in Nat /\ nasProcessed'["ok"] \in Nat
      /\ nasErrors["save"] \in Nat /\ nasErrors'["save"] \in Nat
      /\ nasErrors["sift"] \in Nat /\ nasErrors'["sift"] \in Nat
      /\ nasPhase["save_chunks"] \in Nat /\ nasPhase'["save_chunks"] \in Nat
      /\ nasPhase["sift_traffic"] \in Nat /\ nasPhase'["sift_traffic"] \in Nat
  <2>1. /\ "error" \in Result /\ "unrecognized" \in Result /\ "ok" \in Result
        /\ "save" \in Stage /\ "sift" \in Stage
        /\ "save_chunks" \in Phase /\ "sift_traffic" \in Phase
    BY DEF Result, Stage, Phase
  <2>2. Processed' \in Nat /\ Errors' \in Nat
    BY <1>2 DEF ReportTypeOK, Processed, Errors, Result, Stage
  <2> QED
    BY <1>2, <2>1, <2>2, CountsBefore DEF ReportTypeOK
<1>4. /\ Open(w) \in Nat /\ Open(w)' \in Nat /\ Saves(w) \in Nat /\ Saves(w)' \in Nat
      /\ Owes(w) \in Nat /\ Owes(w)' \in Nat
  BY OneType, OneTypeAfter
<1>5. OutcomesAddUp'
  <2>1. /\ Processed' + Cardinality(Unreported)' <= entered'
        /\ entered' <= Processed' + Cardinality(Unreported)' + workerPanics'
    BY <1>1, <1>2, <1>3, <1>4, SumsBefore DEF Balanced
  <2>2. Errors = nasProcessed["error"] + nasProcessed["unrecognized"]
    BY <1>1, SumsBefore
  <2>3. Errors' + nasProcessed["error"] + nasProcessed["unrecognized"]
          = Errors + nasProcessed'["error"] + nasProcessed'["unrecognized"]
    BY DEF Balanced
  <2>4. Errors' = nasProcessed'["error"] + nasProcessed'["unrecognized"]
    BY <1>3, <2>2, <2>3
  <2> QED
    BY <2>1, <2>4 DEF OutcomesAddUp
<1>6. PhasesAddUp'
  <2> DEFINE held == Cardinality(Saving)
             owed == Cardinality(Unsifted)
             first == nasPhase["save_chunks"] + nasErrors["sift"] + held + owed
             last == nasPhase'["save_chunks"] + nasErrors'["sift"] + held' + owed'
  <2>1. nasPhase'["save_chunks"] = nasProcessed'["ok"] + nasErrors'["save"]
    BY <1>1, <1>3, SumsBefore DEF Balanced
  <2>2. last + nasPhase["sift_traffic"] = first + nasPhase'["sift_traffic"]
    BY <1>1, <1>3, <1>4 DEF Balanced
  <2>3. first \in Nat /\ last \in Nat
    BY <1>1, <1>3
  <2>4. first <= nasPhase["sift_traffic"] /\ nasPhase["sift_traffic"] <= first + workerPanics
    BY <1>1, SumsBefore
  <2>5. last <= nasPhase'["sift_traffic"] /\ nasPhase'["sift_traffic"] <= last + workerPanics'
    <3> HIDE DEF first, last
    <3> QED
      BY <1>2, <1>3, <2>2, <2>3, <2>4
  <2> QED
    BY <2>1, <2>5 DEF PhasesAddUp
<1> QED
  BY <1>5, <1>6 DEF EveryJobReported

\* A panic takes the goroutine out of every set and is the error of both bounds.
LEMMA ReportedPanic ==
    ASSUME IInv, IInv', ReportTypeOK, EveryJobReported, NEW w \in Worker, VerdictInv(w),
           CountedStep(w), Panics(w), Places(w), Places(w)'
    PROVE  ReportTypeOK' /\ EveryJobReported'
<1>1. /\ Cardinality(Unreported) \in Nat /\ Cardinality(Unreported)' \in Nat
      /\ Cardinality(Saving) \in Nat /\ Cardinality(Saving)' \in Nat
      /\ Cardinality(Unsifted) \in Nat /\ Cardinality(Unsifted)' \in Nat
      /\ Cardinality(Unreported)' + Open(w) = Cardinality(Unreported) + Open(w)'
      /\ Cardinality(Saving)' + Saves(w) = Cardinality(Saving) + Saves(w)'
      /\ Cardinality(Unsifted)' + Owes(w) = Cardinality(Unsifted) + Owes(w)'
  BY MembersMove
<1>2. /\ UNCHANGED <<nasProcessed, nasErrors, nasPhase, entered>>
      /\ workerPanics' = workerPanics + 1 /\ workerPanics \in Nat /\ entered \in Nat
  BY DEF Panics, ReportTypeOK
<1>3. Members(w, 0, 0, 0)'
  <2>1. pc'[w] = "idle"
    BY EndPlaces DEF IInv
  <2> QED
    BY <2>1 DEF Places
<1>4. /\ Open(w) \in {0, 1} /\ Saves(w) \in {0, 1} /\ Owes(w) \in {0, 1}
      /\ Saves(w) + Owes(w) <= 1
  <2>1. /\ Open(w) \in {0, 1} /\ Saves(w) \in {0, 1} /\ Owes(w) \in {0, 1}
    BY DEF Open, Saves, Owes, One
  <2>2. Saves(w) = 0 \/ Owes(w) = 0
    BY DEF VerdictInv, Saves, Owes, Saving, Unsifted, One
  <2> QED
    BY <2>1, <2>2
<1>5. /\ Processed \in Nat /\ nasPhase["save_chunks"] \in Nat /\ nasPhase["sift_traffic"] \in Nat
      /\ nasErrors["sift"] \in Nat
  BY CountsBefore DEF Phase, Stage
<1>6. ReportTypeOK'
  BY <1>2, VerdictFrame DEF IInv, ReportTypeOK, VerdictType
<1>7. OutcomesAddUp'
  <2>1. Processed' = Processed /\ Errors' = Errors
    BY <1>2 DEF Processed, Errors
  <2>2. Cardinality(Unreported)' + Open(w) = Cardinality(Unreported)
    BY <1>1, <1>3 DEF Members
  <2>3. /\ Processed + Cardinality(Unreported)' <= entered
        /\ entered <= Processed + Cardinality(Unreported)' + (workerPanics + 1)
    BY <1>1, <1>2, <1>4, <1>5, <2>2, SumsBefore
  <2> QED
    BY <1>1, <1>2, <2>1, <2>3, SumsBefore DEF OutcomesAddUp
<1>8. PhasesAddUp'
  <2>1. /\ Cardinality(Saving)' + Saves(w) = Cardinality(Saving)
        /\ Cardinality(Unsifted)' + Owes(w) = Cardinality(Unsifted)
    BY <1>1, <1>3 DEF Members
  <2>2. /\ nasPhase["save_chunks"] + nasErrors["sift"] + Cardinality(Saving)'
             + Cardinality(Unsifted)' <= nasPhase["sift_traffic"]
        /\ nasPhase["sift_traffic"] <= nasPhase["save_chunks"] + nasErrors["sift"]
             + Cardinality(Saving)' + Cardinality(Unsifted)' + (workerPanics + 1)
    BY <1>1, <1>2, <1>4, <1>5, <2>1, SumsBefore
  <2> QED
    BY <1>1, <1>2, <2>2, SumsBefore DEF PhasesAddUp
<1> QED
  BY <1>6, <1>7, <1>8 DEF EveryJobReported

LEMMA ReportJob ==
    ASSUME IInv, IInv', ReportInv, NEW w \in Worker, CountedStep(w) PROVE ReportInv'
<1>1. /\ ReportTypeOK /\ EveryJobReported /\ VerdictType /\ \A v \in Worker : VerdictInv(v)
      /\ TypeOK /\ JobInv /\ TypeOK' /\ JobInv'
  BY DEF ReportInv, ReportTypeOK, VerdictType, IInv
<1>2. VerdictInv(w)'
  BY <1>1, OwnVerdict
<1>3. \A v \in Worker : VerdictInv(v)'
  <2> SUFFICES ASSUME NEW v \in Worker PROVE VerdictInv(v)'
    OBVIOUS
  <2>1. CASE v = w
    BY <1>2, <2>1
  <2>2. CASE v # w
    BY <1>1, <2>2, OtherVerdict
  <2> QED
    BY <2>1, <2>2
<1>4. Places(w)
  BY <1>1, PlacesBefore
<1>5. Places(w)'
  BY <1>1, <1>2, PlacesAfter
<1>6. CASE Panics(w)
  BY <1>1, <1>3, <1>4, <1>5, <1>6, ReportedPanic DEF ReportInv
<1>7. CASE ~Panics(w)
  <2>1. Balanced(w) /\ CountsType
    BY <1>1, <1>4, <1>5, <1>7, BalancedStep
  <2> QED
    BY <1>1, <1>3, <2>1, ReportedAfter DEF ReportInv, CountsType
<1> QED
  BY <1>6, <1>7

\* A job that starts is one more that is not reported.
LEMMA ReportStart ==
    ASSUME IInv, IInv', ReportInv, NEW w \in Worker, NEW n \in Nas, NEW e \in BOOLEAN,
           StartsJob(w, n, e)
    PROVE  ReportInv'
<1>1. /\ ReportTypeOK /\ EveryJobReported /\ \A v \in Worker : VerdictInv(v)
      /\ TypeOK /\ JobInv /\ entered \in Nat /\ workerPanics \in Nat
  BY DEF ReportInv, ReportTypeOK, IInv
<1>2. /\ UNCHANGED <<nasProcessed, nasErrors, nasPhase, workerPanics, verdict>>
      /\ entered' = entered + 1 /\ Begin(w, n, e)
  BY DEF StartsJob
<1>3. /\ nas[w] = NoNas /\ pc[w] = "idle" /\ nas'[w] = n /\ n # NoNas /\ pc'[w] = "load"
      /\ \A v \in Worker \ {w} : nas'[v] = nas[v] /\ pc'[v] = pc[v]
      /\ UNCHANGED <<tmp, checkpoint, content>>
  BY <1>1, <1>2, NoNasAssumption DEF Begin, Enter, TypeOK, JobInv
<1>4. \A v \in Worker : VerdictInv(v)'
  <2> SUFFICES ASSUME NEW v \in Worker PROVE VerdictInv(v)'
    OBVIOUS
  <2>1. VerdictInv(v) /\ entered' > 0
    BY <1>1, <1>2
  <2>2. CASE v = w
    BY <1>2, <1>3, <2>1, <2>2 DEF VerdictInv
  <2>3. CASE v # w
    BY <1>2, <1>3, <2>1, <2>3 DEF VerdictInv
  <2> QED
    BY <2>2, <2>3
<1>5. ReportTypeOK'
  BY <1>1, <1>2 DEF ReportTypeOK
<1>6. Cardinality(Unreported) \in Nat /\ Cardinality(Unreported)' = Cardinality(Unreported) + 1
  <2>1. Unreported \in SUBSET Worker /\ Unreported' \in SUBSET Worker
    BY DEF Unreported
  <2>2. \A v \in Worker \ {w} : v \in Unreported <=> v \in Unreported'
    BY <1>2, <1>3 DEF Unreported
  <2>3. w \notin Unreported /\ w \in Unreported'
    BY <1>3 DEF Unreported
  <2>4. /\ Cardinality(Unreported) \in Nat /\ Cardinality(Unreported') \in Nat
        /\ Cardinality(Unreported') + One(w \in Unreported)
              = Cardinality(Unreported) + One(w \in Unreported')
    BY <2>1, <2>2, OneMember
  <2>5. One(w \in Unreported) = 0 /\ One(w \in Unreported') = 1
    BY <2>3 DEF One
  <2> QED
    BY <2>4, <2>5
<1>7. OutcomesAddUp'
  <2>1. Processed' = Processed /\ Errors' = Errors /\ Processed \in Nat
    BY <1>1, <1>2, SumsType DEF Processed, Errors
  <2>2. /\ Processed + Cardinality(Unreported) <= entered
        /\ entered <= Processed + Cardinality(Unreported) + workerPanics
        /\ Errors = nasProcessed["error"] + nasProcessed["unrecognized"]
    BY <1>1 DEF EveryJobReported, OutcomesAddUp
  <2>3. /\ Processed + (Cardinality(Unreported) + 1) <= entered + 1
        /\ entered + 1 <= Processed + (Cardinality(Unreported) + 1) + workerPanics
    BY <1>1, <1>6, <2>1, <2>2
  <2> QED
    BY <1>2, <1>6, <2>1, <2>2, <2>3 DEF OutcomesAddUp
<1>8. PhasesAddUp'
  <2>1. Saving' = Saving /\ Unsifted' = Unsifted
    BY <1>2, <1>3 DEF Saving, Unsifted
  <2> QED
    BY <1>1, <1>2, <2>1 DEF EveryJobReported, PhasesAddUp
<1> QED
  BY <1>4, <1>5, <1>7, <1>8 DEF ReportInv, EveryJobReported

\* With nothing counted and no job everything adds up.
LEMMA ReportZero ==
    ASSUME nasProcessed = Zero(Result), nasErrors = Zero(Stage), nasPhase = Zero(Phase),
           workerPanics = 0, entered = 0, verdict = NoVerdict,
           \A w \in Worker : pc[w] = "idle" /\ nas[w] = NoNas
    PROVE  ReportInv
<1>1. Unreported = {} /\ Saving = {} /\ Unsifted = {}
  BY DEF Unreported, Saving, Unsifted, NoVerdict
<1>2. Cardinality(Unreported) = 0 /\ Cardinality(Saving) = 0 /\ Cardinality(Unsifted) = 0
  BY <1>1, FS_EmptySet
<1>3. ReportTypeOK
  BY DEF ReportTypeOK, Zero, NoVerdict
<1>4. EveryJobReported
  BY <1>2 DEF EveryJobReported, OutcomesAddUp, PhasesAddUp, Processed, Errors, Zero, Result, Stage,
              Phase
<1>5. \A w \in Worker : VerdictInv(w)
  BY DEF VerdictInv, NoVerdict
<1> QED
  BY <1>3, <1>4, <1>5 DEF ReportInv

LEMMA ReportZeroAfter ==
    ASSUME nasProcessed' = Zero(Result), nasErrors' = Zero(Stage), nasPhase' = Zero(Phase),
           workerPanics' = 0, entered' = 0, verdict' = NoVerdict,
           \A w \in Worker : pc'[w] = "idle" /\ nas'[w] = NoNas
    PROVE  ReportInv'
<1>1. Unreported' = {} /\ Saving' = {} /\ Unsifted' = {}
  BY DEF Unreported, Saving, Unsifted, NoVerdict
<1>2. Cardinality(Unreported') = 0 /\ Cardinality(Saving') = 0 /\ Cardinality(Unsifted') = 0
  BY <1>1, FS_EmptySet
<1>3. ReportTypeOK'
  BY DEF ReportTypeOK, Zero, NoVerdict
<1>4. EveryJobReported'
  BY <1>2 DEF EveryJobReported, OutcomesAddUp, PhasesAddUp, Processed, Errors, Zero, Result, Stage,
              Phase
<1>5. \A w \in Worker : VerdictInv(w)'
  BY DEF VerdictInv, NoVerdict
<1> QED
  BY <1>3, <1>4, <1>5 DEF ReportInv

LEMMA ReportStep ==
    ASSUME IInv, IInv', ReportInv, [MetricsNext]_<<vars, metricVars>> PROVE ReportInv'
<1>1. CASE UNCHANGED <<vars, metricVars>>
  <2>1. Unreported' = Unreported /\ Saving' = Saving /\ Unsifted' = Unsifted
    BY <1>1 DEF Unreported, Saving, Unsifted
  <2>2. Processed' = Processed /\ Errors' = Errors
    BY <1>1 DEF Processed, Errors
  <2>3. EveryJobReported'
    BY <1>1, <2>1, <2>2 DEF ReportInv, EveryJobReported, OutcomesAddUp, PhasesAddUp
  <2> QED
    BY <1>1, <2>3 DEF ReportInv, ReportTypeOK, VerdictInv
<1>2. ASSUME NEW n \in Nas, Collector(n), UNCHANGED metricVars PROVE ReportInv'
  <2>1. UNCHANGED <<nas, pc, tmp, checkpoint>>
        /\ \A v \in Worker : \A f \in File : nas[v] \in Nas /\ f \in tmp[nas[v]] =>
              content'[nas[v]][f] = content[nas[v]][f]
    BY <1>2 DEF Collector, OpenSpool, Capture, IInv, TypeOK
  <2>2. Unreported' = Unreported /\ Saving' = Saving /\ Unsifted' = Unsifted
    BY <1>2, <2>1 DEF Unreported, Saving, Unsifted
  <2>3. Processed' = Processed /\ Errors' = Errors
    BY <1>2 DEF Processed, Errors
  <2>4. EveryJobReported' /\ ReportTypeOK'
    BY <1>2, <2>2, <2>3 DEF ReportInv, ReportTypeOK, EveryJobReported, OutcomesAddUp, PhasesAddUp
  <2>5. \A v \in Worker : VerdictInv(v)'
    BY <1>2, <2>1, BusyNas DEF ReportInv, VerdictInv, IInv, TypeOK
  <2> QED
    BY <2>4, <2>5 DEF ReportInv
<1>3. ASSUME NEW w \in Worker, NEW n \in Nas, NEW e \in BOOLEAN, StartsJob(w, n, e)
      PROVE  ReportInv'
  BY <1>3, ReportStart
<1>4. CASE Restarts
  <2>1. \A w \in Worker : pc'[w] = "idle" /\ nas'[w] = NoNas
    BY <1>4 DEF Restarts, Crash
  <2> QED
    BY <1>4, <2>1, ReportZeroAfter DEF Restarts
<1>5. ASSUME NEW w \in Worker, CountedStep(w) PROVE ReportInv'
  BY <1>5, ReportJob
<1> QED
  BY <1>1, <1>2, <1>3, <1>4, <1>5 DEF MetricsNext

-----------------------------------------------------------------------------
(***************************************************************************)
(* Results.                                                                *)
(***************************************************************************)

\* What the counters of jobs, stages and phases have to do with each other and with
\* the goroutines at work holds after every step, with the invariant of Aggregate.
THEOREM ReportInvariance == MetricsSpec => []ReportInv
<1>1. MetricsInit => ReportInv
  BY ReportZero DEF MetricsInit, Init
<1>2. ReportInv /\ IInv /\ IInv' /\ [MetricsNext]_<<vars, metricVars>> => ReportInv'
  BY ReportStep
<1> QED
  BY <1>1, <1>2, MetricsInvariance, PTL DEF MetricsSpec

\* However many jobs run at once, fail at whichever call or panic: what the metrics say
\* of results, stages and phases agrees.
THEOREM JobsAreReported == MetricsSpec => []EveryJobReported
<1>1. ReportInv => EveryJobReported
  BY DEF ReportInv
<1> QED
  BY <1>1, ReportInvariance, PTL

\* No job ends with an unsettled file left uncounted in tmp, and says nothing of it.
THEOREM StuckJobsAreReported == MetricsSpec => StuckIsReported
<1> DEFINE Reported ==
        \A w \in Worker :
          (/\ nas[w] # NoNas
           /\ nas'[w] = NoNas
           /\ entered' = entered
           /\ \E f \in tmp'[nas[w]] \ checkpoint'[nas[w]] : content[nas[w]][f] \in Unsettled)
          => Errors' > Errors \/ workerPanics' > workerPanics
<1>1. ReportInv /\ IInv /\ IInv' /\ [MetricsNext]_<<vars, metricVars>> => Reported
  BY StuckStep DEF ReportInv
<1>2. ReportInv /\ IInv /\ IInv' /\ [MetricsNext]_<<vars, metricVars>>
        => [Reported]_<<vars, metricVars>>
  BY <1>1
<1> QED
  BY <1>2, MetricsInvariance, ReportInvariance, PTL DEF MetricsSpec, StuckIsReported

=============================================================================
