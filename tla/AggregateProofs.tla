--------------------------- MODULE AggregateProofs --------------------------
(***************************************************************************)
(* Proofs about module Aggregate for every set of nas_ip, file names and   *)
(* goroutines.                                                             *)
(***************************************************************************)
EXTENDS Aggregate, TLAPS

USE DEF Goto, collector, storage, database, local, vars

\* A goroutine with a job works on a nas_ip.
LEMMA BusyNas ==
    ASSUME TypeOK, JobInv, NEW w \in Worker, pc[w] # "idle"
    PROVE  nas[w] \in Nas
BY NoNasAssumption DEF TypeOK, JobInv

LEMMA EndType ==
    ASSUME TypeOK, NEW w \in Worker, End(w)
    PROVE  /\ pc' \in [Worker -> Step]
           /\ nas' \in [Worker -> Nas \cup {NoNas}]
           /\ enabled' \in [Worker -> BOOLEAN]
           /\ committed' \in [Worker -> SUBSET File]
           /\ todo' \in [Worker -> SUBSET File]
           /\ names' \in [Worker -> SUBSET File]
           /\ rows' \in [Worker -> SUBSET File]
           /\ marks' \in [Worker -> SUBSET File]
BY DEF TypeOK, End, Step

LEMMA TypeStep == ASSUME TypeOK, JobInv, [Next]_vars PROVE TypeOK'
<1>1. CASE UNCHANGED vars
  BY <1>1 DEF TypeOK
<1>2. ASSUME NEW n \in Nas, OpenSpool(n) PROVE TypeOK'
  BY <1>2 DEF TypeOK, OpenSpool
<1>3. ASSUME NEW n \in Nas, NEW f \in File, Capture(n, f) PROVE TypeOK'
  BY <1>3, MaxCapturesAssumption DEF TypeOK, Capture
<1>4. ASSUME NEW w \in Worker, NEW n \in Nas, NEW e \in BOOLEAN, Begin(w, n, e) PROVE TypeOK'
  BY <1>4 DEF TypeOK, Begin, Enter, Step
<1>5. ASSUME NEW w \in Worker, LoadCommittedFileNames(w) PROVE TypeOK'
  BY <1>5, BusyNas DEF TypeOK, LoadCommittedFileNames, Step
<1>6. ASSUME NEW w \in Worker, ReadFileNamesInFlowDir(w) PROVE TypeOK'
  BY <1>6, BusyNas DEF TypeOK, ReadFileNamesInFlowDir, Step
<1>7. ASSUME NEW w \in Worker, NEW f \in File, MoveFlowToTempDir(w, f) PROVE TypeOK'
  BY <1>7, BusyNas DEF TypeOK, MoveFlowToTempDir
<1>8. ASSUME NEW w \in Worker, RenameFails(w) PROVE TypeOK'
  BY <1>8, BusyNas, EndType DEF TypeOK, RenameFails
<1>9. ASSUME NEW w \in Worker, Decide(w) PROVE TypeOK'
  <2>1. CASE ToRemoveOld(w)
    BY <2>1 DEF TypeOK, ToRemoveOld, Step
  <2>2. CASE Unrecognized(w)
    BY <2>2, EndType DEF TypeOK, Unrecognized
  <2>3. CASE SiftTraffic(w)
    BY <2>3, BusyNas DEF TypeOK, SiftTraffic, Streamed, Step
  <2> QED
    BY <1>9, <2>1, <2>2, <2>3 DEF Decide, NoNewFile, NoInternalTraffic, SiftNothing
<1>10. ASSUME NEW w \in Worker, SaveChunkList(w) PROVE TypeOK'
  BY <1>10 DEF TypeOK, SaveChunkList, Step
<1>11. ASSUME NEW w \in Worker, SaveFileNames(w) PROVE TypeOK'
  BY <1>11 DEF TypeOK, SaveFileNames, Step
<1>12. ASSUME NEW w \in Worker, Committed(w) 
       PROVE  chunks' \in [Nas -> [File -> Nat]] /\ checkpoint' \in [Nas -> SUBSET File]
  BY <1>12, BusyNas DEF TypeOK, Committed
<1>13. ASSUME NEW w \in Worker, Commit(w) PROVE TypeOK'
  BY <1>12, <1>13 DEF TypeOK, Commit, Committed, Step
<1>14. ASSUME NEW w \in Worker, CommitAnswerLost(w) PROVE TypeOK'
  BY <1>12, <1>14, EndType DEF TypeOK, CommitAnswerLost, Committed
<1>15. ASSUME NEW w \in Worker, RemoveOld(w) PROVE TypeOK'
  BY <1>15, BusyNas DEF TypeOK, RemoveOld, Step
<1>16. ASSUME NEW w \in Worker, RemoveOldFails(w) PROVE TypeOK'
  BY <1>16, BusyNas, EndType DEF TypeOK, RemoveOldFails
<1>17. ASSUME NEW w \in Worker, RemoveByNasIP(w) PROVE TypeOK'
  BY <1>17, BusyNas, EndType DEF TypeOK, RemoveByNasIP
<1>18. ASSUME NEW w \in Worker, Fail(w) PROVE TypeOK'
  BY <1>18, EndType DEF TypeOK, Fail
<1>19. CASE Crash
  BY <1>19 DEF TypeOK, Crash, Step
<1> QED
  BY <1>1, <1>2, <1>3, <1>4, <1>5, <1>6, <1>7, <1>8, <1>9, <1>10, <1>11, <1>13, <1>14, <1>15,
     <1>16, <1>17, <1>18, <1>19 DEF Next, Collector, Job, Move

(***************************************************************************)
(* How a step changes pc and nas: a job starts on a free nas_ip, goes on,  *)
(* ends, or all jobs end.                                                  *)
(***************************************************************************)
GoesOn(w) ==
    /\ pc[w] # "idle"
    /\ \E s \in Step \ {"idle"} : Goto(w, s)
    /\ UNCHANGED nas

LEMMA JobShape ==
    ASSUME TypeOK, NEW w \in Worker, Job(w)
    PROVE  /\ pc[w] # "idle"
           /\ \/ GoesOn(w)
              \/ UNCHANGED <<pc, nas>>
              \/ End(w)
<1>1. CASE LoadCommittedFileNames(w) \/ ReadFileNamesInFlowDir(w)
  BY <1>1 DEF LoadCommittedFileNames, ReadFileNamesInFlowDir, GoesOn, Step
<1>2. CASE Move(w) \/ RenameFails(w)
  BY <1>2 DEF Move, MoveFlowToTempDir, RenameFails
<1>3. CASE Decide(w)
  BY <1>3 DEF Decide, NoNewFile, NoInternalTraffic, Unrecognized, SiftNothing, SiftTraffic,
              ToRemoveOld, Streamed, GoesOn, Step
<1>4. CASE SaveChunkList(w) \/ SaveFileNames(w)
  BY <1>4 DEF SaveChunkList, SaveFileNames, GoesOn, Step
<1>5. CASE Commit(w) \/ CommitAnswerLost(w)
  BY <1>5 DEF Commit, CommitAnswerLost, Committed, GoesOn, Step
<1>6. CASE RemoveOld(w) \/ RemoveOldFails(w)
  BY <1>6 DEF RemoveOld, RemoveOldFails, GoesOn, Step
<1>7. CASE RemoveByNasIP(w) \/ Fail(w)
  BY <1>7 DEF RemoveByNasIP, Fail
<1> QED
  BY <1>1, <1>2, <1>3, <1>4, <1>5, <1>6, <1>7 DEF Job

LEMMA JobStep == ASSUME TypeOK, JobInv, [Next]_vars PROVE JobInv'
<1>1. CASE UNCHANGED <<pc, nas>>
  BY <1>1 DEF JobInv
<1>2. ASSUME NEW w \in Worker, NEW n \in Nas, NEW e \in BOOLEAN, Begin(w, n, e) PROVE JobInv'
  BY <1>2, NoNasAssumption DEF TypeOK, JobInv, Begin, Enter, Running
<1>3. ASSUME NEW w \in Worker, GoesOn(w) PROVE JobInv'
  BY <1>3 DEF TypeOK, JobInv, GoesOn
<1>4. ASSUME NEW w \in Worker, End(w) PROVE JobInv'
  BY <1>4 DEF TypeOK, JobInv, End
<1>5. CASE Crash
  BY <1>5 DEF JobInv, Crash
<1>6. ASSUME NEW n \in Nas, Collector(n) PROVE UNCHANGED <<pc, nas>>
  BY <1>6 DEF Collector, OpenSpool, Capture
<1> QED
  BY <1>1, <1>2, <1>3, <1>4, <1>5, <1>6, JobShape DEF Next

(***************************************************************************)
(* A job changes its own locals and its own nas_ip only.                   *)
(***************************************************************************)
LocalsKept(v) ==
    /\ pc'[v] = pc[v] /\ nas'[v] = nas[v] /\ enabled'[v] = enabled[v]
    /\ committed'[v] = committed[v] /\ names'[v] = names[v]
    /\ rows'[v] = rows[v] /\ marks'[v] = marks[v]

NasKept(n) ==
    /\ dir'[n] = dir[n] /\ tmp'[n] = tmp[n]
    /\ chunks'[n] = chunks[n] /\ checkpoint'[n] = checkpoint[n]

LEMMA EndFrame ==
    ASSUME TypeOK, NEW w \in Worker, End(w), NEW v \in Worker, v # w
    PROVE  LocalsKept(v)
BY DEF TypeOK, End, LocalsKept

LEMMA JobFrame ==
    ASSUME TypeOK, JobInv, NEW w \in Worker, Job(w)
    PROVE  /\ \A v \in Worker \ {w} : LocalsKept(v)
           /\ \A n \in Nas \ {nas[w]} : NasKept(n)
           /\ UNCHANGED <<content, captured, spool>>
<1> nas[w] \in Nas
  BY BusyNas, JobShape
<1>1. CASE LoadCommittedFileNames(w) \/ ReadFileNamesInFlowDir(w)
  BY <1>1 DEF TypeOK, LoadCommittedFileNames, ReadFileNamesInFlowDir, LocalsKept, NasKept
<1>2. CASE Move(w)
  BY <1>2 DEF TypeOK, Move, MoveFlowToTempDir, LocalsKept, NasKept
<1>3. CASE RenameFails(w)
  BY <1>3, EndFrame DEF TypeOK, RenameFails, NasKept
<1>4. CASE ToRemoveOld(w) \/ SiftTraffic(w)
  BY <1>4 DEF TypeOK, ToRemoveOld, SiftTraffic, LocalsKept, NasKept
<1>5. CASE Unrecognized(w) \/ Fail(w)
  BY <1>5, EndFrame DEF TypeOK, Unrecognized, Fail, NasKept
<1>6. CASE SaveChunkList(w) \/ SaveFileNames(w)
  BY <1>6 DEF TypeOK, SaveChunkList, SaveFileNames, LocalsKept, NasKept
<1>7. ASSUME Committed(w) PROVE \A n \in Nas \ {nas[w]} : NasKept(n)
  BY <1>7 DEF TypeOK, Committed, NasKept
<1>8. CASE Commit(w)
  BY <1>7, <1>8 DEF TypeOK, Commit, Committed, LocalsKept
<1>9. CASE CommitAnswerLost(w)
  BY <1>7, <1>9, EndFrame DEF CommitAnswerLost, Committed
<1>10. CASE RemoveOld(w)
  BY <1>10 DEF TypeOK, RemoveOld, LocalsKept, NasKept
<1>11. CASE RemoveOldFails(w)
  BY <1>11, EndFrame DEF TypeOK, RemoveOldFails, NasKept
<1>12. CASE RemoveByNasIP(w)
  BY <1>12, EndFrame DEF TypeOK, RemoveByNasIP, NasKept
<1> QED
  BY <1>1, <1>2, <1>3, <1>4, <1>5, <1>6, <1>8, <1>9, <1>10, <1>11, <1>12
  DEF Job, Decide, NoNewFile, NoInternalTraffic, SiftNothing

(***************************************************************************)
(* Hence what holds of another job keeps holding; what a job knows about   *)
(* its nas_ip is checked action by action.                                 *)
(***************************************************************************)
LEMMA OtherJobs ==
    ASSUME TypeOK, JobInv, SnapshotInv, RemovalInv, NEW w \in Worker, Job(w),
           NEW v \in Worker, v # w
    PROVE  Snapshot(v)' /\ Removal(v)'
<1>1. LocalsKept(v) /\ UNCHANGED content
  BY JobFrame
<1>2. CASE pc[v] = "idle"
  BY <1>1, <1>2 DEF LocalsKept, Snapshot, Removal
<1>3. CASE pc[v] # "idle"
  <2>1. nas[v] \in Nas /\ nas[v] # nas[w]
    BY <1>3, BusyNas, NoNasAssumption DEF JobInv
  <2>2. NasKept(nas[v])
    BY <2>1, JobFrame
  <2> QED
    BY <1>1, <2>1, <2>2 DEF LocalsKept, NasKept, Snapshot, Removal, SnapshotInv, RemovalInv
<1> QED
  BY <1>2, <1>3

LEMMA EndKnows ==
    ASSUME TypeOK, NEW w \in Worker, End(w)
    PROVE  Snapshot(w)' /\ Removal(w)'
BY DEF TypeOK, End, Snapshot, Removal

LEMMA OwnJob ==
    ASSUME TypeOK, JobInv, SnapshotInv, RemovalInv, NEW w \in Worker, Job(w)
    PROVE  Snapshot(w)' /\ Removal(w)'
<1> nas[w] \in Nas
  BY BusyNas, JobShape
<1> Snapshot(w) /\ Removal(w)
  BY DEF SnapshotInv, RemovalInv
<1>1. CASE End(w)
  BY <1>1, EndKnows
<1>2. CASE LoadCommittedFileNames(w) \/ ReadFileNamesInFlowDir(w)
  BY <1>2 DEF TypeOK, LoadCommittedFileNames, ReadFileNamesInFlowDir, Snapshot, Removal
<1>3. CASE Move(w)
  BY <1>3 DEF TypeOK, Move, MoveFlowToTempDir, Snapshot, Removal
<1>4. ASSUME ToRemoveOld(w), pc[w] = "move",
             \A f \in Fresh(w) : content[nas[w]][f] # "internal" \/ ~enabled[w]
      PROVE  Snapshot(w)' /\ Removal(w)'
  BY <1>4 DEF TypeOK, ToRemoveOld, Fresh, Snapshot, Removal
<1>5. CASE NoNewFile(w) \/ NoInternalTraffic(w) \/ SiftNothing(w)
  <2> Fresh(w) \subseteq File
    BY DEF TypeOK, Fresh
  <2> QED
    BY <1>4, <1>5 DEF NoNewFile, NoInternalTraffic, SiftNothing, Streamed, FreshOf
<1>6. CASE SiftTraffic(w)
  <2>1. names'[w] = tmp[nas[w]] /\ pc'[w] = "saveChunks"
    BY <1>6 DEF TypeOK, SiftTraffic
  <2>2. UNCHANGED <<content, tmp, checkpoint, nas, committed>>
    BY <1>6 DEF SiftTraffic
  <2>3. PICK f \in tmp[nas[w]] \ committed[w] : content[nas[w]][f] = "internal"
    BY <1>6 DEF SiftTraffic, FreshOf, Fresh
  <2>4. committed[w] = checkpoint[nas[w]]
    BY <1>6 DEF SiftTraffic, Streamed, Snapshot
  <2> QED
    BY <2>1, <2>2, <2>3, <2>4 DEF Snapshot, Removal
<1>7. CASE SaveChunkList(w)
  BY <1>7 DEF TypeOK, SaveChunkList, Snapshot, Removal
<1>8. CASE SaveFileNames(w)
  BY <1>8 DEF TypeOK, SaveFileNames, Snapshot, Removal
<1>9. CASE Commit(w)
  BY <1>9 DEF TypeOK, Commit, Committed, Snapshot, Removal
<1>10. CASE RemoveOld(w)
  BY <1>10 DEF TypeOK, RemoveOld, Snapshot, Removal
<1> QED
  BY <1>1, <1>2, <1>3, <1>5, <1>6, <1>7, <1>8, <1>9, <1>10
  DEF Job, Decide, Unrecognized, RenameFails, CommitAnswerLost, RemoveOldFails, RemoveByNasIP,
      Fail

LEMMA KnowledgeStep ==
    ASSUME TypeOK, JobInv, SnapshotInv, RemovalInv, [Next]_vars
    PROVE  SnapshotInv' /\ RemovalInv'
<1>1. CASE UNCHANGED vars
  BY <1>1 DEF SnapshotInv, Snapshot, RemovalInv, Removal
<1>2. ASSUME NEW n \in Nas, Collector(n) PROVE SnapshotInv' /\ RemovalInv'
  BY <1>2 DEF Collector, OpenSpool, Capture, SnapshotInv, Snapshot, RemovalInv, Removal
<1>3. ASSUME NEW w \in Worker, NEW n \in Nas, NEW e \in BOOLEAN, Begin(w, n, e)
      PROVE  SnapshotInv' /\ RemovalInv'
  <2> SUFFICES ASSUME NEW v \in Worker PROVE Snapshot(v)' /\ Removal(v)'
    BY DEF SnapshotInv, RemovalInv
  <2>1. CASE v = w
    BY <1>3, <2>1 DEF TypeOK, Begin, Enter, Snapshot, Removal
  <2>2. CASE v # w
    BY <1>3, <2>2 DEF TypeOK, Begin, Enter, SnapshotInv, Snapshot, RemovalInv, Removal
  <2> QED
    BY <2>1, <2>2
<1>4. ASSUME NEW w \in Worker, Job(w) PROVE SnapshotInv' /\ RemovalInv'
  BY <1>4, OtherJobs, OwnJob DEF SnapshotInv, RemovalInv
<1>5. CASE Crash
  BY <1>5 DEF Crash, SnapshotInv, Snapshot, RemovalInv, Removal
<1> QED
  BY <1>1, <1>2, <1>3, <1>4, <1>5 DEF Next

(***************************************************************************)
(* The steps of the database and the deletion.                             *)
(***************************************************************************)
LEMMA CommitEffect ==
    ASSUME TypeOK, JobInv, SnapshotInv, NEW w \in Worker, Committed(w)
    PROVE  LET n == nas[w] IN
           /\ n \in Nas
           /\ checkpoint'[n] = checkpoint[n] \cup tmp[n]
           /\ \A f \in File : chunks'[n][f] =
                 IF f \in tmp[n] \ checkpoint[n] THEN chunks[n][f] + 1 ELSE chunks[n][f]
<1>1. pc[w] = "commit" /\ nas[w] \in Nas
  BY BusyNas DEF Committed
<1>2. Snapshot(w)
  BY DEF SnapshotInv
<1>3. rows[w] = tmp[nas[w]] \ checkpoint[nas[w]] /\ marks[w] = tmp[nas[w]]
  BY <1>1, <1>2 DEF Snapshot
<1> QED
  BY <1>1, <1>3 DEF TypeOK, Committed

LEMMA CheckpointStep ==
    ASSUME TypeOK, JobInv, SnapshotInv, CheckpointInv, [Next]_vars
    PROVE  CheckpointInv'
<1>1. CASE UNCHANGED database
  BY <1>1 DEF CheckpointInv
<1>2. ASSUME NEW w \in Worker, Committed(w) PROVE CheckpointInv'
  <2> SUFFICES ASSUME NEW n \in Nas, NEW f \in checkpoint'[n] PROVE chunks'[n][f] > 0
    BY DEF CheckpointInv
  <2>1. CASE n = nas[w]
    <3>1. f \in File
      BY <1>2, <2>1, CommitEffect DEF TypeOK
    <3> QED
      BY <1>2, <2>1, <3>1, CommitEffect DEF TypeOK, CheckpointInv
  <2>2. CASE n # nas[w]
    BY <1>2, <2>2 DEF TypeOK, Committed, CheckpointInv
  <2> QED
    BY <2>1, <2>2
<1>3. ASSUME NEW w \in Worker, RemoveByNasIP(w) PROVE CheckpointInv'
  BY <1>3 DEF TypeOK, RemoveByNasIP, CheckpointInv
<1>4. ASSUME NEW w \in Worker, Job(w), ~Committed(w), ~RemoveByNasIP(w)
      PROVE UNCHANGED database
  BY <1>4 DEF Job, LoadCommittedFileNames, ReadFileNamesInFlowDir, Move, MoveFlowToTempDir,
     RenameFails, Decide, NoNewFile, NoInternalTraffic, Unrecognized, SiftNothing, SiftTraffic,
     ToRemoveOld, SaveChunkList, SaveFileNames, Commit, CommitAnswerLost, RemoveOld,
     RemoveOldFails, Fail
<1> QED
  BY <1>1, <1>2, <1>3, <1>4 DEF Next, Collector, OpenSpool, Capture, Begin, Enter, Crash

LEMMA DueType ==
    ASSUME NEW n \in Nas, NEW f \in File
    PROVE  Due(n, f) \in Nat
BY DEF Due

LEMMA ReplayStep ==
    ASSUME TypeOK, JobInv, SnapshotInv, ReplaySafe, [Next]_vars
    PROVE  ReplaySafe'
<1> SUFFICES ASSUME NEW n \in Nas, NEW f \in File
             PROVE  chunks'[n][f] + Due(n, f)' <= captured'[n][f]
  BY DEF ReplaySafe
<1> chunks[n][f] \in Nat /\ captured[n][f] \in Nat /\ chunks[n][f] + Due(n, f) <= captured[n][f]
  BY DEF TypeOK, ReplaySafe
<1>1. CASE UNCHANGED <<captured, dir, tmp, database>>
  BY <1>1 DEF Due
<1>2. ASSUME NEW m \in Nas, NEW g \in File, Capture(m, g)
      PROVE  chunks'[n][f] + Due(n, f)' <= captured'[n][f]
  <2>1. CASE m = n /\ g = f
    BY <1>2, <2>1 DEF TypeOK, Capture, Due
  <2>2. CASE ~(m = n /\ g = f)
    BY <1>2, <2>2 DEF TypeOK, Capture, Due
  <2> QED
    BY <2>1, <2>2
<1>3. ASSUME NEW w \in Worker, NEW g \in File, MoveFlowToTempDir(w, g)
      PROVE  chunks'[n][f] + Due(n, f)' <= captured'[n][f]
  BY <1>3, BusyNas DEF TypeOK, MoveFlowToTempDir, Due
<1>4. ASSUME NEW w \in Worker, Committed(w)
      PROVE  chunks'[n][f] + Due(n, f)' <= captured'[n][f]
  <2>1. CASE n = nas[w]
    <3>1. UNCHANGED <<captured, dir, tmp>>
      BY <1>4 DEF Committed
    <3>2. checkpoint'[n] = checkpoint[n] \cup tmp[n]
      BY <1>4, <2>1, CommitEffect
    <3>3. chunks'[n][f] =
            IF f \in tmp[n] \ checkpoint[n] THEN chunks[n][f] + 1 ELSE chunks[n][f]
      BY <1>4, <2>1, CommitEffect
    <3> QED
      BY <3>1, <3>2, <3>3 DEF Due
  <2>2. CASE n # nas[w]
    BY <1>4, <2>2 DEF TypeOK, Committed, Due
  <2> QED
    BY <2>1, <2>2
<1>5. ASSUME NEW w \in Worker, RemoveOld(w) \/ RemoveOldFails(w)
      PROVE  chunks'[n][f] + Due(n, f)' <= captured'[n][f]
  <2>1. tmp'[n] \subseteq tmp[n] /\ UNCHANGED <<captured, dir, database>>
    <3>1. CASE RemoveOld(w)
      BY <3>1 DEF TypeOK, RemoveOld
    <3>2. CASE RemoveOldFails(w)
      BY <3>2 DEF TypeOK, RemoveOldFails
    <3> QED
      BY <1>5, <3>1, <3>2
  <2> QED
    BY <2>1 DEF Due
<1>6. ASSUME NEW w \in Worker, RemoveByNasIP(w)
      PROVE  chunks'[n][f] + Due(n, f)' <= captured'[n][f]
  <2>1. n = nas[w] => tmp[n] = {}
    BY <1>6 DEF SnapshotInv, Snapshot, RemoveByNasIP
  <2> QED
    BY <1>6, <2>1 DEF TypeOK, RemoveByNasIP, Due
<1>7. ASSUME NEW w \in Worker, Job(w), ~Move(w), ~Committed(w), ~RemoveOld(w),
             ~RemoveOldFails(w), ~RemoveByNasIP(w)
      PROVE  UNCHANGED <<captured, dir, tmp, database>>
  BY <1>7 DEF Job, LoadCommittedFileNames, ReadFileNamesInFlowDir, RenameFails, Decide,
     NoNewFile, NoInternalTraffic, Unrecognized, SiftNothing, SiftTraffic, ToRemoveOld,
     SaveChunkList, SaveFileNames, Commit, CommitAnswerLost, Fail
<1> QED
  BY <1>1, <1>2, <1>3, <1>4, <1>5, <1>6, <1>7
  DEF Next, Collector, OpenSpool, Begin, Enter, Move, Crash

(***************************************************************************)
(* Results.                                                                *)
(***************************************************************************)

\* The inductive invariant: every variable has its type, one job runs per nas_ip,
\* what a job read before it changes the database is still true when it does, and
\* the checkpoint and the two directories agree with what was counted.
THEOREM Invariance == Spec => []IInv
<1>1. Init => IInv
  <2> SUFFICES ASSUME Init PROVE IInv
    OBVIOUS
  <2>1. TypeOK
    BY MaxCapturesAssumption DEF Init, TypeOK, Step
  <2>2. JobInv /\ SnapshotInv /\ RemovalInv
    BY NoNasAssumption DEF Init, JobInv, SnapshotInv, Snapshot, RemovalInv, Removal
  <2>3. CheckpointInv
    BY DEF Init, CheckpointInv
  <2>4. ReplaySafe
    BY DEF Init, ReplaySafe, Due
  <2> QED
    BY <2>1, <2>2, <2>3, <2>4 DEF IInv
<1>2. IInv /\ [Next]_vars => IInv'
  BY TypeStep, JobStep, KnowledgeStep, CheckpointStep, ReplayStep DEF IInv
<1> QED
  BY <1>1, <1>2, PTL DEF Spec

\* No file's traffic is counted more often than the file was delivered, whatever
\* fails and wherever the process crashes (src/README.md:94-97).
THEOREM CountedOnce == Spec => []NoDoubleCount
<1>1. IInv => NoDoubleCount
  BY DueType DEF IInv, TypeOK, ReplaySafe, NoDoubleCount
<1> QED
  BY <1>1, Invariance, PTL

\* Each copy of a file that a later job would count is a delivery not counted yet.
THEOREM ReplayIsSafe == Spec => []ReplaySafe
<1>1. IInv => ReplaySafe
  BY DEF IInv
<1> QED
  BY <1>1, Invariance, PTL

\* tmp loses files in removeOldFlow only, the checkpoint rows of a nas_ip after that.
LEMMA TmpShrinks ==
    ASSUME TypeOK, JobInv, [Next]_vars, NEW n \in Nas, ~(tmp[n] \subseteq tmp'[n])
    PROVE  \E w \in Worker : nas[w] = n /\ (RemoveOld(w) \/ RemoveOldFails(w))
<1>2. ASSUME NEW w \in Worker, Move(w) PROVE FALSE
  BY <1>2, BusyNas DEF TypeOK, Move, MoveFlowToTempDir
<1>3. ASSUME NEW w \in Worker, Job(w), ~Move(w), ~RemoveOld(w), ~RemoveOldFails(w)
      PROVE  UNCHANGED tmp
  BY <1>3 DEF Job, LoadCommittedFileNames, ReadFileNamesInFlowDir, RenameFails, Decide,
     NoNewFile, NoInternalTraffic, Unrecognized, SiftNothing, SiftTraffic, ToRemoveOld,
     SaveChunkList, SaveFileNames, Commit, CommitAnswerLost, Committed, RemoveByNasIP, Fail
<1>4. PICK w \in Worker : Job(w) /\ ~(UNCHANGED tmp)
  BY DEF Next, Collector, OpenSpool, Capture, Begin, Enter, Crash
<1>5. RemoveOld(w) \/ RemoveOldFails(w)
  BY <1>2, <1>3, <1>4
<1>6. nas[w] = n
  BY <1>5 DEF TypeOK, RemoveOld, RemoveOldFails
<1> QED
  BY <1>5, <1>6

LEMMA DropStep ==
    ASSUME IInv, [Next]_vars, NEW n \in Nas, NEW f \in tmp[n] \ (checkpoint[n] \cup tmp'[n])
    PROVE  content[n][f] # "internal" \/ \E w \in Worker : nas[w] = n /\ ~enabled[w]
<1>1. PICK w \in Worker : nas[w] = n /\ (RemoveOld(w) \/ RemoveOldFails(w))
  BY TmpShrinks DEF IInv
<1>2. pc[w] = "removeOld"
  BY <1>1 DEF RemoveOld, RemoveOldFails
<1> QED
  BY <1>1, <1>2 DEF IInv, RemovalInv, Removal

\* A file with internal traffic that is not in the checkpoint is deleted only by a
\* job that found every channel disabled.
THEOREM OnlyCountedFilesDropped == Spec => DropsOnlyCountedFiles
<1>1. IInv /\ [Next]_vars =>
        [\A n \in Nas : \A f \in tmp[n] \ (checkpoint[n] \cup tmp'[n]) :
            \/ content[n][f] # "internal"
            \/ \E w \in Worker : nas[w] = n /\ ~enabled[w]]_vars
  BY DropStep
<1> QED
  BY <1>1, Invariance, PTL DEF Spec, DropsOnlyCountedFiles

LEMMA OutliveStep ==
    ASSUME IInv, [Next]_vars, NEW n \in Nas
    PROVE  (checkpoint[n] \ checkpoint'[n]) \cap tmp[n] = {}
<1>1. ASSUME NEW w \in Worker, RemoveByNasIP(w)
      PROVE  (n = nas[w] /\ tmp[n] = {}) \/ checkpoint'[n] = checkpoint[n]
  BY <1>1 DEF IInv, TypeOK, RemoveByNasIP, SnapshotInv, Snapshot
<1>2. ASSUME NEW w \in Worker, Committed(w) PROVE checkpoint[n] \subseteq checkpoint'[n]
  BY <1>2 DEF IInv, TypeOK, Committed
<1>3. ASSUME NEW w \in Worker, Job(w), ~RemoveByNasIP(w), ~Committed(w)
      PROVE  UNCHANGED checkpoint
  BY <1>3 DEF Job, LoadCommittedFileNames, ReadFileNamesInFlowDir, Move, MoveFlowToTempDir,
     RenameFails, Decide, NoNewFile, NoInternalTraffic, Unrecognized, SiftNothing, SiftTraffic,
     ToRemoveOld, SaveChunkList, SaveFileNames, Commit, CommitAnswerLost, RemoveOld,
     RemoveOldFails, Fail
<1> QED
  BY <1>1, <1>2, <1>3 DEF Next, Collector, OpenSpool, Capture, Begin, Enter, Crash

\* A checkpoint row is deleted only when its file is gone from tmp.
THEOREM CheckpointOutlives == Spec => CheckpointOutlivesFiles
<1>1. IInv /\ [Next]_vars =>
        [\A n \in Nas : (checkpoint[n] \ checkpoint'[n]) \cap tmp[n] = {}]_vars
  BY OutliveStep
<1> QED
  BY <1>1, Invariance, PTL DEF Spec, CheckpointOutlivesFiles

-----------------------------------------------------------------------------
(***************************************************************************)
(* Aggregate implements Accounting when the collector delivers each name   *)
(* once: initial states map to initial states and every step to a step of  *)
(* Accounting or to a stutter.                                             *)
(***************************************************************************)

OnDisk(n) == dir[n] \cup tmp[n]

LEMMA StatusAt ==
    \A n \in Nas, f \in File : Status[n][f] = StageOf(n, f) /\ Status'[n][f] = StageOf(n, f)'
BY DEF Status

\* A new Status that differs at n only, and there puts the files of S in one stage.
LEMMA MovedTo ==
    ASSUME NEW n \in Nas, NEW S, NEW stage,
           \A m \in Nas, f \in File :
               Status'[m][f] = IF m = n /\ f \in S THEN stage ELSE Status[m][f]
    PROVE  Promise!Moved(n, S, stage)
<1> DEFINE New == [Status EXCEPT ![n] = [f \in File |-> IF f \in S THEN stage ELSE @[f]]]
<1>1. Status' = [m \in Nas |-> [f \in File |-> Status'[m][f]]]
  BY DEF Status
<1>2. New = [m \in Nas |-> [f \in File |-> New[m][f]]]
  BY DEF Status
<1>3. \A m \in Nas, f \in File : New[m][f] = Status'[m][f]
  <2> TAKE m \in Nas, f \in File
  <2>1. CASE m = n
    BY <2>1 DEF Status
  <2>2. CASE m # n
    BY <2>2 DEF Status
  <2> QED
    BY <2>1, <2>2
<1> HIDE DEF New
<1>4. Status' = New
  BY <1>1, <1>2, <1>3
<1> QED
  BY <1>4 DEF New, Promise!Moved

LEMMA Unmoved ==
    ASSUME \A n \in Nas, f \in File : Status'[n][f] = Status[n][f]
    PROVE  Status' = Status
<1>1. Status' = [n \in Nas |-> [f \in File |-> Status'[n][f]]]
  BY DEF Status
<1>2. Status = [n \in Nas |-> [f \in File |-> Status[n][f]]]
  BY DEF Status
<1> QED
  BY <1>1, <1>2

LEMMA Counters ==
    ASSUME MaxCaptures = 1, TypeOK, ReplaySafe, NEW n \in Nas, NEW f \in File
    PROVE  /\ chunks[n][f] \in Nat
           /\ captured[n][f] \in {0, 1}
           /\ chunks[n][f] + Due(n, f) <= captured[n][f]
BY DEF TypeOK, ReplaySafe

\* Where captured, chunks and the files on disk stay, nothing happens for Accounting.
LEMMA Stutter ==
    ASSUME TypeOK, UNCHANGED <<captured, chunks>>,
           \A n \in Nas, f \in File : f \in OnDisk(n)' <=> f \in OnDisk(n)
    PROVE  UNCHANGED <<Status, chunks>>
<1>1. \A n \in Nas, f \in File : Status'[n][f] = Status[n][f]
  BY StatusAt DEF StageOf, OnDisk
<1> QED
  BY <1>1, Unmoved

LEMMA SimulateDeliver ==
    ASSUME MaxCaptures = 1, TypeOK, ReplaySafe, NEW n \in Nas, NEW f \in File, Capture(n, f)
    PROVE  Promise!Deliver(n, f)
<1>1. captured[n][f] = 0 /\ chunks[n][f] = 0
  BY Counters, DueType DEF Capture
<1>2. captured'[n][f] = 1 /\ f \in dir'[n] /\ UNCHANGED <<tmp, chunks>>
  BY <1>1 DEF Capture, TypeOK
<1>3. \A m \in Nas, g \in File : ~(m = n /\ g = f) =>
        captured'[m][g] = captured[m][g] /\ (g \in OnDisk(m)' <=> g \in OnDisk(m))
  BY DEF Capture, TypeOK, OnDisk
<1>4. StageOf(n, f) = "absent" /\ StageOf(n, f)' = "waiting"
  BY <1>1, <1>2 DEF StageOf
<1>5. \A m \in Nas, g \in File : ~(m = n /\ g = f) => StageOf(m, g)' = StageOf(m, g)
  BY <1>2, <1>3 DEF StageOf, OnDisk
<1>6. Promise!Moved(n, {f}, "waiting")
  BY <1>4, <1>5, StatusAt, MovedTo
<1> QED
  BY <1>2, <1>4, <1>6, StatusAt DEF Promise!Deliver

LEMMA SimulateBill ==
    ASSUME MaxCaptures = 1, IInv, NEW w \in Worker, Committed(w)
    PROVE  \E n \in Nas : \E S \in SUBSET Promise!Waiting(n) : S # {} /\ Promise!Bill(n, S)
<1> USE DEF IInv
<1> PICK n \in Nas : n = nas[w]
  BY BusyNas DEF Committed
<1> PICK S : S = tmp[n] \ checkpoint[n]
  OBVIOUS
<1>1. /\ \A f \in File : chunks'[n][f] = IF f \in S THEN chunks[n][f] + 1 ELSE chunks[n][f]
      /\ S \subseteq File
  BY CommitEffect DEF TypeOK
<1>2. \E f \in S : content[n][f] = "internal"
  BY DEF Committed, SnapshotInv, Snapshot
<1>3. UNCHANGED <<captured, dir, tmp>>
  BY DEF Committed
<1>4. \A f \in S : captured[n][f] = 1 /\ chunks[n][f] = 0
  <2> SUFFICES ASSUME NEW f \in S PROVE captured[n][f] = 1 /\ chunks[n][f] = 0
    OBVIOUS
  <2>1. f \in File /\ Due(n, f) \in {1, 2}
    BY <1>1 DEF Due
  <2> QED
    BY <2>1, Counters
<1>5. S \subseteq Promise!Waiting(n)
  BY <1>1, <1>4, StatusAt DEF StageOf, Promise!Waiting
<1>6. chunks' = [chunks EXCEPT ![n] = [f \in File |-> IF f \in S THEN @[f] + 1 ELSE @[f]]]
  BY <1>1 DEF TypeOK, Committed, SnapshotInv, Snapshot
<1>7. \A f \in S : StageOf(n, f)' = "billed"
  BY <1>1, <1>3, <1>4 DEF StageOf
<1>8. \A m \in Nas, f \in File : ~(m = n /\ f \in S) => StageOf(m, f)' = StageOf(m, f)
  BY <1>1, <1>3, <1>6 DEF TypeOK, StageOf
<1>9. Promise!Moved(n, S, "billed")
  BY <1>1, <1>7, <1>8, StatusAt, MovedTo
<1> QED
  BY <1>1, <1>2, <1>5, <1>6, <1>9 DEF Promise!Bill

LEMMA SimulateDiscard ==
    ASSUME MaxCaptures = 1, IInv, NEW w \in Worker, RemoveOld(w) \/ RemoveOldFails(w)
    PROVE  \/ UNCHANGED <<Status, chunks>>
           \/ \E n \in Nas : \E S \in SUBSET Promise!Waiting(n) : S # {} /\ Promise!Discard(n, S)
<1> USE DEF IInv
<1>1. pc[w] = "removeOld" /\ nas[w] \in Nas
  BY BusyNas DEF RemoveOld, RemoveOldFails
<1> PICK n \in Nas : n = nas[w]
  BY <1>1
<1> PICK S : S = {f \in File : Status[n][f] = "waiting" /\ f \notin OnDisk(n)'}
  OBVIOUS
<1>2. /\ UNCHANGED <<captured, dir, chunks, content>>
      /\ tmp'[n] \subseteq tmp[n]
      /\ \A m \in Nas : m # n => tmp'[m] = tmp[m]
  <2>1. CASE RemoveOld(w)
    BY <1>1, <2>1 DEF TypeOK, RemoveOld
  <2>2. CASE RemoveOldFails(w)
    BY <1>1, <2>2 DEF TypeOK, RemoveOldFails
  <2> QED
    BY <2>1, <2>2
<1>3. S \subseteq Promise!Waiting(n)
  BY DEF Promise!Waiting
<1>4. \A f \in S : StageOf(n, f)' = "discarded"
  BY <1>1, <1>2, StatusAt DEF StageOf, OnDisk
<1>5. \A m \in Nas, f \in File : ~(m = n /\ f \in S) => StageOf(m, f)' = StageOf(m, f)
  BY <1>1, <1>2, StatusAt DEF StageOf, OnDisk
<1>6. Promise!Moved(n, S, "discarded")
  BY <1>1, <1>4, <1>5, StatusAt, MovedTo
<1>7. n \in Muted \/ \A f \in S : content[n][f] # "internal"
  <2>1. \A f \in S : f \in tmp[n] \ checkpoint[n]
    <3> SUFFICES ASSUME NEW f \in S PROVE f \in tmp[n] \ checkpoint[n]
      OBVIOUS
    <3>1. chunks[n][f] = 0 /\ f \in OnDisk(n)
      <4>1. chunks[n][f] \in Nat /\ StageOf(n, f) = "waiting"
        BY StatusAt DEF TypeOK
      <4> QED
        BY <4>1 DEF StageOf, OnDisk
    <3>2. f \notin checkpoint[n]
      BY <1>1, <3>1 DEF CheckpointInv
    <3> QED
      BY <1>2, <3>1, <3>2 DEF OnDisk
  <2> QED
    BY <1>1, <2>1 DEF RemovalInv, Removal, Muted
<1>8. CASE S = {}
  BY <1>2, <1>5, <1>8, StatusAt, Unmoved
<1>9. CASE S # {}
  BY <1>1, <1>2, <1>3, <1>6, <1>7, <1>9 DEF Promise!Discard
<1> QED
  BY <1>8, <1>9

LEMMA Simulation ==
    ASSUME MaxCaptures = 1, IInv, [Next]_vars
    PROVE  [Promise!Next]_(Promise!vars)
<1> USE DEF IInv
<1>1. Muted' \in SUBSET Nas /\ UNCHANGED content
  BY JobFrame DEF Muted, Next, Collector, OpenSpool, Capture, Begin, Enter, Crash
<1>2. CASE UNCHANGED <<captured, dir, tmp, database>>
  BY <1>1, <1>2, Stutter DEF OnDisk, Promise!Next
<1>3. ASSUME NEW n \in Nas, Collector(n) PROVE Promise!Next
  <2>1. CASE OpenSpool(n)
    BY <1>1, <2>1, Stutter DEF OpenSpool, OnDisk, Promise!Next
  <2>2. ASSUME NEW f \in File, Capture(n, f) PROVE Promise!Next
    BY <1>1, <2>2, SimulateDeliver DEF Promise!Next
  <2> QED
    BY <1>3, <2>1, <2>2 DEF Collector
<1>4. ASSUME NEW w \in Worker, Move(w) PROVE Promise!Next
  <2>1. UNCHANGED <<captured, chunks>>
    BY <1>4 DEF Move, MoveFlowToTempDir
  <2>2. \A n \in Nas, f \in File : f \in OnDisk(n)' <=> f \in OnDisk(n)
    BY <1>4, BusyNas DEF TypeOK, Move, MoveFlowToTempDir, OnDisk
  <2> QED
    BY <1>1, <2>1, <2>2, Stutter DEF Promise!Next
<1>5. ASSUME NEW w \in Worker, Committed(w) PROVE Promise!Next
  BY <1>1, <1>5, SimulateBill DEF Promise!Next
<1>6. ASSUME NEW w \in Worker, RemoveOld(w) \/ RemoveOldFails(w) PROVE Promise!Next
  BY <1>1, <1>6, SimulateDiscard DEF Promise!Next
<1>7. ASSUME NEW w \in Worker, RemoveByNasIP(w) PROVE Promise!Next
  BY <1>1, <1>7, Stutter DEF RemoveByNasIP, OnDisk, Promise!Next
<1>8. ASSUME NEW w \in Worker, Job(w), ~Move(w), ~Committed(w), ~RemoveOld(w),
             ~RemoveOldFails(w), ~RemoveByNasIP(w)
      PROVE  UNCHANGED <<captured, dir, tmp, database>>
  BY <1>8 DEF Job, LoadCommittedFileNames, ReadFileNamesInFlowDir, RenameFails, Decide,
     NoNewFile, NoInternalTraffic, Unrecognized, SiftNothing, SiftTraffic, ToRemoveOld,
     SaveChunkList, SaveFileNames, Commit, CommitAnswerLost, Fail
<1> QED
  BY <1>2, <1>3, <1>4, <1>5, <1>6, <1>7, <1>8 DEF Next, Begin, Enter, Crash

LEMMA PromisedInit == Init => Promise!Init
BY NoNasAssumption DEF Init, Promise!Init, Status, StageOf, Muted

\* Under names that are delivered once, the mechanism with its directories, two-phase
\* deletion, failures and crashes keeps the promise of module Accounting.
THEOREM Implementation == ASSUME MaxCaptures = 1 PROVE Spec => ImplementsAccounting
<1>1. Init => Promise!Init
  BY PromisedInit
<1>2. IInv /\ [Next]_vars => [Promise!Next]_(Promise!vars)
  BY Simulation
<1> QED
  BY <1>1, <1>2, Invariance, PTL DEF Spec, ImplementsAccounting, Promise!Spec
=============================================================================
