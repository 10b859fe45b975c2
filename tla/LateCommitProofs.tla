-------------------------- MODULE LateCommitProofs --------------------------
(***************************************************************************)
(* Proofs about module LateCommit: on a server that decides what is in     *)
(* doubt before the next job of the nas_ip loads its checkpoint, a commit  *)
(* that lands late counts nothing twice.  Every step but the late decision *)
(* is a step of module Aggregate, whose lemmas are used as they are.       *)
(***************************************************************************)
EXTENDS LateCommit, AggregateProofs

USE DEF Goto, collector, storage, database, local, vars, lateVars

DoubtType == inDoubt \in [Nas -> SUBSET Transaction]

LEMMA AggregateStep ==
    ASSUME LateNext
    PROVE  \/ Next
           \/ UNCHANGED vars
           \/ \E n \in Nas : \E t \in inDoubt[n] : Lands(n, t)
BY DEF LateNext, LateJob, LoadsCheckpoint, SavesFileNames, RemovesByNasIP, Proceeds, GivenUp,
       CrashInDoubt, ServerDecides, Vanishes, Next, Job

LEMMA IInvStep == IInv /\ [Next]_vars => IInv'
BY TypeStep, JobStep, KnowledgeStep, CheckpointStep, ReplayStep DEF IInv

(***************************************************************************)
(* A late commit has the effect of one that a job waits for.               *)
(***************************************************************************)
LEMMA LandsEffect ==
    ASSUME LateInv, NEW n \in Nas, NEW t \in inDoubt[n], Lands(n, t)
    PROVE  /\ checkpoint' = [checkpoint EXCEPT ![n] = IF tmp[n] = {} THEN {} ELSE @ \cup tmp[n]]
           /\ chunks' = [chunks EXCEPT ![n] = [f \in File |->
                IF f \in tmp[n] \ checkpoint[n] THEN @[f] + 1 ELSE @[f]]]
           /\ UNCHANGED <<collector, storage, local>>
           /\ \A w \in Worker : nas[w] = n => pc[w] = "load"
<1>1. /\ t.marks = tmp[n] /\ t.rows = tmp[n] \ checkpoint[n]
      /\ t.freed = IF tmp[n] = {} THEN checkpoint[n] ELSE {}
  BY DEF LateInv, DoubtMatchesTmp
<1>2. /\ chunks' = [chunks EXCEPT ![n] = [f \in File |-> IF f \in t.rows THEN @[f] + 1 ELSE @[f]]]
      /\ checkpoint' = [checkpoint EXCEPT ![n] = (@ \ t.freed) \cup t.marks]
      /\ UNCHANGED <<collector, storage, local>>
  BY DEF Lands
<1>3. \A w \in Worker : nas[w] = n => pc[w] = "load"
  BY DEF LateInv, DoubtMatchesTmp
<1>4. (checkpoint[n] \ t.freed) \cup t.marks
        = IF tmp[n] = {} THEN {} ELSE checkpoint[n] \cup tmp[n]
  BY <1>1
<1> QED
  BY <1>1, <1>2, <1>3, <1>4

LEMMA LandsStep ==
    ASSUME LateInv, NEW n \in Nas, NEW t \in inDoubt[n], Lands(n, t)
    PROVE  IInv'
<1>1. TypeOK'
  <2>1. TypeOK
    BY DEF LateInv, IInv
  <2>2. chunks' \in [Nas -> [File -> Nat]] /\ checkpoint' \in [Nas -> SUBSET File]
    <3>1. tmp[n] \in SUBSET File /\ chunks \in [Nas -> [File -> Nat]]
      BY <2>1 DEF TypeOK
    <3>2. chunks' \in [Nas -> [File -> Nat]]
      <4>1. chunks' = [chunks EXCEPT ![n] = [f \in File |->
              IF f \in tmp[n] \ checkpoint[n] THEN @[f] + 1 ELSE @[f]]]
        BY LandsEffect
      <4> QED
        BY <3>1, <4>1
    <3>3. checkpoint' = [checkpoint EXCEPT ![n] = IF tmp[n] = {} THEN {} ELSE @ \cup tmp[n]]
      BY LandsEffect
    <3>4. checkpoint' \in [Nas -> SUBSET File]
      BY <2>1, <3>1, <3>3 DEF TypeOK
    <3> QED
      BY <3>2, <3>4
  <2>3. UNCHANGED <<collector, storage, local>>
    BY LandsEffect
  <2> QED
    BY <2>1, <2>2, <2>3 DEF TypeOK
<1>2. JobInv'
  BY LandsEffect DEF LateInv, IInv, JobInv
<1>3. ASSUME NEW w \in Worker PROVE Snapshot(w)' /\ Removal(w)'
  <2>1. Snapshot(w) /\ Removal(w) /\ UNCHANGED local /\ UNCHANGED <<content, tmp>>
    BY LandsEffect DEF LateInv, IInv, SnapshotInv, RemovalInv
  <2>2. CASE nas[w] = n
    <3>1. pc[w] = "load"
      BY <2>2, LandsEffect
    <3> QED
      BY <2>1, <3>1 DEF Snapshot, Removal
  <2>3. CASE nas[w] # n
    <3>1. CASE pc[w] = "idle"
      BY <2>1, <3>1 DEF Snapshot, Removal
    <3>2. CASE pc[w] # "idle"
      <4>1. nas[w] \in Nas
        BY <3>2, BusyNas DEF LateInv, IInv
      <4>2. checkpoint'[nas[w]] = checkpoint[nas[w]]
        BY <2>3, <4>1, LandsEffect DEF LateInv, IInv, TypeOK
      <4> QED
        BY <2>1, <4>2 DEF Snapshot, Removal
    <3> QED
      BY <3>1, <3>2
  <2> QED
    BY <2>2, <2>3
<1>4. CheckpointInv'
  <2> SUFFICES ASSUME NEW m \in Nas, NEW f \in checkpoint'[m] PROVE chunks'[m][f] > 0
    BY DEF CheckpointInv
  <2>1. CheckpointInv /\ TypeOK
    BY DEF LateInv, IInv
  <2>2. CASE m = n
    <3>1. f \in checkpoint[n] \cup tmp[n] /\ f \in File
      <4>1. checkpoint' = [checkpoint EXCEPT ![n] = IF tmp[n] = {} THEN {} ELSE @ \cup tmp[n]]
        BY LandsEffect
      <4>2. checkpoint'[n] \subseteq checkpoint[n] \cup tmp[n]
        BY <2>1, <4>1 DEF TypeOK
      <4> QED
        BY <1>1, <2>2, <4>2 DEF TypeOK
    <3>2. chunks'[n][f] =
            IF f \in tmp[n] \ checkpoint[n] THEN chunks[n][f] + 1 ELSE chunks[n][f]
      BY <2>1, <3>1, LandsEffect DEF TypeOK
    <3> QED
      BY <2>1, <2>2, <3>1, <3>2 DEF TypeOK, CheckpointInv
  <2>3. CASE m # n
    BY <2>1, <2>3, LandsEffect DEF TypeOK, CheckpointInv
  <2> QED
    BY <2>2, <2>3
<1>5. ReplaySafe'
  <2> SUFFICES ASSUME NEW m \in Nas, NEW f \in File
               PROVE  chunks'[m][f] + Due(m, f)' <= captured'[m][f]
    BY DEF ReplaySafe
  <2>1. /\ TypeOK
        /\ chunks[m][f] + Due(m, f) <= captured[m][f]
    BY DEF LateInv, IInv, ReplaySafe
  <2>2. UNCHANGED <<captured, dir, tmp>>
    BY LandsEffect
  <2>3. CASE m = n
    <3>1. f \in tmp[n] => f \in checkpoint'[n]
      <4>1. checkpoint' = [checkpoint EXCEPT ![n] = IF tmp[n] = {} THEN {} ELSE @ \cup tmp[n]]
        BY LandsEffect
      <4> QED
        BY <2>1, <4>1 DEF TypeOK
    <3>2. chunks'[n][f] =
            IF f \in tmp[n] \ checkpoint[n] THEN chunks[n][f] + 1 ELSE chunks[n][f]
      BY <2>1, LandsEffect DEF TypeOK
    <3> QED
      BY <2>1, <2>2, <2>3, <3>1, <3>2 DEF TypeOK, Due
  <2>4. CASE m # n
    BY <2>1, <2>2, <2>4, LandsEffect DEF TypeOK, Due
  <2> QED
    BY <2>3, <2>4
<1> QED
  BY <1>1, <1>2, <1>3, <1>4, <1>5 DEF IInv, SnapshotInv, RemovalInv

(***************************************************************************)
(* While a transaction is in doubt nothing happens to its batch.           *)
(***************************************************************************)

\* DoubtMatchesTmp of one nas_ip and one transaction.
Matches(n, t) ==
    /\ t.marks = tmp[n]
    /\ t.rows = tmp[n] \ checkpoint[n]
    /\ tmp[n] = {} => t.freed = checkpoint[n]
    /\ tmp[n] # {} => t.freed = {} /\ \E f \in t.rows : content[n][f] = "internal"
    /\ \A w \in Worker : nas[w] = n => pc[w] = "load"

\* What keeps a transaction in doubt the next batch.
Untouched(n) ==
    /\ tmp'[n] = tmp[n] /\ checkpoint'[n] = checkpoint[n] /\ content'[n] = content[n]
    /\ \A w \in Worker : nas'[w] = n => pc'[w] = "load"

LEMMA UntouchedMatches ==
    ASSUME NEW n \in Nas, NEW t, Matches(n, t), Untouched(n)
    PROVE  Matches(n, t)'
BY DEF Matches, Untouched

\* A job that has not loaded yet only ends; the others have nothing in doubt.
LEMMA JobUntouched ==
    ASSUME LateInv, NEW w \in Worker, Job(w), inDoubt[nas[w]] = {} \/ Fail(w),
           NEW n \in Nas, inDoubt[n] # {}
    PROVE  Untouched(n)
<1>1. TypeOK /\ JobInv /\ nas[w] \in Nas /\ UNCHANGED content
  BY BusyNas, JobShape, JobFrame DEF LateInv, IInv
<1>2. \A v \in Worker : nas[v] = n => pc[v] = "load"
  BY DEF LateInv, DoubtMatchesTmp
<1>3. \A v \in Worker \ {w} : pc'[v] = pc[v] /\ nas'[v] = nas[v]
  BY <1>1, JobFrame DEF LocalsKept
<1>4. tmp'[n] = tmp[n] /\ checkpoint'[n] = checkpoint[n]
  <2>1. CASE n # nas[w]
    BY <1>1, <2>1, JobFrame DEF NasKept
  <2>2. CASE n = nas[w]
    BY <2>2 DEF Fail
  <2> QED
    BY <2>1, <2>2
<1>5. nas'[w] = n => pc'[w] = "load"
  <2>1. CASE End(w)
    BY <1>1, <2>1, NoNasAssumption DEF End, TypeOK
  <2>2. CASE ~End(w)
    BY <1>1, <2>2, JobShape DEF GoesOn, Fail
  <2> QED
    BY <2>1, <2>2
<1> QED
  BY <1>1, <1>2, <1>3, <1>4, <1>5 DEF Untouched

LEMMA GivenUpMatches ==
    ASSUME LateInv, NEW w \in Worker, InCommit(w)
    PROVE  /\ nas[w] \in Nas
           /\ inDoubt[nas[w]] = {}
           /\ OpenTransaction(w) \in Transaction
           /\ OpenTransaction(w).marks = tmp[nas[w]]
           /\ OpenTransaction(w).rows = tmp[nas[w]] \ checkpoint[nas[w]]
           /\ tmp[nas[w]] = {} => OpenTransaction(w).freed = checkpoint[nas[w]]
           /\ tmp[nas[w]] # {} =>
                 /\ OpenTransaction(w).freed = {}
                 /\ \E f \in OpenTransaction(w).rows : content[nas[w]][f] = "internal"
<1>1. nas[w] \in Nas /\ TypeOK
  BY BusyNas DEF LateInv, IInv, InCommit
<1>2. Snapshot(w)
  BY DEF LateInv, IInv, SnapshotInv
<1>3. inDoubt[nas[w]] = {}
  BY <1>1 DEF LateInv, DoubtMatchesTmp, InCommit
<1>4. CASE pc[w] = "commit"
  <2>1. rows[w] = tmp[nas[w]] \ checkpoint[nas[w]] /\ marks[w] = tmp[nas[w]]
    BY <1>2, <1>4 DEF Snapshot
  <2>2. \E f \in rows[w] : content[nas[w]][f] = "internal"
    BY <1>2, <1>4, <2>1 DEF Snapshot
  <2> QED
    BY <1>1, <1>3, <1>4, <2>1, <2>2 DEF OpenTransaction, Transaction, TypeOK
<1>5. CASE pc[w] = "removeCheckpoint"
  <2>1. tmp[nas[w]] = {}
    BY <1>2, <1>5 DEF Snapshot
  <2> QED
    BY <1>1, <1>3, <1>5, <2>1 DEF OpenTransaction, Transaction, TypeOK
<1> QED
  BY <1>4, <1>5 DEF InCommit

LEMMA DoubtStep ==
    ASSUME Settles, LateInv, [LateNext]_lateVars
    PROVE  DoubtType' /\ DoubtMatchesTmp'
<1> DEFINE Goal == DoubtType' /\ \A n \in Nas : \A t \in inDoubt'[n] : Matches(n, t)'
<1> SUFFICES Goal
  BY DEF DoubtMatchesTmp, Matches
<1>0. /\ DoubtType /\ TypeOK /\ JobInv
      /\ \A n \in Nas : \A t \in inDoubt[n] : Matches(n, t)
  BY DEF LateInv, IInv, DoubtType, DoubtMatchesTmp, Matches
<1>1. ASSUME UNCHANGED inDoubt, \A n \in Nas : inDoubt[n] # {} => Untouched(n)
      PROVE  Goal
  BY <1>0, <1>1, UntouchedMatches DEF DoubtType
<1>2. CASE UNCHANGED lateVars
  BY <1>0, <1>1, <1>2 DEF Untouched, Matches
<1>3. ASSUME NEW n \in Nas, Collector(n), UNCHANGED inDoubt PROVE Goal
  BY <1>0, <1>1, <1>3 DEF Untouched, Matches, Collector, OpenSpool, Capture
<1>4. ASSUME NEW w \in Worker, NEW n \in Nas, NEW e \in BOOLEAN, Begin(w, n, e),
             UNCHANGED inDoubt
      PROVE  Goal
  BY <1>0, <1>1, <1>4 DEF Untouched, Matches, Begin, Enter, TypeOK
<1>5. ASSUME NEW w \in Worker, Job(w), inDoubt[nas[w]] = {} \/ Fail(w), UNCHANGED inDoubt
      PROVE  Goal
  BY <1>1, <1>5, JobUntouched
<1>6. ASSUME NEW w \in Worker, LoadsCheckpoint(w), UNCHANGED inDoubt PROVE Goal
  BY <1>5, <1>6 DEF LoadsCheckpoint, Job
<1>7. ASSUME NEW w \in Worker, SavesFileNames(w) \/ RemovesByNasIP(w) \/ Proceeds(w),
             UNCHANGED inDoubt
      PROVE  Goal
  <2>1. Job(w)
    BY <1>7 DEF SavesFileNames, RemovesByNasIP, Proceeds, Job
  <2>2. nas[w] \in Nas
    BY <1>0, <2>1, BusyNas, JobShape
  <2>3. CASE pc[w] = "load"
    <3>1. Fail(w)
      BY <1>7, <2>3 DEF SavesFileNames, RemovesByNasIP, Proceeds, SaveFileNames, ReadFileNamesInFlowDir, Move,
         MoveFlowToTempDir, RenameFails, Decide, NoNewFile, NoInternalTraffic, Unrecognized,
         SiftNothing, SiftTraffic, Streamed, SaveChunkList, Commit, CommitAnswerLost, Committed,
         RemoveOld, RemoveOldFails, RemoveByNasIP
    <3> QED
      BY <1>5, <1>7, <2>1, <3>1
  <2>4. CASE pc[w] # "load"
    BY <1>0, <1>5, <1>7, <2>1, <2>2, <2>4 DEF Matches
  <2> QED
    BY <2>3, <2>4
<1>8. ASSUME NEW w \in Worker, GivenUp(w) PROVE Goal
  <2> DEFINE n == nas[w]
  <2>1. InCommit(w) /\ Fail(w) /\ Job(w)
    BY <1>8 DEF GivenUp, Job
  <2>2. /\ n \in Nas /\ inDoubt[n] = {}
        /\ inDoubt' = [inDoubt EXCEPT ![n] = {OpenTransaction(w)}]
    BY <1>8, <2>1, GivenUpMatches DEF GivenUp
  <2>3. DoubtType'
    BY <1>0, <2>1, <2>2, GivenUpMatches DEF DoubtType
  <2>4. ASSUME NEW m \in Nas, NEW t \in inDoubt'[m] PROVE Matches(m, t)'
    <3>1. CASE m # n
      <4>1. t \in inDoubt[m]
        BY <1>0, <2>2, <2>4, <3>1 DEF DoubtType
      <4>2. Untouched(m)
        BY <2>1, <4>1, JobUntouched
      <4> QED
        BY <1>0, <4>1, <4>2, UntouchedMatches
    <3>2. CASE m = n
      <4>1. t = OpenTransaction(w)
        BY <1>0, <2>2, <2>4, <3>2 DEF DoubtType
      <4>2. /\ t.marks = tmp[m] /\ t.rows = tmp[m] \ checkpoint[m]
            /\ tmp[m] = {} => t.freed = checkpoint[m]
            /\ tmp[m] # {} => t.freed = {} /\ \E f \in t.rows : content[m][f] = "internal"
        BY <2>1, <3>2, <4>1, GivenUpMatches
      <4>3. UNCHANGED <<tmp, checkpoint, content>>
        BY <2>1 DEF Fail
      <4>4. \A v \in Worker : nas'[v] # m
        BY <1>0, <2>1, <2>2, <3>2, NoNasAssumption DEF Fail, End, TypeOK, JobInv
      <4> QED
        BY <4>2, <4>3, <4>4 DEF Matches
    <3> QED
      BY <3>1, <3>2
  <2> QED
    BY <2>3, <2>4
<1>9. CASE CrashInDoubt
  <2>1. PICK W \in SUBSET {w \in Worker : InCommit(w)} :
          inDoubt' = [n \in Nas |->
              inDoubt[n] \cup {OpenTransaction(w) : w \in {v \in W : nas[v] = n}}]
    BY <1>9 DEF CrashInDoubt
  <2>2. /\ UNCHANGED <<tmp, checkpoint, content>>
        /\ \A v \in Worker : \A m \in Nas : nas'[v] # m
    BY <1>9, NoNasAssumption DEF CrashInDoubt, Crash
  <2>3. DoubtType'
    BY <1>0, <2>1, GivenUpMatches DEF DoubtType
  <2>4. ASSUME NEW m \in Nas, NEW t \in inDoubt'[m] PROVE Matches(m, t)'
    <3>1. CASE t \in inDoubt[m]
      BY <1>0, <2>2, <3>1 DEF Matches
    <3>2. CASE t \notin inDoubt[m]
      <4>1. PICK w \in W : nas[w] = m /\ t = OpenTransaction(w)
        BY <2>1, <2>4, <3>2
      <4>2. w \in Worker /\ InCommit(w)
        BY <4>1
      <4> QED
        BY <2>2, <4>1, <4>2, GivenUpMatches DEF Matches
    <3> QED
      BY <3>1, <3>2
  <2> QED
    BY <2>3, <2>4
<1>10. ASSUME NEW n \in Nas, NEW t \in inDoubt[n], Lands(n, t) \/ Vanishes(n, t) PROVE Goal
  <2>1. inDoubt' = [inDoubt EXCEPT ![n] = @ \ {t}]
    BY <1>10 DEF Lands, Vanishes, Decided
  <2>2. UNCHANGED <<content, tmp, pc, nas>>
    BY <1>10 DEF Lands, Vanishes
  <2>3. \A m \in Nas \ {n} : checkpoint'[m] = checkpoint[m]
    BY <1>0, <1>10 DEF Lands, Vanishes, TypeOK
  <2>4. DoubtType'
    BY <1>0, <2>1 DEF DoubtType
  <2>5. inDoubt'[n] = {}
    <3>1. ASSUME NEW u \in inDoubt[n] PROVE u = t
      <4>1. Matches(n, u) /\ Matches(n, t)
        BY <1>0
      <4>2. u \in Transaction /\ t \in Transaction
        BY <1>0 DEF DoubtType
      <4> QED
        BY <4>1, <4>2 DEF Matches, Transaction
    <3> QED
      BY <1>0, <2>1, <3>1 DEF DoubtType
  <2>6. ASSUME NEW m \in Nas, NEW u \in inDoubt'[m] PROVE Matches(m, u)'
    <3>1. m # n /\ u \in inDoubt[m]
      BY <1>0, <2>1, <2>5, <2>6 DEF DoubtType
    <3> QED
      BY <1>0, <2>2, <2>3, <3>1 DEF Matches
  <2> QED
    BY <2>4, <2>6
<1> QED
  BY <1>2, <1>3, <1>4, <1>6, <1>7, <1>8, <1>9, <1>10 DEF LateNext, LateJob, ServerDecides

(***************************************************************************)
(* For module Accounting a late commit of chunks bills the batch; one that *)
(* deletes rows, giving up, vanishing or a crash in doubt is nothing.      *)
(***************************************************************************)
LEMMA SimulateLands ==
    ASSUME MaxCaptures = 1, LateInv, NEW n \in Nas, NEW t \in inDoubt[n], Lands(n, t),
           tmp[n] # {}
    PROVE  Promise!Next
<1> PICK S : S = tmp[n] \ checkpoint[n]
  OBVIOUS
<1>0. TypeOK /\ ReplaySafe
  BY DEF LateInv, IInv
<1>1. /\ chunks' = [chunks EXCEPT ![n] = [f \in File |-> IF f \in S THEN @[f] + 1 ELSE @[f]]]
      /\ UNCHANGED <<collector, storage, local>>
      /\ S \subseteq File
  BY <1>0, LandsEffect DEF TypeOK
<1>2. \E f \in S : content[n][f] = "internal"
  BY DEF LateInv, DoubtMatchesTmp
<1>3. \A f \in S : captured[n][f] = 1 /\ chunks[n][f] = 0
  <2> SUFFICES ASSUME NEW f \in S PROVE captured[n][f] = 1 /\ chunks[n][f] = 0
    OBVIOUS
  <2>1. f \in File /\ Due(n, f) \in {1, 2}
    BY <1>1 DEF Due
  <2> QED
    BY <1>0, <2>1, Counters
<1>4. S \subseteq Promise!Waiting(n)
  BY <1>1, <1>3, StatusAt DEF StageOf, Promise!Waiting
<1>5. \A f \in File : chunks'[n][f] = IF f \in S THEN chunks[n][f] + 1 ELSE chunks[n][f]
  BY <1>0, <1>1 DEF TypeOK
<1>6. \A f \in S : StageOf(n, f)' = "billed"
  BY <1>1, <1>3, <1>5 DEF StageOf
<1>7. \A m \in Nas, f \in File : ~(m = n /\ f \in S) => StageOf(m, f)' = StageOf(m, f)
  BY <1>0, <1>1, <1>5 DEF TypeOK, StageOf
<1>8. Promise!Moved(n, S, "billed")
  BY <1>1, <1>6, <1>7, StatusAt, MovedTo
<1>9. Promise!Bill(n, S)
  BY <1>1, <1>2, <1>8 DEF Promise!Bill
<1>10. Muted' \in SUBSET Nas /\ UNCHANGED content /\ S # {}
  BY <1>1, <1>2 DEF Muted
<1> QED
  BY <1>4, <1>9, <1>10 DEF Promise!Next

LEMMA UnseenRemoval ==
    ASSUME LateInv, NEW n \in Nas, NEW t \in inDoubt[n], Lands(n, t), tmp[n] = {}
    PROVE  UNCHANGED Promise!vars
<1>1. TypeOK
  BY DEF LateInv, IInv
<1>2. /\ chunks' = [chunks EXCEPT ![n] = [f \in File |-> chunks[n][f]]]
      /\ UNCHANGED <<collector, storage, local>>
  BY LandsEffect
<1>3. chunks[n] = [f \in File |-> chunks[n][f]]
  BY <1>1 DEF TypeOK
<1>4. chunks' = chunks
  BY <1>1, <1>2, <1>3 DEF TypeOK
<1> QED
  BY <1>2, <1>4 DEF Promise!vars, Status, StageOf, Muted

LEMMA LateSimulation ==
    ASSUME MaxCaptures = 1, LateInv, [LateNext]_lateVars
    PROVE  [Promise!Next]_(Promise!vars)
<1>1. CASE [Next]_vars
  BY <1>1, Simulation DEF LateInv
<1>2. ASSUME NEW n \in Nas, NEW t \in inDoubt[n], Lands(n, t)
      PROVE  Promise!Next \/ UNCHANGED Promise!vars
  BY <1>2, SimulateLands, UnseenRemoval
<1> QED
  BY <1>1, <1>2, AggregateStep

(***************************************************************************)
(* Results.                                                                *)
(***************************************************************************)

\* On a server that settles, a transaction in doubt is always what the next job of its
\* nas_ip would do, and module Aggregate's inductive invariant survives late commits.
THEOREM LateInvariance == ASSUME Settles PROVE LateSpec => []LateInv
<1>1. LateInit => LateInv
  <2> SUFFICES ASSUME LateInit PROVE LateInv
    OBVIOUS
  <2>1. TypeOK
    BY MaxCapturesAssumption DEF LateInit, Init, TypeOK, Step
  <2>2. JobInv /\ SnapshotInv /\ RemovalInv
    BY NoNasAssumption DEF LateInit, Init, JobInv, SnapshotInv, Snapshot, RemovalInv, Removal
  <2>3. CheckpointInv /\ ReplaySafe
    BY DEF LateInit, Init, CheckpointInv, ReplaySafe, Due
  <2> QED
    BY <2>1, <2>2, <2>3 DEF LateInv, IInv, LateInit, DoubtMatchesTmp
<1>2. ASSUME LateInv, [LateNext]_lateVars PROVE LateInv'
  <2>1. DoubtType' /\ DoubtMatchesTmp'
    BY <1>2, DoubtStep
  <2>2. IInv'
    BY <1>2, AggregateStep, IInvStep, LandsStep DEF LateInv
  <2> QED
    BY <2>1, <2>2 DEF LateInv, DoubtType
<1> QED
  BY <1>1, <1>2, PTL DEF LateSpec

\* A transaction in doubt is the next batch itself or, once tmp is empty, the removal of
\* the whole checkpoint.
THEOREM InDoubtIsNextBatch == ASSUME Settles PROVE LateSpec => []DoubtMatchesTmp
<1>1. LateInv => DoubtMatchesTmp
  BY DEF LateInv
<1> QED
  BY <1>1, LateInvariance, PTL

\* Also commits that land after their job gave them up count nothing twice, provided
\* the server decides before the next job loads its checkpoint.
THEOREM LateCountedOnce == ASSUME Settles PROVE LateSpec => []NoDoubleCount
<1>1. LateInv => NoDoubleCount
  BY DueType DEF LateInv, IInv, TypeOK, ReplaySafe, NoDoubleCount
<1> QED
  BY <1>1, LateInvariance, PTL

\* A commit that lands late is still the one batch its files are billed in: on a server
\* that settles, and with names that are delivered once, Accounting is implemented.
THEOREM LateImplementation ==
    ASSUME Settles, MaxCaptures = 1 PROVE LateSpec => ImplementsAccounting
<1>1. LateInit => Promise!Init
  BY PromisedInit DEF LateInit
<1>2. LateInv /\ [LateNext]_lateVars => [Promise!Next]_(Promise!vars)
  BY LateSimulation
<1> QED
  BY <1>1, <1>2, LateInvariance, PTL DEF LateSpec, ImplementsAccounting, Promise!Spec

\* Whatever lands late, each copy of a file that a later job would count is a delivery
\* not counted yet.
THEOREM LateReplayIsSafe == ASSUME Settles PROVE LateSpec => []ReplaySafe
<1>1. LateInv => ReplaySafe
  BY DEF LateInv, IInv
<1> QED
  BY <1>1, LateInvariance, PTL

\* A commit that lands late lets no job delete an uncounted file with internal traffic.
THEOREM LateOnlyCountedFilesDropped == ASSUME Settles PROVE LateSpec => DropsOnlyCountedFiles
<1>1. ASSUME LateInv, [LateNext]_lateVars,
             NEW n \in Nas, NEW f \in tmp[n] \ (checkpoint[n] \cup tmp'[n])
      PROVE  content[n][f] # "internal" \/ \E w \in Worker : nas[w] = n /\ ~enabled[w]
  <2>1. ASSUME NEW m \in Nas, NEW t \in inDoubt[m], Lands(m, t) PROVE FALSE
    BY <1>1, <2>1 DEF Lands
  <2>2. [Next]_vars
    BY <1>1, <2>1, AggregateStep
  <2> QED
    BY <1>1, <2>2, DropStep DEF LateInv
<1>2. LateInv /\ [LateNext]_lateVars =>
        [\A n \in Nas : \A f \in tmp[n] \ (checkpoint[n] \cup tmp'[n]) :
            \/ content[n][f] # "internal"
            \/ \E w \in Worker : nas[w] = n /\ ~enabled[w]]_vars
  BY <1>1
<1> QED
  BY <1>2, LateInvariance, PTL DEF LateSpec, DropsOnlyCountedFiles

\* Nor does it take a checkpoint row from under a file.
THEOREM LateCheckpointOutlives == ASSUME Settles PROVE LateSpec => CheckpointOutlivesFiles
<1>1. ASSUME LateInv, [LateNext]_lateVars, NEW n \in Nas
      PROVE  (checkpoint[n] \ checkpoint'[n]) \cap tmp[n] = {}
  <2>1. ASSUME NEW m \in Nas, NEW t \in inDoubt[m], Lands(m, t)
        PROVE  checkpoint[n] \subseteq checkpoint'[n] \/ tmp[n] = {}
    <3>1. checkpoint' = [checkpoint EXCEPT ![m] = IF tmp[m] = {} THEN {} ELSE @ \cup tmp[m]]
      BY <1>1, <2>1, LandsEffect
    <3>2. checkpoint \in [Nas -> SUBSET File]
      BY <1>1 DEF LateInv, IInv, TypeOK
    <3> QED
      BY <3>1, <3>2
  <2>2. CASE [Next]_vars
    BY <1>1, <2>2, OutliveStep DEF LateInv
  <2> QED
    BY <1>1, <2>1, <2>2, AggregateStep
<1>2. LateInv /\ [LateNext]_lateVars =>
        [\A n \in Nas : (checkpoint[n] \ checkpoint'[n]) \cap tmp[n] = {}]_vars
  BY <1>1
<1> QED
  BY <1>2, LateInvariance, PTL DEF LateSpec, CheckpointOutlivesFiles

=============================================================================
