----------------------------- MODULE Aggregate ------------------------------
(***************************************************************************)
(* One nas_ip through AggregatorUsecase.Aggregate: the ft-* files that the *)
(* collector leaves in the directory of the nas_ip are moved to its tmp/,  *)
(* read, committed to Postgres as chunks together with a checkpoint of     *)
(* their names, deleted, and then the checkpoint is deleted.  The file     *)
(* system and the database have no common transaction, so every call that  *)
(* reaches one of them is a step of its own: it may fail, the process may  *)
(* crash before and after it, and the collector runs in between.           *)
(*                                                                         *)
(* The dispatcher's side of the contract, one job per nas_ip at a time, is *)
(* the guard of Begin; module System shows the cycle and the pool keep it. *)
(***************************************************************************)
EXTENDS Deployment, Naturals

CONSTANTS
    File,           \* names of ft-* files; two directories may hold one name
    Content,        \* the kinds of file content the collector delivers
    MaxCaptures     \* bound: files of one name that are delivered for one nas_ip

(***************************************************************************)
(* A file is "internal" when a record of it touches the internal network,  *)
(* "external" when some record was classified but none is internal,        *)
(* "unreadable" when no record could be parsed and classified, "broken"    *)
(* when the scanner gives up on it (a line beyond bufio.MaxScanTokenSize). *)
(***************************************************************************)
Kind == {"internal", "external", "unreadable", "broken"}

ASSUME ContentAssumption == Content \subseteq Kind
ASSUME MaxCapturesAssumption == MaxCaptures \in Nat

VARIABLES
    content,        \* [Nas -> [File -> Content]], never changes
    captured,       \* [Nas -> [File -> 0 .. MaxCaptures]], files delivered under a name
    spool,          \* [Nas -> BOOLEAN], the collector's unfinished tmp-* file is there
    dir,            \* [Nas -> SUBSET File], ft-* files directly in nas_ip/
    tmp,            \* [Nas -> SUBSET File], ft-* files in nas_ip/tmp/
    tmpDir,         \* [Nas -> BOOLEAN], nas_ip/tmp/ exists
    chunks,         \* [Nas -> [File -> Nat]], committed chunk lists with the file's traffic
    checkpoint,     \* [Nas -> SUBSET File], table flow_batch
    pc,             \* [Worker -> where in Aggregate the goroutine is]
    nas,            \* [Worker -> Nas or NoNas], its nas_ip
    enabled,        \* [Worker -> BOOLEAN], its channelMap enables some channel
    committed,      \* [Worker -> SUBSET File], its committedFileNames
    todo,           \* [Worker -> SUBSET File], listed files not moved to tmp yet
    names,          \* [Worker -> SUBSET File], its fileNameList
    rows,           \* [Worker -> SUBSET File], files behind the chunks in its open transaction
    marks           \* [Worker -> SUBSET File], flow_batch rows in its open transaction

collector == <<content, captured, spool>>
storage == <<dir, tmp, tmpDir>>
database == <<chunks, checkpoint>>
local == <<pc, nas, enabled, committed, todo, names, rows, marks>>
vars == <<collector, storage, database, local>>

Step == {"idle", "load", "list", "move", "saveChunks", "saveNames", "commit",
         "removeOld", "removeCheckpoint"}

TypeOK ==
    /\ content \in [Nas -> [File -> Content]]
    /\ captured \in [Nas -> [File -> 0 .. MaxCaptures]]
    /\ spool \in [Nas -> BOOLEAN]
    /\ dir \in [Nas -> SUBSET File]
    /\ tmp \in [Nas -> SUBSET File]
    /\ tmpDir \in [Nas -> BOOLEAN]
    /\ chunks \in [Nas -> [File -> Nat]]
    /\ checkpoint \in [Nas -> SUBSET File]
    /\ pc \in [Worker -> Step]
    /\ nas \in [Worker -> Nas \cup {NoNas}]
    /\ enabled \in [Worker -> BOOLEAN]
    /\ committed \in [Worker -> SUBSET File]
    /\ todo \in [Worker -> SUBSET File]
    /\ names \in [Worker -> SUBSET File]
    /\ rows \in [Worker -> SUBSET File]
    /\ marks \in [Worker -> SUBSET File]

Init ==
    /\ content \in [Nas -> [File -> Content]]
    /\ captured = [n \in Nas |-> [f \in File |-> 0]]
    /\ spool = [n \in Nas |-> FALSE]
    /\ dir = [n \in Nas |-> {}]
    /\ tmp = [n \in Nas |-> {}]
    /\ tmpDir = [n \in Nas |-> FALSE]
    /\ chunks = [n \in Nas |-> [f \in File |-> 0]]
    /\ checkpoint = [n \in Nas |-> {}]
    /\ pc = [w \in Worker |-> "idle"]
    /\ nas = [w \in Worker |-> NoNas]
    /\ enabled = [w \in Worker |-> FALSE]
    /\ committed = [w \in Worker |-> {}]
    /\ todo = [w \in Worker |-> {}]
    /\ names = [w \in Worker |-> {}]
    /\ rows = [w \in Worker |-> {}]
    /\ marks = [w \in Worker |-> {}]

-----------------------------------------------------------------------------
(***************************************************************************)
(* The collector: it writes tmp-* and renames it to ft-* when its time is  *)
(* up.  A name comes back only while the directory does not hold it.       *)
(***************************************************************************)
OpenSpool(n) ==
    /\ ~spool[n]
    /\ spool' = [spool EXCEPT ![n] = TRUE]
    /\ UNCHANGED <<content, captured, storage, database, local>>

Capture(n, f) ==
    /\ captured[n][f] < MaxCaptures
    /\ f \notin dir[n]
    /\ captured' = [captured EXCEPT ![n][f] = @ + 1]
    /\ dir' = [dir EXCEPT ![n] = @ \cup {f}]
    /\ spool' = [spool EXCEPT ![n] = FALSE]
    /\ UNCHANGED <<content, tmp, tmpDir, database, local>>

-----------------------------------------------------------------------------
(***************************************************************************)
(* A job.                                                                  *)
(***************************************************************************)
Goto(w, step) == pc' = [pc EXCEPT ![w] = step]

\* The goroutine returns from Aggregate: its locals go, an open transaction is rolled back.
End(w) ==
    /\ Goto(w, "idle")
    /\ nas' = [nas EXCEPT ![w] = NoNas]
    /\ enabled' = [enabled EXCEPT ![w] = FALSE]
    /\ committed' = [committed EXCEPT ![w] = {}]
    /\ todo' = [todo EXCEPT ![w] = {}]
    /\ names' = [names EXCEPT ![w] = {}]
    /\ rows' = [rows EXCEPT ![w] = {}]
    /\ marks' = [marks EXCEPT ![w] = {}]

Running(n) == \E w \in Worker : nas[w] = n

\* The goroutine enters Aggregate with the nas_ip and the channelMap of its closure.
Enter(w, n, e) ==
    /\ pc[w] = "idle"
    /\ Goto(w, "load")
    /\ nas' = [nas EXCEPT ![w] = n]
    /\ enabled' = [enabled EXCEPT ![w] = e]
    /\ UNCHANGED <<collector, storage, database, committed, todo, names, rows, marks>>

Begin(w, n, e) == ~Running(n) /\ Enter(w, n, e)

LoadCommittedFileNames(w) ==
    /\ pc[w] = "load"
    /\ committed' = [committed EXCEPT ![w] = checkpoint[nas[w]]]
    /\ Goto(w, "list")
    /\ UNCHANGED <<collector, storage, database, nas, enabled, todo, names, rows, marks>>

\* Faulty: only ft-* files count as a file of the directory.
ReadFlowNamesOnly(w) ==
    /\ pc[w] = "list"
    /\ dir[nas[w]] # {}
    /\ todo' = [todo EXCEPT ![w] = dir[nas[w]]]
    /\ Goto(w, "move")
    /\ UNCHANGED <<collector, storage, database, nas, enabled, committed, names, rows, marks>>

\* A directory without a single file is an error (ErrNoData), whatever tmp holds.
ReadFileNamesInFlowDir(w) ==
    /\ pc[w] = "list"
    /\ dir[nas[w]] # {} \/ spool[nas[w]]
    /\ todo' = [todo EXCEPT ![w] = dir[nas[w]]]
    /\ Goto(w, "move")
    /\ UNCHANGED <<collector, storage, database, nas, enabled, committed, names, rows, marks>>

\* mkdir tmp, then rename, which replaces a file of that name in tmp.
MoveFlowToTempDir(w, f) ==
    /\ pc[w] = "move"
    /\ f \in todo[w] \cap dir[nas[w]]
    /\ tmpDir' = [tmpDir EXCEPT ![nas[w]] = TRUE]
    /\ dir' = [dir EXCEPT ![nas[w]] = @ \ {f}]
    /\ tmp' = [tmp EXCEPT ![nas[w]] = @ \cup {f}]
    /\ todo' = [todo EXCEPT ![w] = @ \ {f}]
    /\ UNCHANGED <<collector, database, pc, nas, enabled, committed, names, rows, marks>>

RenameFails(w) ==
    /\ pc[w] = "move"
    /\ todo[w] # {}
    /\ tmpDir' = [tmpDir EXCEPT ![nas[w]] = TRUE]
    /\ End(w)
    /\ UNCHANGED <<collector, dir, tmp, database>>

(***************************************************************************)
(* Streaming reads the files of tmp that are not committed.  Nothing else  *)
(* touches tmp meanwhile, so reading, hasNewFile, Result and SiftTraffic   *)
(* are one step with one action per outcome.                               *)
(***************************************************************************)
Fresh(w) == tmp[nas[w]] \ committed[w]

FreshOf(w, kind) == {f \in Fresh(w) : content[nas[w]][f] = kind}

Streamed(w) ==
    /\ pc[w] = "move"
    /\ todo[w] = {}
    /\ tmpDir[nas[w]]
    /\ FreshOf(w, "broken") = {}

ToRemoveOld(w) ==
    /\ Goto(w, "removeOld")
    /\ UNCHANGED <<collector, storage, database, nas, enabled, committed, todo, names, rows, marks>>

\* Faulty: one committed file among the names is taken for a finished batch.
NoNewFileIfAnyCommitted(w) ==
    /\ Streamed(w)
    /\ Fresh(w) = {} \/ Fresh(w) # tmp[nas[w]]
    /\ ToRemoveOld(w)

\* Faulty: without new files the job returns at once.
NoNewFileReturns(w) ==
    /\ Streamed(w)
    /\ Fresh(w) = {}
    /\ End(w)
    /\ UNCHANGED <<collector, storage, database>>

NoNewFile(w) ==
    /\ Streamed(w)
    /\ Fresh(w) = {}
    /\ ToRemoveOld(w)

NoInternalTraffic(w) ==
    /\ Streamed(w)
    /\ FreshOf(w, "internal") = {}
    /\ FreshOf(w, "external") # {}
    /\ ToRemoveOld(w)

Unrecognized(w) ==
    /\ Streamed(w)
    /\ Fresh(w) # {}
    /\ Fresh(w) = FreshOf(w, "unreadable")
    /\ End(w)
    /\ UNCHANGED <<collector, storage, database>>

SiftNothing(w) ==
    /\ Streamed(w)
    /\ FreshOf(w, "internal") # {}
    /\ ~enabled[w]
    /\ ToRemoveOld(w)

SiftTraffic(w) ==
    /\ Streamed(w)
    /\ FreshOf(w, "internal") # {}
    /\ enabled[w]
    /\ names' = [names EXCEPT ![w] = tmp[nas[w]]]
    /\ Goto(w, "saveChunks")
    /\ UNCHANGED <<collector, storage, database, nas, enabled, committed, todo, rows, marks>>

-----------------------------------------------------------------------------
(***************************************************************************)
(* The transaction: chunks of the new files, names of all files, commit.   *)
(***************************************************************************)
\* Faulty: committed files are not skipped while streaming.
SaveChunkListOfAllFiles(w) ==
    /\ pc[w] = "saveChunks"
    /\ rows' = [rows EXCEPT ![w] = names[w]]
    /\ Goto(w, "saveNames")
    /\ UNCHANGED <<collector, storage, database, nas, enabled, committed, todo, names, marks>>

SaveChunkList(w) ==
    /\ pc[w] = "saveChunks"
    /\ rows' = [rows EXCEPT ![w] = names[w] \ committed[w]]
    /\ Goto(w, "saveNames")
    /\ UNCHANGED <<collector, storage, database, nas, enabled, committed, todo, names, marks>>

\* Faulty: the checkpoint is not part of the transaction.
SaveNoFileNames(w) ==
    /\ pc[w] = "saveNames"
    /\ Goto(w, "commit")
    /\ UNCHANGED <<collector, storage, database, nas, enabled, committed, todo, names, rows, marks>>

SaveFileNames(w) ==
    /\ pc[w] = "saveNames"
    /\ marks' = [marks EXCEPT ![w] = names[w]]
    /\ Goto(w, "commit")
    /\ UNCHANGED <<collector, storage, database, nas, enabled, committed, todo, names, rows>>

Committed(w) ==
    /\ pc[w] = "commit"
    /\ chunks' = [chunks EXCEPT ![nas[w]] =
                     [f \in File |-> IF f \in rows[w] THEN @[f] + 1 ELSE @[f]]]
    /\ checkpoint' = [checkpoint EXCEPT ![nas[w]] = @ \cup marks[w]]
    /\ UNCHANGED <<collector, storage>>

Commit(w) ==
    /\ Committed(w)
    /\ Goto(w, "removeOld")
    /\ rows' = [rows EXCEPT ![w] = {}]
    /\ marks' = [marks EXCEPT ![w] = {}]
    /\ UNCHANGED <<nas, enabled, committed, todo, names>>

\* Postgres commits, but the answer is lost and Aggregate sees an error.
CommitAnswerLost(w) == Committed(w) /\ End(w)

-----------------------------------------------------------------------------
(***************************************************************************)
(* removeOldFlow: the files first, the checkpoint only after them.         *)
(***************************************************************************)
RemoveOld(w) ==
    /\ pc[w] = "removeOld"
    /\ tmp' = [tmp EXCEPT ![nas[w]] = {}]
    /\ tmpDir' = [tmpDir EXCEPT ![nas[w]] = TRUE]
    /\ Goto(w, "removeCheckpoint")
    /\ UNCHANGED <<collector, dir, database, nas, enabled, committed, todo, names, rows, marks>>

\* Faulty: the error of RemoveOld is ignored and the checkpoint is removed next.
RemoveOldFailsUnnoticed(w) ==
    /\ pc[w] = "removeOld"
    /\ \E rest \in SUBSET tmp[nas[w]], exists \in BOOLEAN :
          /\ rest # {} => exists
          /\ tmp' = [tmp EXCEPT ![nas[w]] = rest]
          /\ tmpDir' = [tmpDir EXCEPT ![nas[w]] = exists]
    /\ Goto(w, "removeCheckpoint")
    /\ UNCHANGED <<collector, dir, database, nas, enabled, committed, todo, names, rows, marks>>

\* RemoveAll, Mkdir or the write of .gitkeep fails and leaves what it did.
RemoveOldFails(w) ==
    /\ pc[w] = "removeOld"
    /\ \E rest \in SUBSET tmp[nas[w]], exists \in BOOLEAN :
          /\ rest # {} => exists
          /\ tmp' = [tmp EXCEPT ![nas[w]] = rest]
          /\ tmpDir' = [tmpDir EXCEPT ![nas[w]] = exists]
    /\ End(w)
    /\ UNCHANGED <<collector, dir, database>>

RemoveByNasIP(w) ==
    /\ pc[w] = "removeCheckpoint"
    /\ checkpoint' = [checkpoint EXCEPT ![nas[w]] = {}]
    /\ End(w)
    /\ UNCHANGED <<collector, storage, chunks>>

-----------------------------------------------------------------------------
\* The call the job is at returns an error or panics before it had any effect.
Fail(w) ==
    /\ pc[w] # "idle"
    /\ End(w)
    /\ UNCHANGED <<collector, storage, database>>

\* The process dies with all its goroutines; open transactions are rolled back.
Crash ==
    /\ pc' = [w \in Worker |-> "idle"]
    /\ nas' = [w \in Worker |-> NoNas]
    /\ enabled' = [w \in Worker |-> FALSE]
    /\ committed' = [w \in Worker |-> {}]
    /\ todo' = [w \in Worker |-> {}]
    /\ names' = [w \in Worker |-> {}]
    /\ rows' = [w \in Worker |-> {}]
    /\ marks' = [w \in Worker |-> {}]
    /\ UNCHANGED <<collector, storage, database>>

Move(w) == \E f \in File : MoveFlowToTempDir(w, f)

Decide(w) ==
    \/ NoNewFile(w)
    \/ NoInternalTraffic(w)
    \/ Unrecognized(w)
    \/ SiftNothing(w)
    \/ SiftTraffic(w)

Job(w) ==
    \/ LoadCommittedFileNames(w)
    \/ ReadFileNamesInFlowDir(w)
    \/ Move(w)
    \/ RenameFails(w)
    \/ Decide(w)
    \/ SaveChunkList(w)
    \/ SaveFileNames(w)
    \/ Commit(w)
    \/ CommitAnswerLost(w)
    \/ RemoveOld(w)
    \/ RemoveOldFails(w)
    \/ RemoveByNasIP(w)
    \/ Fail(w)

Collector(n) == OpenSpool(n) \/ \E f \in File : Capture(n, f)

Next ==
    \/ \E n \in Nas : Collector(n)
    \/ \E w \in Worker, n \in Nas, e \in BOOLEAN : Begin(w, n, e)
    \/ \E w \in Worker : Job(w)
    \/ Crash

Spec == Init /\ [][Next]_vars

(***************************************************************************)
(* Fairness.  The ticker starts a cycle every minute and the cycle starts  *)
(* a job for each nas_ip with an online session, the collector always has  *)
(* an open file, and no call fails every time it is retried: each step of  *)
(* a job that is reached again and again succeeds in the end.              *)
(***************************************************************************)
Fairness ==
    \A n \in Nas :
        /\ WF_vars(OpenSpool(n))
        /\ SF_vars(\E w \in Worker, e \in BOOLEAN : Begin(w, n, e))
        /\ WF_vars(\E w \in Worker : nas[w] = n /\ Job(w))
        /\ SF_vars(\E w \in Worker : nas[w] = n /\ LoadCommittedFileNames(w))
        /\ SF_vars(\E w \in Worker : nas[w] = n /\ ReadFileNamesInFlowDir(w))
        /\ SF_vars(\E w \in Worker : nas[w] = n /\ Move(w))
        /\ SF_vars(\E w \in Worker : nas[w] = n /\ Decide(w))
        /\ SF_vars(\E w \in Worker : nas[w] = n /\ SaveChunkList(w))
        /\ SF_vars(\E w \in Worker : nas[w] = n /\ SaveFileNames(w))
        /\ SF_vars(\E w \in Worker : nas[w] = n /\ Commit(w))
        /\ SF_vars(\E w \in Worker : nas[w] = n /\ RemoveOld(w))
        /\ SF_vars(\E w \in Worker : nas[w] = n /\ RemoveByNasIP(w))

FairSpec == Spec /\ Fairness

-----------------------------------------------------------------------------
(***************************************************************************)
(* Properties.                                                             *)
(***************************************************************************)

\* No traffic is counted twice (src/README.md:94-97): however calls fail and
\* the process restarts, the committed chunk lists hold a file's traffic at
\* most once per delivery of that file.
NoDoubleCount ==
    \A n \in Nas, f \in File : chunks[n][f] <= captured[n][f]

Due(n, f) ==
    (IF f \in dir[n] THEN 1 ELSE 0) + (IF f \in tmp[n] \ checkpoint[n] THEN 1 ELSE 0)

\* Replaying is safe in every state: each copy of a file that a later job would
\* still count is backed by a delivery that no chunk list holds yet.
ReplaySafe ==
    \A n \in Nas, f \in File : chunks[n][f] + Due(n, f) <= captured[n][f]

\* removeOldFlow deletes the whole of tmp on four different paths of Aggregate;
\* a file with internal traffic that is not in the checkpoint goes only when its
\* job found every channel disabled (src/src/internal/usecase/aggregator.go:320-366).
DropsOnlyCountedFiles ==
    [][\A n \in Nas : \A f \in tmp[n] \ (checkpoint[n] \cup tmp'[n]) :
          \/ content[n][f] # "internal"
          \/ \E w \in Worker : nas[w] = n /\ ~enabled[w]]_vars

\* A checkpoint row goes only when its file is gone (src/README.md:113-115).
CheckpointOutlivesFiles ==
    [][\A n \in Nas : (checkpoint[n] \ checkpoint'[n]) \cap tmp[n] = {}]_vars

(***************************************************************************)
(* Why ReplaySafe holds: the inductive invariant.                          *)
(***************************************************************************)

\* One job per nas_ip.
JobInv ==
    /\ \A w \in Worker : pc[w] = "idle" <=> nas[w] = NoNas
    /\ \A v, w \in Worker : nas[v] = nas[w] /\ nas[v] # NoNas => v = w

\* What a job read is still true when it uses it.
Snapshot(w) ==
    /\ pc[w] \in {"list", "move", "saveChunks", "saveNames", "commit"} =>
          committed[w] = checkpoint[nas[w]]
    /\ pc[w] \in {"saveChunks", "saveNames", "commit"} => names[w] = tmp[nas[w]]
    /\ pc[w] \in {"saveNames", "commit"} => rows[w] = names[w] \ committed[w]
    /\ pc[w] = "commit" => marks[w] = names[w]
    /\ pc[w] \in {"saveChunks", "saveNames", "commit"} =>
          \E f \in names[w] \ committed[w] : content[nas[w]][f] = "internal"
    /\ pc[w] = "removeCheckpoint" => tmp[nas[w]] = {}

SnapshotInv == \A w \in Worker : Snapshot(w)

\* A job that is about to delete tmp has nothing left to count there.
Removal(w) ==
    pc[w] = "removeOld" =>
        \A f \in tmp[nas[w]] \ checkpoint[nas[w]] :
            content[nas[w]][f] # "internal" \/ ~enabled[w]

RemovalInv == \A w \in Worker : Removal(w)

\* The checkpoint names counted files only.
CheckpointInv ==
    \A n \in Nas : \A f \in checkpoint[n] : chunks[n][f] > 0

IInv == TypeOK /\ JobInv /\ SnapshotInv /\ RemovalInv /\ CheckpointInv /\ ReplaySafe

(***************************************************************************)
(* The promise of module Accounting, for collectors that never reuse a     *)
(* name: a file is absent until captured, then billed, waiting on disk, or *)
(* discarded.                                                              *)
(***************************************************************************)
StageOf(n, f) ==
    IF captured[n][f] = 0 THEN "absent"
    ELSE IF chunks[n][f] > 0 THEN "billed"
    ELSE IF f \in dir[n] \cup tmp[n] THEN "waiting"
    ELSE "discarded"

Status == [n \in Nas |-> [f \in File |-> StageOf(n, f)]]

Muted == {n \in Nas : \E w \in Worker : nas[w] = n /\ ~enabled[w]}

Promise == INSTANCE Accounting WITH status <- Status, billed <- chunks, muted <- Muted

\* Every behaviour of Aggregate is one that Accounting allows: each delivered file
\* is billed once, together with its batch, or discarded for a stated reason.
ImplementsAccounting == Promise!Spec

\* The directory never holds a file that keeps every later job from its end:
\* a broken file fails the streaming of all the others, an unreadable one may
\* keep a job from reaching removeOldFlow.
Readable(n, kinds) == \A f \in File : content[n][f] \in kinds

Pending(n, f) == f \in dir[n] \cup (tmp[n] \ checkpoint[n])

\* A delivered file with internal traffic does not wait for ever: it is counted
\* in the end, also when it was left in tmp by a job that failed.
InternalIsSettled ==
    \A n \in Nas, f \in File :
        (/\ Pending(n, f)
         /\ content[n][f] = "internal"
         /\ Readable(n, Kind \ {"broken"})) ~> ~Pending(n, f)

\* What a failed clean-up left behind goes in the end: a counted file leaves tmp, and
\* with the last of them its row leaves the checkpoint, so that a file which comes under
\* the name again is not taken for it.  Only where tmp itself is missing the row may stay.
LeftoversAreRemoved ==
    \A n \in Nas, f \in File :
        (/\ f \in checkpoint[n]
         /\ Readable(n, {"internal", "external"}))
            ~> (f \notin tmp[n] /\ (f \notin checkpoint[n] \/ ~tmpDir[n]))

\* The repeated clean-up of src/README.md:108-111: without new files a later cycle
\* only cleans up, provided the directory holds some file, and so the checkpoint
\* is released in the end.  The code does not do so once tmp itself is missing.
CheckpointIsReleased ==
    \A n \in Nas :
        (checkpoint[n] # {} /\ Readable(n, {"internal", "external"})) ~> (checkpoint[n] = {})
=============================================================================
