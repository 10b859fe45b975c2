----------------------------- MODULE LateCommit ------------------------------
(***************************************************************************)
(* Module Aggregate on a database that may decide late.  A client that     *)
(* loses its connection, its context or its process while it waits for the *)
(* answer to COMMIT does not learn the outcome: the server applies the     *)
(* transaction later, or never.  Until then the transaction holds the rows *)
(* of flow_batch that it adds or deletes, and an INSERT of one waits.      *)
(*                                                                         *)
(* Nothing in the code keeps the next job of the nas_ip from loading its   *)
(* checkpoint before that.  Settles says whether the server does.          *)
(***************************************************************************)
EXTENDS Aggregate

CONSTANT Settles    \* the server decides before the next job of the nas_ip loads

ASSUME SettlesAssumption == Settles \in BOOLEAN

VARIABLE inDoubt    \* [Nas -> SUBSET Transaction], given up and not decided

lateVars == <<vars, inDoubt>>

\* The chunks and names a transaction adds, and the rows of flow_batch it deletes.
Transaction == [rows : SUBSET File, marks : SUBSET File, freed : SUBSET File]

LateInit == Init /\ inDoubt = [n \in Nas |-> {}]

\* Both transactions of a job that change rows end with a COMMIT of their own.
InCommit(w) == pc[w] \in {"commit", "removeCheckpoint"}

OpenTransaction(w) ==
    IF pc[w] = "commit"
    THEN [rows |-> rows[w], marks |-> marks[w], freed |-> {}]
    ELSE [rows |-> {}, marks |-> {}, freed |-> checkpoint[nas[w]]]

\* Commit returns an error, and the server may still have the transaction.
GivenUp(w) ==
    /\ InCommit(w)
    /\ Fail(w)
    /\ inDoubt' = [inDoubt EXCEPT ![nas[w]] = @ \cup {OpenTransaction(w)}]

\* The process dies while some of its jobs wait for the answer to COMMIT.
CrashInDoubt ==
    /\ Crash
    /\ \E W \in SUBSET {w \in Worker : InCommit(w)} :
          inDoubt' = [n \in Nas |-> inDoubt[n] \cup {OpenTransaction(w) : w \in {v \in W : nas[v] = n}}]

Decided(n, t) ==
    /\ t \in inDoubt[n]
    /\ inDoubt' = [inDoubt EXCEPT ![n] = @ \ {t}]

Lands(n, t) ==
    /\ Decided(n, t)
    /\ chunks' = [chunks EXCEPT ![n] = [f \in File |-> IF f \in t.rows THEN @[f] + 1 ELSE @[f]]]
    /\ checkpoint' = [checkpoint EXCEPT ![n] = (@ \ t.freed) \cup t.marks]
    /\ UNCHANGED <<collector, storage, local>>

Vanishes(n, t) == Decided(n, t) /\ UNCHANGED vars

LoadsCheckpoint(w) ==
    /\ LoadCommittedFileNames(w)
    /\ Settles => inDoubt[nas[w]] = {}

\* The INSERT waits for a transaction in doubt that holds one of the names.  When one
\* that adds it lands, "on conflict do nothing" goes on as if the names had been free.
SavesFileNames(w) ==
    /\ SaveFileNames(w)
    /\ \A t \in inDoubt[nas[w]] : (t.marks \cup t.freed) \cap names[w] = {}

\* The DELETE waits for one in doubt of the same rows; it does not see added ones.
RemovesByNasIP(w) ==
    /\ RemoveByNasIP(w)
    /\ \A t \in inDoubt[nas[w]] : t.freed \cap checkpoint[nas[w]] = {}

\* Every other step of a job.
Proceeds(w) ==
    \/ ReadFileNamesInFlowDir(w)
    \/ Move(w)
    \/ RenameFails(w)
    \/ Decide(w)
    \/ SaveChunkList(w)
    \/ Commit(w)
    \/ CommitAnswerLost(w)
    \/ RemoveOld(w)
    \/ RemoveOldFails(w)
    \/ Fail(w)

LateJob(w) ==
    \/ /\ LoadsCheckpoint(w) \/ SavesFileNames(w) \/ RemovesByNasIP(w) \/ Proceeds(w)
       /\ UNCHANGED inDoubt
    \/ GivenUp(w)

ServerDecides == \E n \in Nas : \E t \in inDoubt[n] : Lands(n, t) \/ Vanishes(n, t)

LateNext ==
    \/ \E n \in Nas : Collector(n) /\ UNCHANGED inDoubt
    \/ \E w \in Worker, n \in Nas, e \in BOOLEAN : Begin(w, n, e) /\ UNCHANGED inDoubt
    \/ \E w \in Worker : LateJob(w)
    \/ CrashInDoubt
    \/ ServerDecides

LateSpec == LateInit /\ [][LateNext]_lateVars

-----------------------------------------------------------------------------
(***************************************************************************)
(* On a server that settles, module Aggregate's properties hold as they    *)
(* stand, because of the following.                                        *)
(***************************************************************************)

\* A transaction in doubt is what the next job would do itself: save the names in tmp and
\* chunks of those not in the checkpoint or, when tmp is empty, delete the checkpoint.  No
\* job of the nas_ip has looked at it, so if it lands the next job finds that done, and if
\* not it does so (src/src/internal/usecase/aggregator.go:488-549).
DoubtMatchesTmp ==
    \A n \in Nas : \A t \in inDoubt[n] :
        /\ t.marks = tmp[n]
        /\ t.rows = tmp[n] \ checkpoint[n]
        /\ tmp[n] = {} => t.freed = checkpoint[n]
        /\ tmp[n] # {} => t.freed = {} /\ \E f \in t.rows : content[n][f] = "internal"
        /\ \A w \in Worker : nas[w] = n => pc[w] = "load"

\* The inductive invariant.
LateInv == IInv /\ inDoubt \in [Nas -> SUBSET Transaction] /\ DoubtMatchesTmp
=============================================================================
