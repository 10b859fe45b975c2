------------------------------- MODULE System -------------------------------
(***************************************************************************)
(* The whole aggregator: the cycle of module Cycle whose pool goroutines   *)
(* run the jobs of module Aggregate on the server of module LateCommit.  A *)
(* goroutine enters Aggregate when it begins and leaves its function when  *)
(* Aggregate returns or panics; the context of the process is the one      *)
(* every database call of a job gets.  A COMMIT that a done context gives  *)
(* up is decided by the server when it likes, also after main has ended.   *)
(***************************************************************************)
EXTENDS LateCommit, Cycle

allVars == <<lateVars, cycleVars>>

\* Where a job is inside a call that takes the context.
InDatabase(w) ==
    pc[w] \in {"load", "saveChunks", "saveNames", "commit", "removeCheckpoint"}

\* database/sql refuses to begin, execute or commit under a context that is done.
Allowed(w) == InDatabase(w) => ~cancelled

\* Faulty: the function reads the loop's variable instead of its own nas_ip.
EntersWithLoopVariable(w) ==
    /\ JobBegins(w)
    /\ \E e \in BOOLEAN : Enter(w, IF target # NoNas THEN target ELSE task[w], e)
    /\ UNCHANGED inDoubt

\* Only a goroutine calls Aggregate, with the nas_ip its function was made for.
Enters(w) ==
    /\ JobBegins(w)
    /\ \E e \in BOOLEAN : Enter(w, task[w], e)
    /\ UNCHANGED inDoubt

Works(w) ==
    /\ gor[w] = "running"
    /\ Allowed(w)
    /\ LateJob(w)
    /\ pc'[w] # "idle"
    /\ UNCHANGED cycleVars

Returns(w) ==
    /\ JobReturns(w)
    /\ LateJob(w)
    /\ pc'[w] = "idle"
    /\ Allowed(w) \/ Fail(w)

Panics(w) == JobPanics(w) /\ Fail(w) /\ UNCHANGED inDoubt

SystemInit == LateInit /\ CycleInit

SystemNext ==
    \/ Orchestrate /\ UNCHANGED lateVars
    \/ \E n \in Nas : Collector(n) /\ UNCHANGED <<inDoubt, cycleVars>>
    \/ \E w \in Worker : Enters(w) \/ Works(w) \/ Returns(w) \/ Panics(w)
    \/ ServerDecides /\ UNCHANGED cycleVars
    \/ Restart /\ CrashInDoubt

SystemSpec == SystemInit /\ [][SystemNext]_allVars

-----------------------------------------------------------------------------
\* The cycle keeps the contract Aggregate relies on: every behaviour of the system is
\* one of Aggregate on its server alone, in which a job begins only on a nas_ip nobody
\* works on.  Thus what is shown of module LateCommit holds in the system.
KeepsAggregateContract == LateSpec

\* A goroutine of the pool is inside Aggregate exactly while its function runs, and
\* there it works on the nas_ip the dispatch loop made the function for.
JobMatchesGoroutine ==
    \A w \in Worker :
        /\ pc[w] # "idle" <=> gor[w] = "running"
        /\ gor[w] = "running" => nas[w] = task[w]

\* The inductive invariant that makes the cycle keep the contract.
SystemInv ==
    /\ TypeOK /\ inDoubt \in [Nas -> SUBSET Transaction]
    /\ JobInv /\ CycleInv /\ JobMatchesGoroutine

(***************************************************************************)
(* What cycle and jobs promise together.                                   *)
(***************************************************************************)

\* No more jobs work than the pool has slots, hence no more transactions are open for
\* them than db.SetMaxOpenConns reckons with (src/src/cmd/main.go:27-48).
JobsWithinPool == Cardinality({w \in Worker : pc[w] # "idle"}) <= PoolSize

\* Between cycles, and once Cron.Run has returned, no job is left.
JobsEndWithCycle == main \in {"select", "returned"} => \A w \in Worker : pc[w] = "idle"

\* When Cron.Run has returned main only waits for the http server, flushes its spans and
\* exits (src/src/cmd/main.go:89-95): until the process starts again it moves and deletes
\* no file, and no row changes but by the server that decides on a COMMIT given up before.
QuietAfterReturn ==
    [][main = "returned" =>
          /\ UNCHANGED <<tmp, tmpDir>>
          /\ UNCHANGED <<database, inDoubt>> \/ ServerDecides]_allVars
=============================================================================
