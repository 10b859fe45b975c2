--------------------------- MODULE ConnectionPool ---------------------------
(***************************************************************************)
(* The connections of database/sql as the usecases and the readiness probe *)
(* share them.  main opens the pool with the size of the worker pool and a *)
(* reserve; /readyz pings under a timeout of its own that covers the wait  *)
(* for a connection, so a probe and a job may compete for the one that     *)
(* comes back.                                                             *)
(***************************************************************************)
EXTENDS Transactions

CONSTANT Request    \* requests of /readyz that may be served at once

ASSUME RequestAssumption == IsFiniteSet(Request)

VARIABLE probe      \* [Request -> "none", "waiting" for a connection, "pinging"]

poolVars == <<callVars, probe>>

PoolInit == TransactionsInit /\ probe = [r \in Request |-> "none"]

Pinging == {r \in Request : probe[r] = "pinging"}

InUse == Cardinality(Held) + Cardinality(Pinging)

HasConnection == InUse < MaxOpenConns

ProbeBecomes(r, from, to) ==
    /\ probe[r] \in from
    /\ probe' = [probe EXCEPT ![r] = to]
    /\ UNCHANGED callVars

ProbeArrives(r) == ProbeBecomes(r, {"none"}, "waiting")

Pings(r) == HasConnection /\ ProbeBecomes(r, {"waiting"}, "pinging")

\* The server answers the ping, well or not.
PingAnswered(r) == ProbeBecomes(r, {"pinging"}, "none")

\* Faulty: the timeout covers the ping but not the wait for a connection.
PingTimesOut(r) == ProbeBecomes(r, {"pinging"}, "none")

\* readyTimeout, or the request goes away: 503, and the connection is given back.
ProbeTimesOut(r) == ProbeBecomes(r, {"waiting", "pinging"}, "none")

\* A transaction begins when the pool has a connection left beside the pings.
Uses ==
    /\ TransactionsNext
    /\ (\E s \in Session : conns'[s] > conns[s]) => HasConnection
    /\ UNCHANGED probe

Probes(r) == Pings(r) \/ PingAnswered(r) \/ ProbeTimesOut(r)

PoolNext == Uses \/ \E r \in Request : ProbeArrives(r) \/ Probes(r)

PoolSpec == PoolInit /\ [][PoolNext]_poolVars

(***************************************************************************)
(* Fairness: as in module Transactions, and every probe's timer runs off.  *)
(***************************************************************************)
PoolFairness ==
    /\ \A s \in Session \ Free :
          /\ WF_poolVars(Calls(s) /\ UNCHANGED probe)
          /\ SF_poolVars(HasConnection /\ Started(s) /\ UNCHANGED probe)
    /\ \A r \in Request : WF_poolVars(ProbeTimesOut(r))

FairPoolSpec == PoolSpec /\ PoolFairness

-----------------------------------------------------------------------------
(***************************************************************************)
(* Properties.                                                             *)
(***************************************************************************)

\* The reserve of main.go:27-29 does what it is for: while no more probes ping than the
\* pool has connections beyond one per goroutine, no transaction waits for another.
\* It holds because no function keeps a connection or takes a second one.
ReserveSuffices ==
    Cardinality(Session) + Cardinality(Pinging) <= MaxOpenConns =>
        (waiting # {} => HasConnection)

\* A probe does not wait for ever (src/src/external/health/health.go:40-57).
ProbeAnswered == \A r \in Request : probe[r] # "none" ~> probe[r] = "none"

\* Nobody waits for a connection for ever: neither a transaction behind probes, nor a
\* probe while all connections are taken (src/src/internal/transaction/sql.go:19-27,
\* src/src/external/health/health.go:42-47).
AllAnswered == StartAnswered /\ ProbeAnswered

\* A session with init set and no transaction is one whose last BeginTxx failed: it is
\* the only way to the answer ErrClosed (src/src/internal/transaction/sql.go:19-57).
HalfStartedAfterFailure ==
    \A s \in Session : init[s] /\ currentTx[s] = "nil" /\ s \notin waiting =>
        answer[s] \in {"driver", "ErrClosed"}
=============================================================================
