---------------------------- MODULE Transactions ----------------------------
(***************************************************************************)
(* How the usecases use module SqlSession.  loadChannelMap,                *)
(* loadOnlineSessionMap, loadCommittedFileNames,                           *)
(* saveChunkListWithCheckpoint and removeOldFlow all create a session,     *)
(* Start it, return at once if that fails, and otherwise defer a Rollback  *)
(* that runs whether they committed, failed, panicked or only read.        *)
(* Beside them the sessions of Free call in any order, as the tests do.    *)
(***************************************************************************)
EXTENDS SqlSession

CONSTANT Free   \* sessions that follow no pattern

ASSUME FreeAssumption == Free \subseteq Session

VARIABLE caller     \* [Session -> where the calling function is]

callVars == <<sessionVars, caller>>

CallerStep == {"out", "created", "starting", "working", "leaving"}

TransactionsTypeOK == SessionTypeOK /\ caller \in [Session -> CallerStep]

TransactionsInit == SessionInit /\ caller = [s \in Session |-> "out"]

Becomes(s, from, to) ==
    /\ caller[s] \in from
    /\ caller' = [caller EXCEPT ![s] = to]

\* A new session takes the place of the last one, whose connections stay what they are.
CreateSession(s) ==
    /\ Becomes(s, {"out"}, "created")
    /\ init' = [init EXCEPT ![s] = FALSE]
    /\ currentTx' = [currentTx EXCEPT ![s] = "nil"]
    /\ Answers(s, "nil")
    /\ UNCHANGED <<conns, waiting>>

CallsStart(s) == Becomes(s, {"created"}, "starting") /\ (Start(s) \/ StartRefused(s))

Started(s) == Becomes(s, {"starting"}, "working") /\ Begins(s)

\* Faulty: the Rollback is deferred before the error of Start is looked at.
DefersBeforeCheck(s) == Becomes(s, {"starting"}, "leaving") /\ BeginFails(s)

StartFailed(s) == Becomes(s, {"starting"}, "out") /\ BeginFails(s)

Commits(s) == Becomes(s, {"working"}, "leaving") /\ Commit(s)

\* Faulty: a function that returns early forgets its transaction.
ReturnsWithoutRollback(s) ==
    /\ Becomes(s, {"working", "leaving"}, "out")
    /\ UNCHANGED sessionVars

DeferredRollback(s) == Becomes(s, {"working", "leaving"}, "out") /\ Rollback(s)

Interrupted(s) == ContextEnds(s) /\ UNCHANGED caller

Calls(s) == CreateSession(s) \/ CallsStart(s) \/ Commits(s) \/ DeferredRollback(s)

TransactionsNext ==
    \/ \E s \in Session \ Free : Calls(s) \/ Started(s) \/ StartFailed(s) \/ Interrupted(s)
    \/ \E s \in Free : SessionStep(s) /\ UNCHANGED caller

TransactionsSpec == TransactionsInit /\ [][TransactionsNext]_callVars

(***************************************************************************)
(* Fairness: goroutines are scheduled, and database/sql hands a connection *)
(* that comes back to one of those that wait for it, to which one is left  *)
(* to chance.  Who waits while connections come back again and again is    *)
(* served with probability one, in whatever company: hence the strong      *)
(* fairness of Started.  Nothing is assumed of failures, nor of Free.      *)
(***************************************************************************)
TransactionsFairness ==
    \A s \in Session \ Free : WF_callVars(Calls(s)) /\ SF_callVars(Started(s))

FairTransactionsSpec == TransactionsSpec /\ TransactionsFairness

-----------------------------------------------------------------------------
\* A function that has returned holds no connection, however it went
\* (src/src/internal/usecase/aggregator.go:499-503, 237, 261, 477, 537).
ReturnsConnection ==
    \A s \in Session \ Free : caller[s] \in {"out", "created", "starting"} => conns[s] = 0

\* The usecases never meet the two answers that mean a session was misused
\* (src/src/internal/transaction/sql.go:20-23 and 34-36).
NeverMisused ==
    \A s \in Session \ Free : answer[s] \notin {"ErrActiveTransaction", "ErrClosed"}

\* Where a function is and what its session holds.
CallerMatchesSession(s) ==
    /\ caller[s] \in {"out", "created", "leaving"} => currentTx[s] = "nil"
    /\ caller[s] \in {"created", "leaving"} => ~init[s]
    /\ caller[s] = "working" => currentTx[s] # "nil"
    /\ caller[s] = "starting" <=> s \in waiting

\* The inductive invariant of the call pattern (src/src/internal/usecase/aggregator.go:227-276
\* and 466-549): each function knows whether its session is new, waits, works or is over.
TransactionsInv ==
    /\ TransactionsTypeOK
    /\ SessionInv
    /\ NeverMisused
    /\ \A s \in Session \ Free : CallerMatchesSession(s)

\* Nobody waits for ever for a connection, even where there are fewer of them than
\* goroutines: no function asks for a second one while it holds the first
\* (src/src/cmd/main.go:27-45, src/src/internal/usecase/aggregator.go:466-549).
StartAnswered == \A s \in Session \ Free : caller[s] = "starting" ~> caller[s] # "starting"
=============================================================================
