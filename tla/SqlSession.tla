----------------------------- MODULE SqlSession -----------------------------
(***************************************************************************)
(* transaction.Session on database/sql: Start, Rollback and Commit of      *)
(* several sessions that share one connection pool.  Each session is used  *)
(* by one goroutine, in any order of calls its interface allows.  Module   *)
(* Transactions adds the order that the usecases follow.                   *)
(***************************************************************************)
EXTENDS Naturals, FiniteSets

CONSTANTS
    Session,        \* the sessions, one per goroutine
    MaxOpenConns    \* what pgdb.SqlxDB sets; a transaction holds one connection

ASSUME MaxOpenConnsAssumption == MaxOpenConns \in Nat \ {0}
ASSUME SessionAssumption == IsFiniteSet(Session)

VARIABLES
    init,       \* [Session -> BOOLEAN]
    currentTx,  \* [Session -> "nil", "open" or, after its context ended, "done"]
    conns,      \* [Session -> Nat], connections held by transactions it began
    waiting,    \* sessions whose Start is inside BeginTxx
    answer      \* [Session -> what its last call returned]

sessionVars == <<init, currentTx, conns, waiting, answer>>

Error == {"ErrActiveTransaction", "ErrNotInit", "ErrClosed", "driver"}

SessionTypeOK ==
    /\ init \in [Session -> BOOLEAN]
    /\ currentTx \in [Session -> {"nil", "open", "done"}]
    /\ conns \in [Session -> Nat]
    /\ waiting \in SUBSET Session
    /\ answer \in [Session -> Error \cup {"nil"}]

\* NewSQLSession.
SessionInit ==
    /\ init = [s \in Session |-> FALSE]
    /\ currentTx = [s \in Session |-> "nil"]
    /\ conns = [s \in Session |-> 0]
    /\ waiting = {}
    /\ answer = [s \in Session |-> "nil"]

\* The connections that transactions hold: so many of each session.
Held == UNION {{s} \X (1..conns[s]) : s \in Session}

TxIsActive(s) == init[s] /\ currentTx[s] # "nil"

Answers(s, err) == answer' = [answer EXCEPT ![s] = err]

Refuses(s, err) ==
    /\ s \notin waiting
    /\ Answers(s, err)
    /\ UNCHANGED <<init, currentTx, conns, waiting>>

StartRefused(s) == TxIsActive(s) /\ Refuses(s, "ErrActiveTransaction")

\* Faulty: an active transaction does not keep Start from beginning another one.
StartAnyway(s) ==
    /\ s \notin waiting
    /\ init' = [init EXCEPT ![s] = TRUE]
    /\ waiting' = waiting \cup {s}
    /\ UNCHANGED <<currentTx, conns, answer>>

Start(s) ==
    /\ s \notin waiting
    /\ ~TxIsActive(s)
    /\ init' = [init EXCEPT ![s] = TRUE]
    /\ waiting' = waiting \cup {s}
    /\ UNCHANGED <<currentTx, conns, answer>>

\* BeginTxx waits for a connection.
Begins(s) ==
    /\ s \in waiting
    /\ Cardinality(Held) < MaxOpenConns
    /\ waiting' = waiting \ {s}
    /\ currentTx' = [currentTx EXCEPT ![s] = "open"]
    /\ conns' = [conns EXCEPT ![s] = @ + 1]
    /\ Answers(s, "nil")
    /\ UNCHANGED init

\* The context ends or the server refuses: no transaction, but init stays set.
BeginFails(s) ==
    /\ s \in waiting
    /\ waiting' = waiting \ {s}
    /\ currentTx' = [currentTx EXCEPT ![s] = "nil"]
    /\ Answers(s, "driver")
    /\ UNCHANGED <<init, conns>>

\* database/sql rolls a transaction back when its context ends; the session knows nothing.
ContextEnds(s) ==
    /\ currentTx[s] = "open"
    /\ currentTx' = [currentTx EXCEPT ![s] = "done"]
    /\ conns' = [conns EXCEPT ![s] = @ - 1]
    /\ UNCHANGED <<init, waiting, answer>>

\* Faulty: a transaction that is over leaves init set.
FinishKeepsInit(s) ==
    \/ ~init[s] /\ Refuses(s, "ErrNotInit")
    \/ init[s] /\ currentTx[s] = "nil" /\ Refuses(s, "ErrClosed")
    \/ /\ s \notin waiting
       /\ TxIsActive(s)
       /\ currentTx' = [currentTx EXCEPT ![s] = "nil"]
       /\ conns' = [conns EXCEPT ![s] = IF currentTx[s] = "open" THEN @ - 1 ELSE @]
       /\ Answers(s, "nil")
       /\ UNCHANGED <<init, waiting>>

\* Rollback and Commit check and reset the session alike.  The connection goes back to
\* the pool even when the driver reports an error.
Finish(s) ==
    \/ ~init[s] /\ Refuses(s, "ErrNotInit")
    \/ init[s] /\ currentTx[s] = "nil" /\ Refuses(s, "ErrClosed")
    \/ /\ s \notin waiting
       /\ TxIsActive(s)
       /\ init' = [init EXCEPT ![s] = FALSE]
       /\ currentTx' = [currentTx EXCEPT ![s] = "nil"]
       /\ conns' = [conns EXCEPT ![s] = IF currentTx[s] = "open" THEN @ - 1 ELSE @]
       /\ \E err \in {"nil", "driver"} :
             /\ currentTx[s] = "done" => err = "driver"
             /\ Answers(s, err)
       /\ UNCHANGED waiting

Rollback(s) == Finish(s)
Commit(s) == Finish(s)

SessionStep(s) ==
    \/ StartRefused(s)
    \/ Start(s)
    \/ Begins(s)
    \/ BeginFails(s)
    \/ ContextEnds(s)
    \/ Rollback(s)
    \/ Commit(s)

SessionNext == \E s \in Session : SessionStep(s)

SessionSpec == SessionInit /\ [][SessionNext]_sessionVars

-----------------------------------------------------------------------------
\* Whatever the order of calls, a session can still end every transaction it has open:
\* none keeps a connection that no later Rollback or Commit gives back
\* (src/src/internal/transaction/sql.go:19-57).
NoTransactionLost ==
    \A s \in Session : conns[s] = IF s \notin waiting /\ currentTx[s] = "open" THEN 1 ELSE 0

\* The inductive invariant: init marks every session that has or awaits a transaction,
\* and one that awaits a transaction has none.
SessionInv ==
    /\ SessionTypeOK
    /\ \A s \in Session : currentTx[s] # "nil" => init[s]
    /\ \A s \in waiting : init[s] /\ currentTx[s] = "nil"
    /\ NoTransactionLost

\* The comment of TestSessionRollbackAfterCommit
\* (src/src/internal/transaction/test/session/session_test.go:58-61): ErrClosed cannot
\* be reached through the public interface, since init and currentTx are always reset
\* together.  A Start whose BeginTxx fails sets one without the other.
ErrClosedUnreachable == \A s \in Session : answer[s] # "ErrClosed"
=============================================================================
