------------------------- MODULE TransactionsProofs -------------------------
(***************************************************************************)
(* The call pattern of the usecases keeps TransactionsInv, for any number  *)
(* of functions, free sessions and connections.                            *)
(***************************************************************************)
EXTENDS ConnectionPool, FiniteSetTheorems, TLAPS

\* What one call does to a session is its own affair, whatever the order of calls.
LEMMA StepKeepsSessionInv ==
    ASSUME SessionInv, NEW s \in Session, SessionStep(s)
    PROVE  SessionInv'
<1> USE DEF SessionInv, SessionTypeOK, NoTransactionLost, Answers
<1>1. CASE StartRefused(s)
  BY <1>1 DEF StartRefused, Refuses, Error
<1>2. CASE Start(s)
  BY <1>2 DEF Start, TxIsActive
<1>3. CASE Begins(s)
  BY <1>3 DEF Begins
<1>4. CASE BeginFails(s)
  BY <1>4 DEF BeginFails, Error
<1>5. CASE ContextEnds(s)
  BY <1>5 DEF ContextEnds
<1>6. CASE Finish(s)
  <2>1. CASE Refuses(s, "ErrNotInit") \/ Refuses(s, "ErrClosed")
    BY <2>1 DEF Refuses, Error
  <2>2. CASE ~(Refuses(s, "ErrNotInit") \/ Refuses(s, "ErrClosed"))
    <3>1. /\ s \notin waiting
          /\ init' = [init EXCEPT ![s] = FALSE]
          /\ currentTx' = [currentTx EXCEPT ![s] = "nil"]
          /\ conns' = [conns EXCEPT ![s] = IF currentTx[s] = "open" THEN @ - 1 ELSE @]
          /\ waiting' = waiting
      BY <1>6, <2>2 DEF Finish
    <3>2. PICK err \in {"nil", "driver"} : Answers(s, err)
      BY <1>6, <2>2 DEF Finish
    <3>3. answer' \in [Session -> Error \cup {"nil"}]
      BY <3>2 DEF Error
    <3>4. (IF currentTx[s] = "open" THEN conns[s] - 1 ELSE conns[s]) = 0
      BY <3>1
    <3>5. conns' = [conns EXCEPT ![s] = 0]
      BY <3>1, <3>4
    <3>6. SessionTypeOK'
      <4>1. init' \in [Session -> BOOLEAN]
        BY <3>1
      <4>2. currentTx' \in [Session -> {"nil", "open", "done"}]
        BY <3>1
      <4>3. conns' \in [Session -> Nat]
        BY <3>5
      <4>4. waiting' \in SUBSET Session
        BY <3>1
      <4> QED
        BY <3>3, <4>1, <4>2, <4>3, <4>4
    <3>7. NoTransactionLost'
      BY <3>1, <3>5
    <3>8. \A t \in Session : (currentTx[t] # "nil")' => init'[t]
      BY <3>1
    <3>9. \A t \in waiting' : init'[t] /\ currentTx'[t] = "nil"
      BY <3>1
    <3> QED
      BY <3>6, <3>7, <3>8, <3>9
  <2> QED
    BY <2>1, <2>2
<1> QED
  BY <1>1, <1>2, <1>3, <1>4, <1>5, <1>6 DEF SessionStep, Rollback, Commit

LEMMA InitTransactionsInv == TransactionsInit => TransactionsInv
BY DEF TransactionsInit, SessionInit, TransactionsInv, TransactionsTypeOK, CallerStep, SessionInv,
       SessionTypeOK, NoTransactionLost, NeverMisused, CallerMatchesSession

\* A free session touches neither another session nor any caller.
LEMMA FreeKeepsTransactionsInv ==
    ASSUME TransactionsInv, NEW s \in Free, SessionStep(s), UNCHANGED caller
    PROVE  TransactionsInv'
<1>1. s \in Session
  BY FreeAssumption
<1>2. SessionInv'
  BY <1>1, StepKeepsSessionInv DEF TransactionsInv
<1>3. \A t \in Session \ Free : /\ init'[t] = init[t]
                                /\ currentTx'[t] = currentTx[t]
                                /\ (t \in waiting)' <=> t \in waiting
                                /\ answer'[t] = answer[t]
  BY <1>1 DEF SessionStep, StartRefused, Start, Begins, BeginFails, ContextEnds, Rollback, Commit,
              Finish, Refuses, Answers, TransactionsInv, SessionInv, SessionTypeOK
<1>4. NeverMisused'
  BY <1>3 DEF NeverMisused, TransactionsInv
<1>5. \A t \in Session \ Free : CallerMatchesSession(t)'
  BY <1>3 DEF CallerMatchesSession, TransactionsInv
<1> QED
  BY <1>2, <1>4, <1>5 DEF TransactionsInv, TransactionsTypeOK, SessionInv

\* A function of the usecases knows where it is.
LEMMA CallerKeepsTransactionsInv ==
    ASSUME TransactionsInv, NEW s \in Session \ Free,
           Calls(s) \/ Started(s) \/ StartFailed(s) \/ Interrupted(s)
    PROVE  TransactionsInv'
<1> USE DEF TransactionsInv, TransactionsTypeOK, CallerStep, NeverMisused, CallerMatchesSession
<1>a. /\ caller[s] \in {"out", "created", "leaving"} => currentTx[s] = "nil"
      /\ caller[s] \in {"created", "leaving"} => ~init[s]
      /\ caller[s] = "working" => currentTx[s] # "nil"
      /\ caller[s] = "starting" <=> s \in waiting
      /\ currentTx[s] # "nil" => init[s]
  BY DEF SessionInv
<1>1. CASE CreateSession(s)
  BY <1>1, <1>a DEF CreateSession, Becomes, Answers, SessionInv, SessionTypeOK, NoTransactionLost
<1>2. CASE CallsStart(s)
  <2>1. Start(s) /\ Becomes(s, {"created"}, "starting")
    BY <1>2, <1>a DEF CallsStart, StartRefused, TxIsActive, Becomes
  <2>2. SessionInv'
    BY <2>1, StepKeepsSessionInv DEF SessionStep
  <2> QED
    BY <2>1, <2>2, <1>a DEF Start, Becomes, SessionInv, SessionTypeOK
<1>3. CASE Commits(s)
  <2>1. SessionInv'
    BY <1>3, StepKeepsSessionInv DEF SessionStep, Commits
  <2> QED
    BY <1>3, <2>1, <1>a DEF Commits, Becomes, Commit, Finish, TxIsActive, Answers, Refuses, SessionInv,
                           SessionTypeOK
<1>4. CASE DeferredRollback(s)
  <2>1. SessionInv'
    BY <1>4, StepKeepsSessionInv DEF SessionStep, DeferredRollback
  <2> QED
    BY <1>4, <2>1, <1>a DEF DeferredRollback, Becomes, Rollback, Finish, TxIsActive, Answers, Refuses,
                           SessionInv, SessionTypeOK
<1>5. CASE Started(s)
  <2>1. SessionInv'
    BY <1>5, StepKeepsSessionInv DEF SessionStep, Started
  <2> QED
    BY <1>5, <2>1, <1>a DEF Started, Becomes, Begins, Answers, SessionInv, SessionTypeOK
<1>6. CASE StartFailed(s)
  <2>1. SessionInv'
    BY <1>6, StepKeepsSessionInv DEF SessionStep, StartFailed
  <2> QED
    BY <1>6, <2>1, <1>a DEF StartFailed, Becomes, BeginFails, Answers, SessionInv, SessionTypeOK
<1>7. CASE Interrupted(s)
  <2>1. SessionInv'
    BY <1>7, StepKeepsSessionInv DEF SessionStep, Interrupted
  <2> QED
    BY <1>7, <2>1, <1>a DEF Interrupted, ContextEnds, SessionInv, SessionTypeOK
<1> QED
  BY <1>1, <1>2, <1>3, <1>4, <1>5, <1>6, <1>7 DEF Calls

\* The calls of src/src/internal/usecase/aggregator.go on sessions keep TransactionsInv.
THEOREM TransactionsInvariance == TransactionsSpec => []TransactionsInv
<1>1. TransactionsInv /\ [TransactionsNext]_callVars => TransactionsInv'
  <2> SUFFICES ASSUME TransactionsInv, [TransactionsNext]_callVars PROVE TransactionsInv'
    OBVIOUS
  <2>1. CASE TransactionsNext
    BY <2>1, CallerKeepsTransactionsInv, FreeKeepsTransactionsInv DEF TransactionsNext
  <2>2. CASE UNCHANGED callVars
    BY <2>2 DEF callVars, sessionVars, TransactionsInv, TransactionsTypeOK, SessionInv, SessionTypeOK,
                NoTransactionLost, NeverMisused, CallerMatchesSession
  <2> QED
    BY <2>1, <2>2
<1> QED
  BY InitTransactionsInv, <1>1, PTL DEF TransactionsSpec

\* No session, free ones included, loses a transaction that holds a connection
\* (src/src/internal/transaction/sql.go:19-57).
THEOREM TransactionsKept == TransactionsSpec => []NoTransactionLost
<1>1. TransactionsInv => NoTransactionLost
  BY DEF TransactionsInv, SessionInv
<1> QED
  BY <1>1, TransactionsInvariance, PTL

\* A function that has returned holds no connection.
THEOREM ConnectionsReturned == TransactionsSpec => []ReturnsConnection
<1>1. TransactionsInv => ReturnsConnection
  BY DEF TransactionsInv, SessionInv, NoTransactionLost, ReturnsConnection, CallerMatchesSession
<1> QED
  BY <1>1, TransactionsInvariance, PTL

\* The usecases never see ErrActiveTransaction or ErrClosed.
THEOREM SessionsUsedRight == TransactionsSpec => []NeverMisused
<1>1. TransactionsInv => NeverMisused
  BY DEF TransactionsInv
<1> QED
  BY <1>1, TransactionsInvariance, PTL

\* A session with init set and no transaction is one whose last BeginTxx failed, also
\* among the free ones, so nothing else leads to ErrClosed.
THEOREM HalfStarted == TransactionsSpec => []HalfStartedAfterFailure
<1> USE DEF HalfStartedAfterFailure
<1>1. TransactionsInit => HalfStartedAfterFailure
  BY DEF TransactionsInit, SessionInit
<1>2. ASSUME TransactionsInv, HalfStartedAfterFailure, [TransactionsNext]_callVars
      PROVE  HalfStartedAfterFailure'
  <2>1. SessionTypeOK
    BY <1>2 DEF TransactionsInv, SessionInv
  <2>2. CASE UNCHANGED sessionVars
    BY <1>2, <2>2 DEF sessionVars
  <2>3. ASSUME NEW s \in Session, StartRefused(s) \/ Start(s) PROVE HalfStartedAfterFailure'
    BY <1>2, <2>1, <2>3 DEF StartRefused, Refuses, Start, TxIsActive, Answers, SessionTypeOK
  <2>4. ASSUME NEW s \in Session, Begins(s) \/ BeginFails(s) PROVE HalfStartedAfterFailure'
    BY <1>2, <2>1, <2>4 DEF Begins, BeginFails, Answers, SessionTypeOK
  <2>5. ASSUME NEW s \in Session, ContextEnds(s) PROVE HalfStartedAfterFailure'
    BY <1>2, <2>1, <2>5 DEF ContextEnds, SessionTypeOK
  <2>6. ASSUME NEW s \in Session, Finish(s) PROVE HalfStartedAfterFailure'
    BY <1>2, <2>1, <2>6 DEF Finish, Refuses, TxIsActive, Answers, SessionTypeOK
  <2>7. ASSUME NEW s \in Session, CreateSession(s) PROVE HalfStartedAfterFailure'
    BY <1>2, <2>1, <2>7 DEF CreateSession, Answers, SessionTypeOK
  <2>8. ASSUME NEW s \in Session, SessionStep(s) PROVE HalfStartedAfterFailure'
    BY <2>3, <2>4, <2>5, <2>6, <2>8 DEF SessionStep, Rollback, Commit
  <2>9. ASSUME NEW s \in Session,
               Calls(s) \/ Started(s) \/ StartFailed(s) \/ Interrupted(s)
        PROVE  CreateSession(s) \/ SessionStep(s)
    BY <2>9 DEF Calls, CallsStart, Started, StartFailed, Commits, DeferredRollback, Interrupted,
                SessionStep
  <2> QED
    BY <1>2, <2>2, <2>7, <2>8, <2>9, FreeAssumption DEF TransactionsNext, callVars
<1> QED
  BY <1>1, <1>2, TransactionsInvariance, PTL DEF TransactionsSpec

\* With probes that take connections of the same pool the usecases and their sessions
\* behave as without them, so all of the above holds in module ConnectionPool.
THEOREM PoolImplements == PoolSpec => TransactionsSpec
<1>1. PoolInit => TransactionsInit
  BY DEF PoolInit
<1>2. [PoolNext]_poolVars => [TransactionsNext]_callVars
  BY DEF PoolNext, Uses, Probes, ProbeArrives, Pings, PingAnswered, ProbeTimesOut, ProbeBecomes,
         poolVars
<1> QED
  BY <1>1, <1>2, PTL DEF PoolSpec, TransactionsSpec

\* In the pool shared with the probes a function that returned holds no connection.
THEOREM PoolReturnsConnection == PoolSpec => []ReturnsConnection
BY PoolImplements, ConnectionsReturned, PTL

-----------------------------------------------------------------------------
(***************************************************************************)
(* How many connections are taken.                                         *)
(***************************************************************************)

\* A session holds one connection or none, so as many are held as sessions hold one.
LEMMA HeldCardinality ==
    ASSUME SessionInv
    PROVE  LET holders == {s \in Session : conns[s] = 1}
           IN  Cardinality(Held) = Cardinality(holders) /\ IsFiniteSet(holders)
<1> DEFINE holders == {s \in Session : conns[s] = 1}
<1>1. \A s \in Session : conns[s] = 0 \/ conns[s] = 1
  BY DEF SessionInv, NoTransactionLost
<1>2. Held = holders \X {1}
  <2>1. 1..0 = {} /\ 1..1 = {1}
    OBVIOUS
  <2>2. \A s \in Session : {s} \X (1..conns[s]) = IF conns[s] = 1 THEN {<<s, 1>>} ELSE {}
    BY <1>1, <2>1
  <2>3. \A p : p \in Held <=> \E s \in Session : p \in {s} \X (1..conns[s])
    BY DEF Held
  <2>4. \A p : p \in Held <=> \E s \in holders : p = <<s, 1>>
    BY <2>2, <2>3
  <2> HIDE DEF holders
  <2> QED
    BY <2>4
<1>3. IsFiniteSet(holders)
  BY SessionAssumption, FS_Subset
<1>4. IsFiniteSet({1}) /\ Cardinality({1}) = 1
  BY FS_Singleton
<1> HIDE DEF holders
<1>5. Cardinality(holders \X {1}) = Cardinality(holders) * 1
  BY <1>3, <1>4, FS_Product
<1>6. Cardinality(holders) \in Nat
  BY <1>3, FS_CardinalityType
<1> QED
  BY <1>2, <1>3, <1>5, <1>6 DEF holders

\* Neither does a session that waits for a connection hold one, nor do two ...
LEMMA WaitingHoldNone ==
    ASSUME SessionInv, waiting # {}
    PROVE  Cardinality(Held) < Cardinality(Session) /\ Cardinality(Session) \in Nat
           /\ Cardinality(Held) \in Nat
<1> DEFINE holders == {s \in Session : conns[s] = 1}
<1>1. PICK w \in waiting : TRUE
  OBVIOUS
<1>2. w \in Session /\ w \notin holders
  BY <1>1 DEF SessionInv, SessionTypeOK, NoTransactionLost
<1>3. IsFiniteSet(holders) /\ Cardinality(Held) = Cardinality(holders)
  BY HeldCardinality
<1>4. Cardinality(holders) < Cardinality(Session)
  <2>1. holders \subseteq Session /\ holders # Session
    BY <1>2
  <2>2. Cardinality(Session) \in Nat /\ Cardinality(holders) \in Nat
    BY <1>3, SessionAssumption, FS_CardinalityType
  <2> HIDE DEF holders
  <2>3. Cardinality(holders) <= Cardinality(Session) /\ Cardinality(holders) # Cardinality(Session)
    BY <2>1, SessionAssumption, FS_Subset
  <2> QED
    BY <2>2, <2>3
<1> QED
  BY <1>3, <1>4, SessionAssumption, FS_CardinalityType

\* With a connection per goroutine and one per probe that pings, no transaction waits for
\* another: the reserve of src/src/cmd/main.go:27-29 suffices for any number of sessions.
THEOREM ReserveIsEnough == PoolSpec => []ReserveSuffices
<1>1. TransactionsInv => ReserveSuffices
  <2> SUFFICES ASSUME TransactionsInv, waiting # {},
                      Cardinality(Session) + Cardinality(Pinging) <= MaxOpenConns
               PROVE  HasConnection
    BY DEF ReserveSuffices
  <2>1. Cardinality(Held) < Cardinality(Session) /\ Cardinality(Session) \in Nat
        /\ Cardinality(Held) \in Nat
    BY WaitingHoldNone DEF TransactionsInv
  <2>2. Cardinality(Pinging) \in Nat
    <3>1. IsFiniteSet(Pinging)
      BY RequestAssumption, FS_Subset DEF Pinging
    <3> QED
      BY <3>1, FS_CardinalityType
  <2> QED
    BY <2>1, <2>2, MaxOpenConnsAssumption DEF HasConnection, InUse
<1> QED
  BY <1>1, PoolImplements, TransactionsInvariance, PTL
=============================================================================
