--------------------------- MODULE ShutdownProofs ---------------------------
(***************************************************************************)
(* main, the server and its listener keep ShutdownInv, for any number of   *)
(* requests.                                                               *)
(***************************************************************************)
EXTENDS Shutdown, TLAPS

LEMMA InitShutdownInv == ShutdownInit => ShutdownInv
<1> SUFFICES ASSUME ShutdownInit PROVE ShutdownInv
  OBVIOUS
<1>1. requests \in 0 .. MaxRequests
  BY MaxRequestsAssumption DEF ShutdownInit
<1>2. ShutdownTypeOK
  BY <1>1 DEF ShutdownInit, ShutdownTypeOK
<1> QED
  BY <1>2 DEF ShutdownInit, ShutdownInv

\* main moves on only when what it waits for has happened.
LEMMA MainKeepsInv ==
    ASSUME ShutdownInv, Signal \/ StartsCycle \/ LeavesCron \/ MainStep
    PROVE  ShutdownInv'
<1> USE DEF ShutdownInv, ShutdownTypeOK, MainGoto
<1>1. CASE Signal
  BY <1>1 DEF Signal
<1>2. CASE StartsCycle \/ EndsCycle
  BY <1>2 DEF StartsCycle, EndsCycle
<1>3. CASE LeavesCron
  BY <1>3 DEF LeavesCron
<1>4. CASE Stop
  BY <1>4 DEF Stop
<1>5. CASE WaitsForServer
  BY <1>5 DEF WaitsForServer
<1>6. CASE FlushesSpans
  BY <1>6 DEF FlushesSpans
<1> QED
  BY <1>1, <1>2, <1>3, <1>4, <1>5, <1>6 DEF MainStep

\* The channel is written or closed exactly once, by the listener that ends.
LEMMA ListenerKeepsInv ==
    ASSUME ShutdownInv, ListenerStep \/ ListenFails \/ RequestArrives \/ RequestEnds
    PROVE  ShutdownInv'
<1> USE MaxRequestsAssumption DEF ShutdownInv, ShutdownTypeOK, ListenerGoto
<1>1. CASE Listens
  BY <1>1 DEF Listens
<1>2. CASE ListenFails
  BY <1>2 DEF ListenFails
<1>3. CASE SendsError
  BY <1>3 DEF SendsError
<1>4. CASE ClosesErrChan
  BY <1>4 DEF ClosesErrChan
<1>5. CASE RequestArrives
  BY <1>5 DEF RequestArrives
<1>6. CASE RequestEnds
  BY <1>6 DEF RequestEnds
<1> QED
  BY <1>1, <1>2, <1>3, <1>4, <1>5, <1>6 DEF ListenerStep

\* Run returns from its select with an error, and otherwise only after a signal.
LEMMA ServerKeepsInv ==
    ASSUME ShutdownInv, ServerStep
    PROVE  ShutdownInv'
<1> USE DEF ShutdownInv, ShutdownTypeOK, ServerReturns
<1>1. CASE TakesError
  BY <1>1 DEF TakesError
<1>2. CASE TakesContext
  BY <1>2 DEF TakesContext
<1>3. CASE Drained
  BY <1>3 DEF Drained
<1>4. CASE ShutdownTimesOut
  BY <1>4 DEF ShutdownTimesOut
<1> QED
  BY <1>1, <1>2, <1>3, <1>4 DEF ServerStep

\* The places of main, httpsrv.Run and its listener agree
\* (src/src/cmd/main.go:73-94, src/src/external/httpsrv/httpsrv.go:40-68).
THEOREM ShutdownInvariance == ShutdownSpec => []ShutdownInv
<1>1. ShutdownInv /\ [ShutdownNext]_shutdownVars => ShutdownInv'
  <2> SUFFICES ASSUME ShutdownInv, [ShutdownNext]_shutdownVars PROVE ShutdownInv'
    OBVIOUS
  <2>1. CASE ShutdownNext
    BY <2>1, MainKeepsInv, ListenerKeepsInv, ServerKeepsInv DEF ShutdownNext
  <2>2. CASE UNCHANGED shutdownVars
    BY <2>2 DEF shutdownVars, ShutdownInv, ShutdownTypeOK
  <2> QED
    BY <2>1, <2>2
<1> QED
  BY InitShutdownInv, <1>1, PTL DEF ShutdownSpec

\* The process ends with requests unanswered only when the server failed or timed out.
THEOREM RequestsAreDrained == ShutdownSpec => []NothingCutShort
<1>1. ShutdownInv => NothingCutShort
  BY DEF ShutdownInv, ShutdownTypeOK, NothingCutShort
<1> QED
  BY <1>1, ShutdownInvariance, PTL

\* A server that returns without a signal reports the listener's error.
THEOREM FailuresAreReported == ShutdownSpec => []FailureIsReported
<1>1. ShutdownInv => FailureIsReported
  BY DEF ShutdownInv, ShutdownTypeOK, FailureIsReported
<1> QED
  BY <1>1, ShutdownInvariance, PTL
=============================================================================
