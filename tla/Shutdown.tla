------------------------------ MODULE Shutdown ------------------------------
(***************************************************************************)
(* How the process ends: main waits in Cron.Run, the service http server   *)
(* runs beside it (httpsrv.Run with the goroutine that listens), and both  *)
(* end by the context that a signal cancels.  main then waits for the      *)
(* server's graceful shutdown and flushes the spans before it exits.       *)
(***************************************************************************)
EXTENDS Naturals

CONSTANT MaxRequests    \* bound: requests served at once

ASSUME MaxRequestsAssumption == MaxRequests \in Nat

VARIABLES
    cancelled,  \* the context of signal.NotifyContext is done
    main,       \* where main is
    server,     \* where httpsrv.Run is
    listener,   \* where the goroutine of ListenAndServe is
    errChan,    \* its channel: "open", "full" or "closed"
    requests,   \* requests being served
    outcome     \* why httpsrv.Run returned

shutdownVars == <<cancelled, main, server, listener, errChan, requests, outcome>>

ShutdownTypeOK ==
    /\ cancelled \in BOOLEAN
    /\ main \in {"select", "cycle", "stop", "wait", "flush", "exited"}
    /\ server \in {"select", "shutdown", "returned"}
    /\ listener \in {"starting", "serving", "failed", "closed", "done"}
    /\ errChan \in {"open", "full", "closed"}
    /\ requests \in 0 .. MaxRequests
    /\ outcome \in {"none", "error", "nil", "drained", "timeout"}

ShutdownInit ==
    /\ cancelled = FALSE
    /\ main = "select"
    /\ server = "select"
    /\ listener = "starting"
    /\ errChan = "open"
    /\ requests = 0
    /\ outcome = "none"

-----------------------------------------------------------------------------
(* main *)

Signal ==
    /\ ~cancelled
    /\ cancelled' = TRUE
    /\ UNCHANGED <<main, server, listener, errChan, requests, outcome>>

MainGoto(from, to) ==
    /\ main = from
    /\ main' = to
    /\ UNCHANGED <<server, listener, errChan, requests, outcome>>

StartsCycle == MainGoto("select", "cycle") /\ UNCHANGED cancelled
EndsCycle == MainGoto("cycle", "select") /\ UNCHANGED cancelled
LeavesCron == cancelled /\ MainGoto("select", "stop") /\ UNCHANGED cancelled
Stop == MainGoto("stop", "wait") /\ cancelled' = TRUE

\* Faulty: main does not wait for the server.
GoesOnWithoutServer == MainGoto("wait", "flush") /\ UNCHANGED cancelled

WaitsForServer ==
    /\ server = "returned"
    /\ MainGoto("wait", "flush")
    /\ UNCHANGED cancelled

\* The deferred shutdown of the tracer ends at the latest with its timeout.
FlushesSpans == MainGoto("flush", "exited") /\ UNCHANGED cancelled

-----------------------------------------------------------------------------
(* The goroutine of ListenAndServe, and the requests it lets in. *)

ListenerGoto(from, to) ==
    /\ listener \in from
    /\ listener' = to
    /\ UNCHANGED <<cancelled, main, server, outcome>>

Listens == ListenerGoto({"starting"}, "serving") /\ UNCHANGED <<errChan, requests>>

ListenFails == ListenerGoto({"starting", "serving"}, "failed") /\ UNCHANGED <<errChan, requests>>

\* Faulty: every end of ListenAndServe closes the channel.
ClosesOnError ==
    /\ ListenerGoto({"failed"}, "done")
    /\ errChan' = "closed"
    /\ UNCHANGED requests

SendsError ==
    /\ ListenerGoto({"failed"}, "done")
    /\ errChan' = "full"
    /\ UNCHANGED requests

ClosesErrChan ==
    /\ ListenerGoto({"closed"}, "done")
    /\ errChan' = "closed"
    /\ UNCHANGED requests

RequestArrives ==
    /\ ListenerGoto({"serving"}, "serving")
    /\ requests < MaxRequests
    /\ requests' = requests + 1
    /\ UNCHANGED errChan

RequestEnds ==
    /\ requests > 0
    /\ requests' = requests - 1
    /\ UNCHANGED <<cancelled, main, server, listener, errChan, outcome>>

-----------------------------------------------------------------------------
(* httpsrv.Run *)

ServerReturns(why) ==
    /\ server' = "returned"
    /\ outcome' = why
    /\ UNCHANGED <<cancelled, main, listener, errChan, requests>>

TakesError ==
    /\ server = "select"
    /\ errChan # "open"
    /\ ServerReturns(IF errChan = "full" THEN "error" ELSE "nil")

\* Shutdown first closes the listener, and ListenAndServe returns ErrServerClosed.
TakesContext ==
    /\ server = "select"
    /\ cancelled
    /\ server' = "shutdown"
    /\ listener' = IF listener \in {"starting", "serving"} THEN "closed" ELSE listener
    /\ UNCHANGED <<cancelled, main, errChan, requests, outcome>>

Drained ==
    /\ server = "shutdown"
    /\ requests = 0
    /\ ServerReturns("drained")

\* Faulty: Shutdown gets a context that never ends.
WaitsForRequests ==
    /\ server = "shutdown"
    /\ requests = 0
    /\ ServerReturns("timeout")

ShutdownTimesOut ==
    /\ server = "shutdown"
    /\ requests > 0
    /\ ServerReturns("timeout")

MainStep ==
    \/ EndsCycle
    \/ Stop
    \/ WaitsForServer
    \/ FlushesSpans

ListenerStep == Listens \/ SendsError \/ ClosesErrChan

ServerStep == TakesError \/ TakesContext \/ Drained \/ ShutdownTimesOut

\* With main the process and all its goroutines end.
ShutdownNext ==
    /\ main # "exited"
    /\ \/ Signal
       \/ StartsCycle
       \/ LeavesCron
       \/ MainStep
       \/ ListenerStep
       \/ ListenFails
       \/ RequestArrives
       \/ RequestEnds
       \/ ServerStep

ShutdownSpec == ShutdownInit /\ [][ShutdownNext]_shutdownVars

(***************************************************************************)
(* Fairness: goroutines are scheduled, cycles end (module Cycle), timeouts *)
(* pass, and select is not partial to the ticks for ever.  Requests need   *)
(* not end, and nothing need ever fail.                                    *)
(***************************************************************************)
ShutdownFairness ==
    /\ WF_shutdownVars(MainStep)
    /\ SF_shutdownVars(LeavesCron)
    /\ WF_shutdownVars(ListenerStep)
    /\ WF_shutdownVars(ServerStep)

FairShutdownSpec == ShutdownSpec /\ ShutdownFairness

-----------------------------------------------------------------------------
\* The spans are flushed and the process ends only when every request is answered, save for a server that failed or requests that outlast the timeout
\* (src/src/cmd/main.go:89-94, src/src/external/httpsrv/httpsrv.go:62-68).
NothingCutShort ==
    main \in {"flush", "exited"} /\ requests > 0 => outcome \in {"error", "timeout"}

\* httpsrv.Run does not return without a signal unless it has the listener's error to
\* report: a closed channel never passes for one (httpsrv.go:40-59).
FailureIsReported ==
    server = "returned" =>
        \/ outcome = "error" /\ listener = "done"
        \/ outcome \in {"drained", "timeout"} /\ cancelled

\* The inductive invariant: what each of the three goroutines may conclude from the place
\* of the others (src/src/cmd/main.go:73-94, src/src/external/httpsrv/httpsrv.go:40-68).
ShutdownInv ==
    /\ ShutdownTypeOK
    /\ main \in {"stop", "wait", "flush", "exited"} => cancelled
    /\ main \in {"flush", "exited"} => server = "returned"
    /\ server = "shutdown" => cancelled /\ listener # "serving" /\ listener # "starting"
    /\ server = "returned" <=> outcome # "none"
    /\ outcome \in {"drained", "timeout"} => cancelled
    /\ outcome # "none" => listener \in {"failed", "closed", "done"}
    /\ outcome = "drained" => requests = 0
    /\ outcome # "nil"
    /\ outcome = "error" => listener = "done"
    /\ listener = "closed" \/ errChan = "closed" => server # "select"
    /\ errChan # "open" <=> listener = "done"

\* A signal ends the process, also with a failed server, with requests that never end
\* and in the middle of a cycle.
ExitsAfterSignal == cancelled ~> main = "exited"
=============================================================================
