------------------------------- MODULE Cycle --------------------------------
(***************************************************************************)
(* The aggregation cycle: Cron.Run waits for the ticker and for the end of *)
(* the process' context, AggregatorUsecase.Start loads channels and online *)
(* sessions in two goroutines while it reads the directory names, then     *)
(* hands one job per nas_ip to a worker pool and waits for the pool.       *)
(*                                                                         *)
(* A job is opaque here: it runs until it returns or panics.  Module       *)
(* System puts module Aggregate in its place.                              *)
(***************************************************************************)
EXTENDS Deployment, Naturals, FiniteSets

CONSTANT PoolSize       \* worker_pool.size, at least 1 (workerpool.New)

ASSUME PoolSizeAssumption == PoolSize \in Nat \ {0}

Loader == {"channels", "sessions"}

VARIABLES
    cancelled,  \* the context of the process is done
    tick,       \* a tick waits in the ticker's channel, which holds one
    main,       \* where the goroutine of Cron.Run is
    loader,     \* [Loader -> where the loading goroutine is]
    mailbox,    \* [Loader -> its channel: "open", "full", "closed" or "fullClosed"]
    got,        \* [Loader -> what Start received: "nothing", "map" or "nil"]
    dirList,    \* directories the dispatch loop still has to visit
    target,     \* the nas_ip being handed to the pool
    slots,      \* goroutines whose token is in the semaphore of the pool
    waitGroup,  \* goroutines the WaitGroup of the pool counts
    gor,        \* [Worker -> where the pool goroutine is]
    task        \* [Worker -> the nas_ip its function was made for]

signals == <<cancelled, tick>>
loading == <<loader, mailbox, got>>
dispatch == <<dirList, target>>
pool == <<slots, waitGroup, gor, task>>
cycleVars == <<signals, main, loading, dispatch, pool>>

MainStep == {"select", "readDirs", "dirsFailed", "recvChannels", "recvSessions", "join",
             "range", "go", "acquire", "wait", "returned"}
LoaderStep == {"off", "start", "query", "send", "rollback", "close"}
GorStep == {"free", "spawned", "running", "panicking", "leaving", "released"}

CycleTypeOK ==
    /\ cancelled \in BOOLEAN /\ tick \in BOOLEAN
    /\ main \in MainStep
    /\ loader \in [Loader -> LoaderStep]
    /\ mailbox \in [Loader -> {"open", "full", "closed", "fullClosed"}]
    /\ got \in [Loader -> {"nothing", "map", "nil"}]
    /\ dirList \in SUBSET Nas
    /\ target \in Nas \cup {NoNas}
    /\ slots \in SUBSET Worker
    /\ waitGroup \in SUBSET Worker
    /\ gor \in [Worker -> GorStep]
    /\ task \in [Worker -> Nas \cup {NoNas}]

\* Each cycle makes its pool, which is as good as the empty one the last cycle left.
NewPool ==
    /\ slots = {} /\ waitGroup = {}
    /\ gor = [w \in Worker |-> "free"]
    /\ task = [w \in Worker |-> NoNas]

CycleInit ==
    /\ cancelled = FALSE /\ tick = FALSE
    /\ main = "select"
    /\ loader = [l \in Loader |-> "off"]
    /\ mailbox = [l \in Loader |-> "open"]
    /\ got = [l \in Loader |-> "nothing"]
    /\ dirList = {} /\ target = NoNas
    /\ NewPool

-----------------------------------------------------------------------------
(***************************************************************************)
(* The process: the ticker drops ticks nobody took, SIGINT or SIGTERM end  *)
(* the context, and a crash (or the exit) is followed by a new process.    *)
(***************************************************************************)
Tick ==
    /\ ~tick
    /\ tick' = TRUE
    /\ UNCHANGED <<cancelled, main, loading, dispatch, pool>>

Cancel ==
    /\ ~cancelled
    /\ cancelled' = TRUE
    /\ UNCHANGED <<tick, main, loading, dispatch, pool>>

Restart ==
    /\ cancelled' = FALSE /\ tick' = FALSE
    /\ main' = "select"
    /\ loader' = [l \in Loader |-> "off"]
    /\ mailbox' = [l \in Loader |-> "open"]
    /\ got' = [l \in Loader |-> "nothing"]
    /\ dirList' = {} /\ target' = NoNas
    /\ slots' = {} /\ waitGroup' = {}
    /\ gor' = [w \in Worker |-> "free"]
    /\ task' = [w \in Worker |-> NoNas]

\* select in Cron.Run: with a tick and a done context either branch may win.
StartCycle ==
    /\ main = "select"
    /\ tick
    /\ tick' = FALSE
    /\ main' = "readDirs"
    /\ loader' = [l \in Loader |-> "start"]
    /\ mailbox' = [l \in Loader |-> "open"]
    /\ got' = [l \in Loader |-> "nothing"]
    /\ UNCHANGED <<cancelled, dispatch, pool>>

StopCron ==
    /\ main = "select"
    /\ cancelled
    /\ main' = "returned"
    /\ UNCHANGED <<signals, loading, dispatch, pool>>

-----------------------------------------------------------------------------
(***************************************************************************)
(* The loading goroutines: open a transaction, query, send the map into a  *)
(* channel with a buffer of one, roll back, close the channel, Done.  Both *)
(* deferred calls run on every path; an error sends nothing.               *)
(***************************************************************************)
LoaderGoto(l, step) == loader' = [loader EXCEPT ![l] = step]

LoaderBegins(l) ==
    /\ loader[l] = "start"
    /\ ~cancelled
    /\ LoaderGoto(l, "query")
    /\ UNCHANGED <<signals, main, mailbox, got, dispatch, pool>>

LoaderCannotBegin(l) ==
    /\ loader[l] = "start"
    /\ LoaderGoto(l, "close")
    /\ UNCHANGED <<signals, main, mailbox, got, dispatch, pool>>

LoaderQueries(l) ==
    /\ loader[l] = "query"
    /\ ~cancelled
    /\ LoaderGoto(l, "send")
    /\ UNCHANGED <<signals, main, mailbox, got, dispatch, pool>>

LoaderQueryFails(l) ==
    /\ loader[l] = "query"
    /\ LoaderGoto(l, "rollback")
    /\ UNCHANGED <<signals, main, mailbox, got, dispatch, pool>>

\* Faulty: the channel has no buffer, a send waits for its receiver.
LoaderSendsUnbuffered(l) ==
    /\ loader[l] = "send"
    /\ main = IF l = "channels" THEN "recvChannels" ELSE "recvSessions"
    /\ mailbox' = [mailbox EXCEPT ![l] = "full"]
    /\ LoaderGoto(l, "rollback")
    /\ UNCHANGED <<signals, main, got, dispatch, pool>>

LoaderSends(l) ==
    /\ loader[l] = "send"
    /\ mailbox[l] = "open"
    /\ mailbox' = [mailbox EXCEPT ![l] = "full"]
    /\ LoaderGoto(l, "rollback")
    /\ UNCHANGED <<signals, main, got, dispatch, pool>>

LoaderRollsBack(l) ==
    /\ loader[l] = "rollback"
    /\ LoaderGoto(l, "close")
    /\ UNCHANGED <<signals, main, mailbox, got, dispatch, pool>>

LoaderCloses(l) ==
    /\ loader[l] = "close"
    /\ mailbox' = [mailbox EXCEPT ![l] = IF @ = "full" THEN "fullClosed" ELSE "closed"]
    /\ LoaderGoto(l, "off")
    /\ UNCHANGED <<signals, main, got, dispatch, pool>>

LoadStep(l) ==
    \/ LoaderBegins(l)
    \/ LoaderCannotBegin(l)
    \/ LoaderQueries(l)
    \/ LoaderQueryFails(l)
    \/ LoaderSends(l)
    \/ LoaderRollsBack(l)
    \/ LoaderCloses(l)

-----------------------------------------------------------------------------
(***************************************************************************)
(* Start up to the dispatch.                                               *)
(***************************************************************************)
LoadersDone == \A l \in Loader : loader[l] = "off"

ReadFlowDirNames ==
    /\ main = "readDirs"
    /\ dirList' = Nas
    /\ main' = "recvChannels"
    /\ UNCHANGED <<signals, loading, target, pool>>

ReadFlowDirNamesFails ==
    /\ main = "readDirs"
    /\ main' = "dirsFailed"
    /\ UNCHANGED <<signals, loading, dispatch, pool>>

\* Faulty: Start returns without waiting for the loading goroutines.
ReturnAtOnce ==
    /\ main = "dirsFailed"
    /\ main' = "select"
    /\ UNCHANGED <<signals, loading, dispatch, pool>>

ReturnAfterDirsError ==
    /\ main = "dirsFailed"
    /\ LoadersDone
    /\ main' = "select"
    /\ UNCHANGED <<signals, loading, dispatch, pool>>

\* A receive blocks on an open empty channel and yields nil from a closed empty one.
Receive(l) ==
    /\ mailbox[l] # "open"
    /\ got' = [got EXCEPT ![l] = IF mailbox[l] = "closed" THEN "nil" ELSE "map"]
    /\ mailbox' = [mailbox EXCEPT ![l] = IF @ = "full" THEN "open" ELSE "closed"]
    /\ UNCHANGED <<signals, loader, dispatch, pool>>

ReceiveChannels ==
    /\ main = "recvChannels"
    /\ Receive("channels")
    /\ main' = "recvSessions"

ReceiveSessions ==
    /\ main = "recvSessions"
    /\ Receive("sessions")
    /\ main' = "join"

\* Faulty: Start goes on as soon as it has received both maps.
JoinAtOnce ==
    /\ main = "join"
    /\ main' = IF \E l \in Loader : got[l] = "nil" THEN "select" ELSE "range"
    /\ dirList' = IF main' = "select" THEN {} ELSE dirList
    /\ UNCHANGED <<signals, loading, target, pool>>

JoinLoaders ==
    /\ main = "join"
    /\ LoadersDone
    /\ main' = IF \E l \in Loader : got[l] = "nil" THEN "select" ELSE "range"
    /\ dirList' = IF main' = "select" THEN {} ELSE dirList
    /\ UNCHANGED <<signals, loading, target, pool>>

-----------------------------------------------------------------------------
(***************************************************************************)
(* The dispatch loop and workerpool.Go, which checks the context once and  *)
(* then selects between a free slot and the context.                       *)
(***************************************************************************)
NextDir(n) ==
    /\ main = "range"
    /\ n \in dirList
    /\ dirList' = dirList \ {n}
    /\ target' = n
    /\ main' = "go"
    /\ UNCHANGED <<signals, loading, pool>>

\* The nas_ip has no online session.
SkipDir(n) ==
    /\ main = "range"
    /\ n \in dirList
    /\ dirList' = dirList \ {n}
    /\ UNCHANGED <<signals, main, loading, target, pool>>

EndOfDirs ==
    /\ main = "range"
    /\ dirList = {}
    /\ main' = "wait"
    /\ UNCHANGED <<signals, loading, dispatch, pool>>

CheckContext ==
    /\ main = "go"
    /\ ~cancelled
    /\ main' = "acquire"
    /\ UNCHANGED <<signals, loading, dispatch, pool>>

\* Go returns false, the loop breaks off.
StopDispatch ==
    /\ main \in {"go", "acquire"}
    /\ cancelled
    /\ main' = "wait"
    /\ dirList' = {}
    /\ target' = NoNas
    /\ UNCHANGED <<signals, loading, pool>>

Spawn(w) ==
    /\ gor[w] = "free"
    /\ slots' = slots \cup {w}
    /\ waitGroup' = waitGroup \cup {w}
    /\ gor' = [gor EXCEPT ![w] = "spawned"]
    /\ task' = [task EXCEPT ![w] = target]
    /\ target' = NoNas
    /\ main' = "range"
    /\ UNCHANGED <<signals, loading, dirList>>

\* Faulty: one slot too many.
AcquireOneMore(w) ==
    /\ main = "acquire"
    /\ Cardinality(slots) <= PoolSize
    /\ Spawn(w)

AcquireSlot(w) ==
    /\ main = "acquire"
    /\ Cardinality(slots) < PoolSize
    /\ Spawn(w)

\* Faulty: Start returns while jobs run.
ReturnWithoutWait ==
    /\ main = "wait"
    /\ main' = "select"
    /\ UNCHANGED <<signals, loading, dispatch, pool>>

ReturnFromWait ==
    /\ main = "wait"
    /\ waitGroup = {}
    /\ main' = "select"
    /\ UNCHANGED <<signals, loading, dispatch, pool>>

-----------------------------------------------------------------------------
(***************************************************************************)
(* A goroutine of the pool: its deferred calls recover a panic first, then *)
(* give the slot back, then tell the WaitGroup.                            *)
(***************************************************************************)
GorGoto(w, from, to) ==
    /\ gor[w] = from
    /\ gor' = [gor EXCEPT ![w] = to]
    /\ UNCHANGED <<signals, main, loading, dispatch>>

JobBegins(w) == GorGoto(w, "spawned", "running") /\ UNCHANGED <<slots, waitGroup, task>>

JobReturns(w) == GorGoto(w, "running", "leaving") /\ UNCHANGED <<slots, waitGroup, task>>

JobPanics(w) == GorGoto(w, "running", "panicking") /\ UNCHANGED <<slots, waitGroup, task>>

\* Faulty: the slot is given back by the function itself, which a panic skips.
RecoverOnly(w) == GorGoto(w, "panicking", "released") /\ UNCHANGED <<slots, waitGroup, task>>

Recover(w) == GorGoto(w, "panicking", "leaving") /\ UNCHANGED <<slots, waitGroup, task>>

ReleaseSlot(w) ==
    /\ GorGoto(w, "leaving", "released")
    /\ slots' = slots \ {w}
    /\ UNCHANGED <<waitGroup, task>>

WaitGroupDone(w) ==
    /\ GorGoto(w, "released", "free")
    /\ waitGroup' = waitGroup \ {w}
    /\ task' = [task EXCEPT ![w] = NoNas]
    /\ UNCHANGED slots

Leave(w) == Recover(w) \/ ReleaseSlot(w) \/ WaitGroupDone(w)

MainStepTaken ==
    \/ StartCycle
    \/ ReadFlowDirNames
    \/ ReadFlowDirNamesFails
    \/ ReturnAfterDirsError
    \/ ReceiveChannels
    \/ ReceiveSessions
    \/ JoinLoaders
    \/ \E n \in Nas : NextDir(n) \/ SkipDir(n)
    \/ EndOfDirs
    \/ CheckContext
    \/ StopDispatch
    \/ \E w \in Worker : AcquireSlot(w)
    \/ ReturnFromWait

\* Everything but the beginning and the end of jobs, and the restart.
Orchestrate ==
    \/ Tick
    \/ Cancel
    \/ StopCron
    \/ MainStepTaken
    \/ \E l \in Loader : LoadStep(l)
    \/ \E w \in Worker : Leave(w)

CycleNext ==
    \/ Orchestrate
    \/ \E w \in Worker : JobBegins(w) \/ JobReturns(w) \/ JobPanics(w)
    \/ Restart

CycleSpec == CycleInit /\ [][CycleNext]_cycleVars

(***************************************************************************)
(* Fairness: the ticker ticks, goroutines are scheduled, database calls    *)
(* and jobs return, and select is not partial to the ticks for ever.       *)
(***************************************************************************)
CycleFairness ==
    /\ WF_cycleVars(Tick)
    /\ WF_cycleVars(MainStepTaken)
    /\ SF_cycleVars(StopCron)
    /\ \A l \in Loader : WF_cycleVars(LoadStep(l))
    /\ \A w \in Worker :
          /\ WF_cycleVars(JobBegins(w))
          /\ WF_cycleVars(JobReturns(w) \/ JobPanics(w))
          /\ WF_cycleVars(Leave(w))

FairCycleSpec == CycleSpec /\ CycleFairness

-----------------------------------------------------------------------------
(***************************************************************************)
(* Properties.                                                             *)
(***************************************************************************)

Alive == {w \in Worker : gor[w] # "free"}

\* A nas_ip is never handled by two goroutines at once, nor waits to be handed out
\* while one handles it: the directories of the next cycle are not listed before
\* every goroutine of the last one is done (src/src/internal/usecase/aggregator.go:187-209).
OneJobPerNas ==
    /\ \A v, w \in Alive : task[v] = task[w] => v = w
    /\ \A w \in Alive : task[w] \notin dirList \cup {target}

\* No more functions run than the pool has slots, also when some of them panic
\* (src/src/tools/workerpool/workerpool.go:9-10).
PoolWithinSize ==
    Cardinality({w \in Worker : gor[w] \in {"running", "panicking"}}) <= PoolSize

\* Between cycles nothing of a cycle is left: no goroutine of the pool, no slot taken
\* (src/README.md:117-119), and no loading goroutine that still holds a transaction
\* (src/src/internal/usecase/aggregator.go:166-167).
NothingOutlivesCycle ==
    /\ main \in {"select", "returned"} => Alive = {} /\ slots = {}
    /\ main \in {"select", "returned", "range", "go", "acquire", "wait"} => LoadersDone

(***************************************************************************)
(* The inductive invariant behind the three.                               *)
(***************************************************************************)
BeforeDispatch == {"select", "readDirs", "dirsFailed", "recvChannels", "recvSessions", "join",
                   "returned"}
WhileLoading == {"readDirs", "dirsFailed", "recvChannels", "recvSessions", "join"}

\* The semaphore and the WaitGroup count the goroutines they are meant to count.
PoolInv ==
    /\ \A w \in Worker :
          /\ w \in slots <=> gor[w] \in {"spawned", "running", "panicking", "leaving"}
          /\ w \in waitGroup <=> gor[w] # "free"
          /\ task[w] # NoNas <=> gor[w] # "free"
    /\ IsFiniteSet(slots) /\ Cardinality(slots) <= PoolSize

\* What is alive in which phase of Start.
PhaseInv ==
    /\ main \in BeforeDispatch => Alive = {}
    /\ main \notin WhileLoading => LoadersDone
    /\ target # NoNas <=> main \in {"go", "acquire"}
    /\ target \notin dirList

CycleInv == CycleTypeOK /\ PoolInv /\ PhaseInv /\ OneJobPerNas

\* A cycle that has begun ends, whichever loader fails and however many jobs panic.
CycleEnds == (main \notin {"select", "returned"}) ~> (main \in {"select", "returned"})

\* A signal ends Cron.Run.
StopsAfterCancel == cancelled ~> (main = "returned" \/ ~cancelled)

\* The abstract promise: a round is what Start does between listing the directories
\* and its return (src/src/internal/usecase/aggregator.go:148-210).
RoundOpen == main \notin {"select", "readDirs", "dirsFailed", "returned"}

R == INSTANCE Rounds WITH
    open <- RoundOpen,
    left <- IF RoundOpen THEN (dirList \cup {target}) \ {NoNas} ELSE {},
    busy <- {task[w] : w \in slots}

ImplementsRounds == R!RoundsSpec

\* The comment of workerpool.Go (src/src/tools/workerpool/workerpool.go:52-53): when the
\* context ends before a slot is taken the function is not started.
NotStartedAfterCancel ==
    [][\A w \in Worker : gor[w] = "free" /\ gor'[w] = "spawned" => ~cancelled]_cycleVars
=============================================================================
