------------------------------- MODULE Rounds -------------------------------
(***************************************************************************)
(* The abstract promise of the cycle to the jobs: they come in rounds that *)
(* do not overlap.  A round hands out each directory at most once, to no   *)
(* more jobs at a time than the pool has slots, may leave directories out, *)
(* and is over only when its last job is.                                  *)
(***************************************************************************)
EXTENDS Deployment, Naturals, FiniteSets

CONSTANT PoolSize

VARIABLES
    open,   \* a round goes on
    left,   \* directories it may still hand out
    busy    \* directories with a job

roundVars == <<open, left, busy>>

RoundsInit == open = FALSE /\ left = {} /\ busy = {}

Open ==
    /\ ~open
    /\ open' = TRUE
    /\ left' = Nas
    /\ UNCHANGED busy

LeaveOut ==
    /\ open
    /\ left' \in SUBSET left
    /\ UNCHANGED <<open, busy>>

HandOut(n) ==
    /\ open
    /\ n \in left
    /\ Cardinality(busy) < PoolSize
    /\ left' = left \ {n}
    /\ busy' = busy \cup {n}
    /\ UNCHANGED open

JobEnds(n) ==
    /\ n \in busy
    /\ busy' = busy \ {n}
    /\ UNCHANGED <<open, left>>

Close ==
    /\ open
    /\ busy = {}
    /\ open' = FALSE
    /\ left' = {}
    /\ UNCHANGED busy

\* The process dies.
Abandon == open' = FALSE /\ left' = {} /\ busy' = {}

RoundsNext ==
    \/ Open
    \/ LeaveOut
    \/ \E n \in Nas : HandOut(n) \/ JobEnds(n)
    \/ Close
    \/ Abandon

RoundsSpec == RoundsInit /\ [][RoundsNext]_roundVars
=============================================================================
