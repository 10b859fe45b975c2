----------------------------- MODULE Accounting -----------------------------
(***************************************************************************)
(* What the aggregator promises about the flow files of a nas_ip, without  *)
(* directories, checkpoints, goroutines or crashes: a delivered file is    *)
(* billed in exactly one batch, or is discarded for one of two stated      *)
(* reasons.  src/README.md:92-115 describes the promise; the mechanism     *)
(* that keeps it is module Aggregate, which is shown to implement this     *)
(* specification.                                                          *)
(***************************************************************************)
EXTENDS Naturals

CONSTANTS
    Nas,    \* nas_ip directories
    File    \* names of flow files

VARIABLES
    content,    \* [Nas -> [File -> kind]], never changes
    status,     \* [Nas -> [File -> Stage]], the life of a file
    billed,     \* [Nas -> [File -> Nat]], committed batches that hold the file's traffic
    muted       \* the nas_ip whose current job found every channel disabled

Stage == {"absent", "waiting", "billed", "discarded"}

Init ==
    /\ status = [n \in Nas |-> [f \in File |-> "absent"]]
    /\ billed = [n \in Nas |-> [f \in File |-> 0]]
    /\ muted = {}

Moved(n, S, stage) ==
    status' = [status EXCEPT ![n] = [f \in File |-> IF f \in S THEN stage ELSE @[f]]]

Waiting(n) == {f \in File : status[n][f] = "waiting"}

\* The collector finishes a file.
Deliver(n, f) ==
    /\ status[n][f] = "absent"
    /\ Moved(n, {f}, "waiting")
    /\ UNCHANGED billed

\* The files of one batch are billed together, and each of them just here.
Bill(n, S) ==
    /\ \E f \in S : content[n][f] = "internal"
    /\ Moved(n, S, "billed")
    /\ billed' = [billed EXCEPT ![n] = [f \in File |-> IF f \in S THEN @[f] + 1 ELSE @[f]]]

\* Files leave the disk unbilled when they carry no internal traffic or when
\* no channel may be counted.
Discard(n, S) ==
    /\ n \in muted \/ \A f \in S : content[n][f] # "internal"
    /\ Moved(n, S, "discarded")
    /\ UNCHANGED billed

Next ==
    /\ muted' \in SUBSET Nas
    /\ UNCHANGED content
    /\ \/ UNCHANGED <<status, billed>>
       \/ \E n \in Nas :
             \/ \E f \in File : Deliver(n, f)
             \/ \E S \in SUBSET Waiting(n) : S # {} /\ (Bill(n, S) \/ Discard(n, S))

vars == <<content, status, billed, muted>>

Spec == Init /\ [][Next]_vars
=============================================================================
