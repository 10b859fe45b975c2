----------------------------- MODULE Deployment -----------------------------
(* What the modules of the cycle and of its jobs have in common. *)

CONSTANTS
    Nas,        \* nas_ip directories under the flow root
    Worker,     \* goroutines of the pool, each running one job
    NoNas       \* the nas_ip of a goroutine without a job

ASSUME NoNasAssumption == NoNas \notin Nas
=============================================================================
