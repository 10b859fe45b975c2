--------------------------- MODULE MCCycleMetrics ---------------------------
(* Module CycleMetrics on small instances. *)
EXTENDS CycleMetrics, TLC

Symmetry == Permutations(Nas) \cup Permutations(Worker)
=============================================================================
