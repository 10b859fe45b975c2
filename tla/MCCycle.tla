------------------------------ MODULE MCCycle -------------------------------
(* Module Cycle on small instances. *)
EXTENDS Cycle, TLC

Symmetry == Permutations(Nas) \cup Permutations(Worker)
=============================================================================
