---------------------------- MODULE MCAggregate -----------------------------
(* Module Aggregate on small instances. *)
EXTENDS Aggregate, TLC

Symmetry == Permutations(Nas) \cup Permutations(File) \cup Permutations(Worker)
=============================================================================
