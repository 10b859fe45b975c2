---------------------------- MODULE MCLateCommit ----------------------------
(* Module LateCommit on small instances. *)
EXTENDS LateCommit, TLC

Symmetry == Permutations(Nas) \cup Permutations(File) \cup Permutations(Worker)
=============================================================================
