-------------------------- MODULE MCConnectionPool --------------------------
(* Module ConnectionPool on small instances. *)
EXTENDS ConnectionPool, TLC

Symmetry == Permutations(Session \ Free) \cup Permutations(Request)
=============================================================================
