--------------------------- MODULE MCTransactions ---------------------------
(* Modules SqlSession and Transactions on small instances. *)
EXTENDS Transactions, TLC

Symmetry == Permutations(Session \ Free)
=============================================================================
