----------------------------- MODULE MCTraffic ------------------------------
(* Module Traffic on small instances. *)
EXTENDS Traffic, TLC

Doctets == {-3, 1, 2}

Symmetry == Permutations(InternalNet) \cup Permutations(SessID) \cup Permutations(NasIP)
=============================================================================
