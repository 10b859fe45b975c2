---------------------------- MODULE MCJobMetrics ----------------------------
(* Module JobMetrics on small instances. *)
EXTENDS JobMetrics, TLC

Symmetry == Permutations(Nas) \cup Permutations(File) \cup Permutations(Worker)

\* Something is there to bill: without, the jobs of two nas_ip only repeat each other.
SomeInternal == \E n \in Nas, f \in File : content[n][f] = "internal"
=============================================================================
