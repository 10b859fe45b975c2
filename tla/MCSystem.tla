------------------------------ MODULE MCSystem ------------------------------
(* Module System on small instances. *)
EXTENDS System, TLC

Symmetry == Permutations(Nas) \cup Permutations(File) \cup Permutations(Worker)

Untouched(n) == \A f \in File : captured[n][f] = 0
\* A cycle begins with files of one nas_ip at most; the other gets its own while jobs work.
OneBusy == (\A w \in Worker : pc[w] = "idle") => \E n \in Nas : \A m \in Nas \ {n} : Untouched(m)
=============================================================================
