------------------------------- MODULE MCRoot -------------------------------
(* Instances of Root for TLC. *)
EXTENDS Root, TLC

CONSTANTS n1, n2, n3, i1, i2, p1, p2, p3

MCOps == OpRecords
Symmetry == Permutations(Procs) \cup Permutations(Keys) \cup Permutations(Vals)
=============================================================================
