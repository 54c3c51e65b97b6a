--------------------------- MODULE MCWriteBudget ---------------------------
(* WriteBudget for TLC: two Organizations that share one small allocation.  *)
EXTENDS WriteBudget, TLC

\* Organizations and requests are interchangeable.
Symmetry == Permutations(Org) \cup Permutations(Req)
=============================================================================
