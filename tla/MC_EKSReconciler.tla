-------------------------- MODULE MC_EKSReconciler --------------------------
(* Model-checking instance of EKSReconciler: two references, two worker   *)
(* stack identifiers (enough for one duplicate stack), model values.      *)
EXTENDS EKSReconciler, TLC

CONSTANTS r1, r2, s1, s2

MCRefs == {r1, r2}
MCStackIds == {s1, s2}

\* Eight versions: a full create, workers, Available, delete, release
\* lifecycle takes six writes, leaving room for failed and blocked passes.
MCMaxRV == 8

Symmetry == Permutations(MCRefs) \cup Permutations(MCStackIds)
=============================================================================
