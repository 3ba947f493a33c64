---- MODULE MCJobRetry ----
EXTENDS JobRecovery, TLC

(* Command slots and jobs are interchangeable.                             *)
Symmetry == Permutations(Procs) \cup Permutations(JobIds)

(* And so are experiments.                                                 *)
RecoverySymmetry == Symmetry \cup Permutations(Experiments)
=============================================================================
