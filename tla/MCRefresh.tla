------------------------------ MODULE MCRefresh ------------------------------
EXTENDS Refresh, TLC
(* For the run that checks no liveness property.                           *)
Symmetry == Permutations(Procs)
=============================================================================
