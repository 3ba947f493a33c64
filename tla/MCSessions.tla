----------------------------- MODULE MCSessions -----------------------------
EXTENDS Sessions, TLC

(* Commands, places and experiments are interchangeable.                   *)
Symmetry == Permutations(Procs) \cup Permutations(Places) \cup Permutations(Experiments)
=============================================================================
