----------------------------- MODULE MCWriteback -----------------------------
EXTENDS Writeback, TLC

(* None of these sets is ordered, and no value of them is singled out.     *)
Symmetry ==
  Permutations(Procs) \cup Permutations(MetricIds) \cup Permutations(Fields)
    \cup Permutations(Targets) \cup Permutations(Values) \cup Permutations(Runs)
=============================================================================
