------------------------------ MODULE MCLeases ------------------------------
EXTENDS Leases, TLC
Symmetry == Permutations(Procs) \cup Permutations(LeaseIds) \cup Permutations(Agents)
=============================================================================
