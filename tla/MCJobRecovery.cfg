\* One command at a time on three jobs, each of one of two experiments or of
\* none; no manifests.  Chains may be longer than the recovery view follows.
SPECIFICATION Spec
CONSTANTS
  Procs = {p1}
  JobIds = {j1, j2, j3}
  Experiments = {e1, e2}
  GivenStatuses = {"failed", "unknown_submit", "succeeded"}
  RowStatuses = {}
  MaxRows = 0
  MaxDepth = 1
  Null = Null
SYMMETRY RecoverySymmetry
INVARIANTS ReadyMeansRecovered RecoverySeesChains
CHECK_DEADLOCK FALSE
