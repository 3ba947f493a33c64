\* One command on three jobs beside manifests of up to two rows, which may
\* name one job.
SPECIFICATION Spec
CONSTANTS
  Procs = {p1}
  JobIds = {j1, j2, j3}
  Experiments = {}
  GivenStatuses = {"planned"}
  RowStatuses = {}
  MaxRows = 2
  MaxDepth = 2
  Null = Null
SYMMETRY Symmetry
INVARIANTS DoctorReportsEveryCycle RecoverySeesChains
PROPERTIES CyclesNeedNamedCause DanglingNeedsNamedCause
CHECK_DEADLOCK FALSE
