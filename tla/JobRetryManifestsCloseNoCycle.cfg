\* Expected to be violated: see the findings.
SPECIFICATION Spec
CONSTANTS
  Procs = {p1}
  JobIds = {j1, j2, j3}
  Experiments = {}
  GivenStatuses = {"planned"}
  RowStatuses = {}
  MaxRows = 2
  MaxDepth = 3
  Null = Null
PROPERTIES ManifestsCloseNoCycle
CHECK_DEADLOCK FALSE
