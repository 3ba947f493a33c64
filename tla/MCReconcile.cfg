SPECIFICATION ReconcileSpec
CONSTANTS
  Procs = {p1, p2}
  Working <- SomeWorking
  Experiments = {e1, e2}
  Runs = {r1, r2}
  Jobs = {j1}
  Keys = {k1}
  Externals = {x1}
  Roles = {primary, other}
  Other = other
  Statuses = {"planned", "success"}
  Attrs = {a1}
  SyncKeys = {s1}
  Aims = {e1}
  Archivable = {e1}
  Manifests <- SomeManifests
  Steps <- SomeSteps
  Null = Null
SYMMETRY Symmetry
INVARIANTS TypeOK HomeIsLinked CollisionNeedsOverlap SecondApplicationIsNoop DryRunPredicts
PROPERTIES ArchivedRunsRest
CHECK_DEADLOCK FALSE
