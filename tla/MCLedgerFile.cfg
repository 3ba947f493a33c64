CONSTANTS
  Procs = {p1, p2}
  Current = 2
  Migrations = {2}
  Depth = 3
  GitRoots = {2}
  Ledger <- LedgersOf
  Told = {"ledger3"}
  Others = {"elsewhere"}
  Snapshots = {"snapshot"}
  MaxRows = 1
  Null = Null
SYMMETRY Swapped
SPECIFICATION Spec
INVARIANTS
  MetadataDescribeSnapshot
PROPERTIES
  InitShadowsNothing
