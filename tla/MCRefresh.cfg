\* Two overlapping commands of up to two attempts each at one source that changes once.
SPECIFICATION Spec
CONSTANTS
  Procs = {p1, p2}
  Sources = {s1}
  MaxTodo = 2
  MaxVersion = 1
  MaxClock = 1
  Null = Null
SYMMETRY Symmetry
INVARIANTS
  AuditMatchesReconciles
  EvidenceKept
PROPERTY RegressNeedsOverlap
CHECK_DEADLOCK FALSE
