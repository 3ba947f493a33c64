\* Four commands in two directories; commands in different directories overlap.
SPECIFICATION Spec
CONSTANTS
  Procs = {p1, p2, p3, p4}
  Places = {d1, d2}
  Experiments = {e1}
  MaxOverlap = 1
  Null = Null
SYMMETRY Symmetry
INVARIANTS
  HandoffsMatchClosures
  MarkerFollowsSessions
PROPERTIES
  StampNeedsOverlap
  ReclosingNeedsOverlap
CHECK_DEADLOCK FALSE
