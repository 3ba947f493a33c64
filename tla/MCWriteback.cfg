\* Two overlapping writebacks of two metrics to two targets, real or fake.
SPECIFICATION Spec
CONSTANTS
  Procs = {p1, p2}
  MetricIds = {m1, m2}
  Runs = {r1}
  Fields = {f1, f2}
  Series = {s1}
  Targets = {t1, t2}
  Values = {v1}
  Writers = {"real", "fake"}
  MaxOverlap = 2
  MaxArchived = 1
  Null = Null
SYMMETRY Symmetry
INVARIANT AuditBrackets
PROPERTIES FirstWriteAcknowledged RewriteNeedsOverlap
CHECK_DEADLOCK FALSE
