\* One command beside manifests and archiving: two experiments, a run of the
\* second one, two rows, attributes that manifests customise.
SPECIFICATION Spec
CONSTANTS
  Procs = {p1}
  Experiments = {e1, e2}
  Runs = {r1}
  Ids = {x1, x2}
  Keys = {k1}
  Contents = {c1, c2}
  Resolved = c2
  Given = {c1}
  Attrs = {plain, custom}
  Plain = plain
  Aims <- SingleAims
  Archivable = {e1, e2}
  Linkable = {e2}
  Null = Null
SYMMETRY Symmetry
INVARIANT SupersededIsArchived
PROPERTIES ClosedToEvidence RetractedRowsRest ErrataStayHome RefreshKeepsAttrs
CHECK_DEADLOCK FALSE
