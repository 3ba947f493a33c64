\* Two overlapping commands, two agents, one entity, three leases; claims may force.
SPECIFICATION Spec
CONSTANTS
  Procs = {p1, p2}
  LeaseIds = {l1, l2, l3}
  Entities = {e1}
  Agents = {a1, a2}
  Lifetimes = {1}
  ForceChoices = {TRUE, FALSE}
  Reasons = {"released"}
  MaxTime = 1
  Null = Null
SYMMETRY Symmetry
INVARIANTS TypeOK OneUnreleasedLease LineageSound
PROPERTIES TakeoverJustified FailedClaimLeavesNoTrace OwnershipSpec
CHECK_DEADLOCK FALSE
