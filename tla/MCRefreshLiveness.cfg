\* The same commands, source and clock at a standstill.
SPECIFICATION Spec
CONSTANTS
  Procs = {p1, p2}
  Sources = {s1}
  MaxTodo = 2
  MaxVersion = 0
  MaxClock = 0
  Null = Null
PROPERTY EverySourceRecorded
CHECK_DEADLOCK FALSE
