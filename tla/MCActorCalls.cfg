SPECIFICATION Spec
CONSTANTS
  Session = {s1, s2}
  Call = {c1, c2}
  Capacity = 1
  MaxLeases = 2
  MaxSwitches = 1
  MaxPanics = 1
  MaxTrouble = 1
INVARIANTS
  TypeOK CancelledNeverStarts QueuedIsLeased CountersAgree
  StopLosesNothing DrainIsQuiet
SYMMETRY Renamings
CHECK_DEADLOCK FALSE
