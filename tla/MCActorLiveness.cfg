SPECIFICATION FairSpec
CONSTANTS
  Session = {s1}
  Call = {c1, c2}
  Capacity = 1
  MaxLeases = 1
  MaxSwitches = 1
  MaxPanics = 0
  MaxTrouble = 1
PROPERTIES
  CallsSettle DaemonIdlesOut
CHECK_DEADLOCK FALSE
