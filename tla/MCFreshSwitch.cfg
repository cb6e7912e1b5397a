SPECIFICATION Spec
CONSTANTS
  Ids = {1, 2}
  Legacy = legacy
  g1 = g1
  Gens = {g1}
  ProfileOf <- MCProfileOf
  MaxSwitches = 2
  MaxRevision = 1
  MaxFaults = 0
  MaxCrashes = 0
  Inherits = FALSE
  MayRefuse = FALSE
PROPERTIES FreshSwitchCommits
CHECK_DEADLOCK FALSE
