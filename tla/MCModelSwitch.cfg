SPECIFICATION Spec
CONSTANTS
  Ids = {1, 2}
  Legacy = legacy
  g1 = g1
  Gens = {g1}
  ProfileOf <- MCProfileOf
  MaxSwitches = 2
  MaxRevision = 3
  MaxFaults = 1
  MaxCrashes = 1
  Inherits = TRUE
  MayRefuse = TRUE
INVARIANTS ActiveIsCurrent CancelHolds RollbackIsCurrent
PROPERTIES KeepsPromise FreezeEnds
CHECK_DEADLOCK FALSE
