SPECIFICATION FairSpec
CONSTANTS
  Id = {1, 2}
  NoId = NoId
  va = va
  Version = {va, vb}
  fingerprint <- Fingerprint
  Snapshots <- ExportedSnapshots
  MaxOps = 4
  MaxCrashes = 2
  MaxFaults = 0
INVARIANTS
  TypeOK CommittedSurvives DeletedStaysDeleted
PROPERTIES
  LockedIsKept EventuallyOpen
CHECK_DEADLOCK FALSE
