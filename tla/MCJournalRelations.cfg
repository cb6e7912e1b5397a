SPECIFICATION Spec
CONSTANTS
  Id = {1, 2, 3}
  NoId = NoId
  va = va
  Version = {va}
  fingerprint <- Fingerprint
  Snapshots <- ExportedSnapshots
  MaxOps = 3
  MaxCrashes = 1
  MaxFaults = 0
INVARIANTS
  RelationsValid JournalReplays WalkDecidesAcyclic
CHECK_DEADLOCK FALSE
