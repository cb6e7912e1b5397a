SPECIFICATION Spec
CONSTANTS
  Id = {1, 2}
  NoId = NoId
  va = va
  Version = {va}
  fingerprint <- Fingerprint
  Snapshots <- ExportedSnapshots
  MaxOps = 4
  MaxCrashes = 1
  MaxFaults = 1
INVARIANTS
  DocumentsAccounted RecordsHaveDocuments
CHECK_DEADLOCK FALSE
