SPECIFICATION Spec
CONSTANTS
  Jobs = {j1}
  Workers = {w1, w2}
  Sources = {s}
  Materials = {a, b}
  SourcesOf <- AllSources
  MaxAttempts = 2
  Ttl = 2
  MaxEnqueues = 1
  MaxVersion = 2
  MaxChanges = 1
  MaxFaults = 1
  MaxCrashes = 1
  MaxTrouble = 2
INVARIANTS TypeOK OneHolder OneResult CancelHolds EvidenceIsCurrent
PROPERTIES JobsSettle
CHECK_DEADLOCK FALSE
