SPECIFICATION Spec
CONSTANTS
  Paths = {1, 2}
  Contents = {"a", "b"}
  ChunksOf <- Chunks
  Shared = {1, 2}
  Texts = {"x", "y", "bad"}
  Sound = {"x", "y"}
  MAX_ID_COUNT = 1
  MaxSteps = 5
INVARIANTS IndexMirrors SyncConverges
PROPERTIES OnlyGoneIsRemoved
CHECK_DEADLOCK FALSE
