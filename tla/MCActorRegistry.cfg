SPECIFICATION FairSpec
CONSTANTS
  Task = {t1, t2}
  MaxActors = 3
  MaxPanics = 2
INVARIANTS
  OneServingWorker LeasedIsKept
PROPERTY AcquireEnds
CHECK_DEADLOCK FALSE
