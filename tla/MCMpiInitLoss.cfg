SPECIFICATION Spec
CONSTANTS
  Size = 3
  HelloPeriod = 2
  QueueCap = 2
  MayFail = {}
  SpawnMayFail = {}
INVARIANT NothingIsDiscarded
CHECK_DEADLOCK FALSE
