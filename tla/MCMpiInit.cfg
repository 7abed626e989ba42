SPECIFICATION FairSpec
CONSTANTS
  Size = 3
  HelloPeriod = 2
  QueueCap = 2
  MayFail = {0, 2}
  SpawnMayFail = {1, 2}
INVARIANTS NobodyUpBeforeAllBound
PROPERTY EverybodyComesUp
CHECK_DEADLOCK FALSE
