CONSTANTS
  MaxThreads = 2
  MaxLines = 3
  PageSize = 64
  Images <- MCImages
SPECIFICATION Spec
INVARIANTS
  VariablesInPlace
  BlocksApart
  LinesLand
  OpenedOncePerThread
PROPERTY OffTheConsole
CHECK_DEADLOCK FALSE
