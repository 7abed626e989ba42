CONSTANTS
  MaxThreads = 1
  MaxLines = 2
  PageSize = 64
  Images <- MCSmallImages
SPECIFICATION Spec
INVARIANT VariablesInPlace
CHECK_DEADLOCK FALSE
