CONSTANTS
  PRINTF_BUFFER_SIZE = 6
  MPI_MAX_RANKS = 16
  INT_MAX = 2047
  Calls <- MCCalls
SPECIFICATION Spec
INVARIANTS
  MemoryMoved
  ComparesUnsigned
  AddressSurvivesText
  PrintsPrefix
  RankArguments
  KernelSeesArguments
  ActionSurvivesKernel
CHECK_DEADLOCK FALSE
