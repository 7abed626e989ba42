SPECIFICATION FairSpec
CONSTANTS
  Size = 3
  PENDING_SLOTS = 2
  MPI_MAX_MESSAGE = 2
  TagSeqs = 16
  Programs <- CorrectPrograms
  MaxResidue = 1
INVARIANTS TypeOK CollectiveResults BarrierHolds SlotsAccounted TrafficKeptApart
PROPERTIES EveryCallReturns OneMailbox
CHECK_DEADLOCK FALSE
