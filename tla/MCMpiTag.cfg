SPECIFICATION Spec
CONSTANTS
  Size = 2
  PENDING_SLOTS = 4
  MPI_MAX_MESSAGE = 2
  TagSeqs = 16
  Programs <- ReservedTag
  MaxResidue = 0
INVARIANT SendRejectsReservedTags
CHECK_DEADLOCK FALSE
