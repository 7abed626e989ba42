SPECIFICATION Spec
CONSTANTS
  PTHREAD_MAX = 2
  MAX_THREAD_SLOTS = 1
  MaxThreads = 3
INVARIANTS TypeOK StartsOwnRoutine StartSlotOwnership EntryOwnership JoinDelivers
CHECK_DEADLOCK FALSE
