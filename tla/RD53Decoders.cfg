SPECIFICATION FairSpec
CONSTANTS
  NTHREADS = 3
  EventCounts <- MCEventCounts
  FlaggedEvents <- MCFlaggedEvents
  MaxBatches = 2
INVARIANTS
  TypeOK
  PackedInOrder
  NoSharedAccess
PROPERTY ParkedThreadsFinish
CHECK_DEADLOCK FALSE
