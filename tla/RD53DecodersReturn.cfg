SPECIFICATION FairSpec
CONSTANTS
  NTHREADS = 2
  EventCounts <- MCEventCounts
  FlaggedEvents <- MCFlaggedEvents
  MaxBatches = 2
PROPERTY DecodingReturns
CHECK_DEADLOCK FALSE
