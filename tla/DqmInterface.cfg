SPECIFICATION FairSpec
CONSTANTS
  HeaderSize = 2
  PayloadSizes <- MCPayloadSizes
  MaxPackets = 3
  Patience = 2
  Misread = 2
INVARIANT OnlyCutsLose
PROPERTIES
  ImplementsFeed
  StopEnds
CHECK_DEADLOCK FALSE
