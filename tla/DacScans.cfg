SPECIFICATION Spec
CONSTANTS
  NChips = 3
  OpticalGroup <- MCOpticalGroup
  RegValues = 8
  MaxValue = 3
  TotalPixels = 4
  Settings <- MCSettings
  Responses <- MCResponses
INVARIANTS
  StaysInRange
  BestIsNearest
  LocalBestIsNearest
  LostOnlyBehindAFailure
CHECK_DEADLOCK FALSE
