SPECIFICATION Spec
CONSTANTS
  NChips = 3
  OpticalGroup <- MCOpticalGroup
  RegValues = 8
  MaxValue = 3
  TotalPixels = 4
  Settings <- MCMaskingSettings
  Responses <- MCMaskingResponses
INVARIANT MaskedWithinLimit
CHECK_DEADLOCK FALSE
