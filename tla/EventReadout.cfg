SPECIFICATION FairSpec
CONSTANTS
  NRows = 4
  NCols = 2
  NROW_CORE = 1
  RowStart = 0
  RowStop = 3
  ColStart = 0
  ColStop = 1
  GroupType = "Groups"
  HitPerCol = 2
  OnlyNGroups = 0
  Boards <- MCOneBoard
  FIFOsize = 3
  NEvents = 3
  NEventsPerBurst = 2
  MAXATTEMPTS = 2
  MaxTriggers = 5
INVARIANTS
  ReadOnceInOrder
  RawFileInOrder
  NoStaleEvents
  ExposedOnce
  EachEventOnce
PROPERTY MeasurementEnds
