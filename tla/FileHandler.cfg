SPECIFICATION FairSpec
CONSTANTS
  header = header
  event = event
  Data <- MCData
  MaxData = 3
PROPERTIES
  ImplementsStore
  DeleteCompletes
CHECK_DEADLOCK FALSE
