SPECIFICATION FairSpec
CONSTANT Calibrations <- MCCalibrations
INVARIANTS
  RunHasItsSystem
  HardwareStopped
  FailuresReported
  ResultsWritten
PROPERTY StopCompletes
