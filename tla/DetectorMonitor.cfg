SPECIFICATION FairSpec
CONSTANTS
  mainThread = mainThread
  runThread = runThread
  Callers <- MCCallers
  SleepTicks = 2
  fMaximumStopTentatives = 2
INVARIANTS
  CompletedMeansDone
  AtMostOneStrayCycle
PROPERTIES
  DeadMonitorNeverPauses
  EnabledKeepsMeasuring
  StopRunningEndsThread
