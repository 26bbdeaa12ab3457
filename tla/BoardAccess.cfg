SPECIFICATION AccessSpec
CONSTANTS
  run = run
  monitor = monitor
  none = none
  board0 = board0
  board1 = board1
  None = none
  RunThreads <- MCRunThreads
  MonitorThreads <- MCMonitorThreads
  Observables <- MCObservables
  Routes <- MCRoutes
  Boards = {board0}
  MaxAttempts = 2
  MaxLosses = 1
INVARIANTS
  AccessTypeOK
  MonitorReadsItsObservable
  VerifySucceeds
  RouteRestored
