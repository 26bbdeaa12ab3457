---------------------------- MODULE MCBoardAccess ----------------------------
(* Model-checking instances: a run thread and the monitoring thread.       *)
EXTENDS BoardAccess

CONSTANTS run, monitor, none, board0, board1

MCRunThreads     == {run}
MCMonitorThreads == {monitor}
MCObservables    == {"VINA", "VIND"}
MCRoutes         == {"route1", "route2"}
=============================================================================
