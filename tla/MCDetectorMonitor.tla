-------------------------- MODULE MCDetectorMonitor --------------------------
(* Model-checking instance: the main thread and a calibration thread.      *)
EXTENDS DetectorMonitor

CONSTANTS mainThread, runThread

MCCallers  == {mainThread, runThread}
=============================================================================
