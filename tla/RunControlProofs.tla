-------------------------- MODULE RunControlProofs --------------------------
(* Theorems about RunControl, for every set of calibrations in which only  *)
(* the last tool stops the run or loops.                                   *)
EXTENDS RunControl, TLAPS

Busy   == {"Running", "StopTest", "StopClear", "StopWait"}
Closed == {"StopClose", "Stopped"}

(* A run under way has the future pending, and the client is waiting for   *)
(* it or has it running, unless OTPhysics has ended itself.                *)
PhaseInv ==
  /\ runPc # "none" <=> fRunningFuture = "pending"
  /\ client \in {"Configured", "Running", "Stopped"} \cup Stopping => alive
  /\ client = "Configured" => tool = 1 /\ runPc = "none"
  /\ client = "Error" => runPc = "none"
  /\ runPc # "none" /\ client \in Closed \cup {"Halted"} => endedItself

(* Only a last tool that does not loop can find the flag set in its Stop.  *)
ToolInv ==
  /\ runPc \in {"test", "clear", "save", "close"} => StopsRun(Current)
  /\ runPc \in {"clear", "save"} => ~Loops(Current)
  /\ runPc = "test" /\ Loops(Current) => ~fKeepRunning

(* Who has cleared the flag: OTPhysics itself, the client, or the last     *)
(* tool of a finite run, which the client has then seen done.              *)
KeepInv ==
  /\ client \in Busy \ {"Running"} /\ ~OpenEnded => fRunningFuture = "none"
  /\ client \in Busy \ {"StopWait"} /\ OpenEnded /\ ~fKeepRunning => endedItself
  /\ client = "Running" /\ ~OpenEnded =>
       /\ runPc \in {"inherit", "running", "test", "clear"} => fKeepRunning
       /\ runPc = "next" /\ tool < Len(calibration) => fKeepRunning

(* An exception stays in the future until the client has it.               *)
FailInv ==
  /\ failed /\ client \in Busy => fRunningFuture = "exception"
  /\ client \in Closed => ~failed \/ endedItself

(* A flag that is clear means that the boards are stopped or about to be.  *)
HardwareInv ==
  /\ client \in {"Running", "StopTest"} /\ ~fKeepRunning /\ ~endedItself =>
       failed \/ runPc = "save" \/ ~hardwareOn
  /\ client \in Closed => ~hardwareOn \/ endedItself

(* The pointers are good until the last tool closes the file.              *)
FileInv ==
  /\ client \in Busy \cup {"StopClose"} => fResultFile
  /\ client \in Busy =>
       /\ runPc \in {"inherit", "running", "test", "clear", "save", "close"} => resultFile = "open"
       /\ runPc \in {"running", "test", "clear", "save"} => subResultFile
       /\ runPc = "inherit" /\ tool > 1 => subResultFile
       /\ runPc = "next" /\ tool < Len(calibration) => subResultFile /\ resultFile = "open"

(* Whoever stops the boards has written the file while it was open.        *)
WrittenInv ==
  /\ client \in Busy => resultFile = "open" \/ written \/ Has("physics")
  /\ client \in Busy /\ runPc = "close" /\ Current = "calib" => written
  /\ client \in {"Running", "StopTest"} /\ ~fKeepRunning /\ ~endedItself =>
       failed \/ written \/ runPc = "save"
  /\ client \in Closed => written \/ endedItself \/ Has("physics")

IInv == TypeOK /\ PhaseInv /\ ToolInv /\ KeepInv /\ FailInv /\ HardwareInv /\ FileInv /\ WrittenInv
-----------------------------------------------------------------------------

(* What LastToolAssumption means for the tool under way.                   *)
LEMMA LastTool ==
  ASSUME TypeOK
  PROVE  /\ tool \in Nat /\ Len(calibration) \in Nat /\ 1 <= tool /\ tool <= Len(calibration)
         /\ StopsRun(Current) \/ Loops(Current) => tool = Len(calibration)
         /\ Loops(Current) => OpenEnded
         /\ OpenEnded /\ tool = Len(calibration) => Loops(Current)
         /\ Current = "physics" => Has("physics")
<1>1. calibration \in Seq(Tools)
  BY CalibrationsAssumption DEF TypeOK
<1>2. DOMAIN calibration = 1 .. Len(calibration) /\ Len(calibration) \in Nat
  BY <1>1
<1>3. tool \in DOMAIN calibration
  BY <1>2 DEF TypeOK
<1>4. \A i \in 1 .. Len(calibration) - 1 : ~StopsRun(calibration[i]) /\ ~Loops(calibration[i])
  BY LastToolAssumption DEF TypeOK
<1>5. tool \in Nat /\ 1 <= tool /\ tool <= Len(calibration)
  BY <1>2, <1>3
<1>6. ASSUME tool # Len(calibration)  PROVE ~StopsRun(Current) /\ ~Loops(Current)
  <2>1. tool \in 1 .. Len(calibration) - 1
    <3>1. Len(calibration) \in Nat
      BY <1>2
    <3> QED  BY <1>5, <1>6, <3>1
  <2> QED  BY <1>4, <2>1, Zenon DEF Current
<1>7. Loops(Current) => OpenEnded
  BY <1>3, Zenon DEF Current, OpenEnded
<1>8. ASSUME OpenEnded, tool = Len(calibration)  PROVE Loops(Current)
  <2>1. PICK i \in DOMAIN calibration : Loops(calibration[i])
    BY <1>8 DEF OpenEnded
  <2>2. i = Len(calibration)
    BY <1>2, <1>4, <2>1
  <2> QED  BY <1>8, <2>1, <2>2 DEF Current
<1>9. Current = "physics" => Has("physics")
  BY <1>3, Zenon DEF Current, Has
<1> QED  BY <1>2, <1>5, <1>6, <1>7, <1>8, <1>9, Zenon

(* What depends on the calibration changes with it only.                   *)
LEMMA SameCalibration ==
  ASSUME UNCHANGED calibration
  PROVE  /\ OpenEnded' <=> OpenEnded
         /\ Has("physics")' <=> Has("physics")
BY DEF OpenEnded, Has

(* The tool under way changes with the calibration or the position only.   *)
LEMMA SameTool ==
  ASSUME UNCHANGED <<calibration, tool>>
  PROVE  Current' = Current
BY DEF Current

-----------------------------------------------------------------------------
(* Each part of the invariant after a step.                                *)

(* StopTests reaches StopClose under a run only if OTPhysics cleared the   *)
(* flag (KeepInv); StopsHardware only when the run is over.                *)
LEMMA PhaseInvStep == ASSUME IInv, [Next]_vars  PROVE PhaseInv'
<1>1. CASE Configure
  BY <1>1 DEF IInv, PhaseInv, Configure
<1>2. CASE Start
  BY <1>2 DEF IInv, PhaseInv, Start, Closed
<1>3. CASE StopTests
  BY <1>3 DEF IInv, PhaseInv, KeepInv, StopTests, runThread, history, Stopping,
     Closed, Busy
<1>4. CASE StopsHardware
  BY <1>4 DEF IInv, PhaseInv, StopsHardware, GoesTo, WriteRootFile, runThread,
     Stopping
<1>5. CASE NextTool
  BY <1>5 DEF IInv, PhaseInv, NextTool, history
<1>6. CASE RunThrows
  BY <1>6 DEF IInv, PhaseInv, RunThrows
<1>7. CASE StatusDone \/ StatusThrows \/ StopRequested \/ StopClears \/ StopThrows
   \/ StopCloses \/ Halt \/ Interrupt
  BY <1>7 DEF IInv, PhaseInv, StatusDone, StatusThrows, StopRequested, StopClears,
     StopThrows, StopCloses, Halt, Interrupt, runThread, history, GoesTo,
     CloseResultFile, WriteRootFile, Stopping, Closed
<1>8. CASE InheritAndStart \/ EndItself \/ RunningEnds \/ SubStopTests \/
   SubStopClears \/ SubStopsHardware \/ SubCloses \/ RunCrashes \/ MonitoringStopped
  BY <1>8 DEF IInv, PhaseInv, InheritAndStart, EndItself, RunningEnds, SubStopTests,
     SubStopClears, SubStopsHardware, SubCloses, RunCrashes, MonitoringStopped, Goto, history,
     runThread, WriteRootFile, Stopping, Closed
<1>9. CASE UNCHANGED vars
  BY <1>9 DEF IInv, PhaseInv, vars, runThread, history
<1> QED  BY <1>1, <1>2, <1>3, <1>4, <1>5, <1>6, <1>7, <1>8, <1>9 DEF Next, Stop,
   RunThread, RunStep, Terminated

(* A looping tool has seen the flag clear before its Stop tests it, and    *)
(* nobody sets it again under a run.                                       *)
LEMMA ToolInvStep == ASSUME IInv, [Next]_vars  PROVE ToolInv'
<1>1. CASE Configure
  BY <1>1 DEF IInv, ToolInv, Configure
<1>2. CASE Start
  BY <1>2 DEF IInv, ToolInv, Start
<1>3. CASE StopClears
  BY <1>3, SameTool DEF IInv, ToolInv, StopClears, runThread
<1>4. CASE RunningEnds
  BY <1>4, SameTool DEF IInv, ToolInv, RunningEnds, Goto, StopsRun, Loops, HasItsOwnFlag
<1>5. CASE SubStopTests
  BY <1>5, SameTool DEF IInv, ToolInv, SubStopTests, Goto
<1>6. CASE SubStopClears
  BY <1>6, SameTool DEF IInv, ToolInv, SubStopClears, Goto
<1>7. CASE StatusDone \/ StatusThrows \/ StopRequested \/ StopTests \/ StopsHardware
   \/ StopThrows \/ StopCloses \/ Halt \/ Interrupt
  BY <1>7, SameTool DEF IInv, ToolInv, StatusDone, StatusThrows, StopRequested,
     StopTests, StopsHardware, StopThrows, StopCloses, Halt, Interrupt, runThread,
     GoesTo, CloseResultFile, WriteRootFile
<1>8. CASE InheritAndStart \/ EndItself \/ SubStopsHardware \/ SubCloses \/ NextTool
   \/ RunThrows \/ RunCrashes \/ MonitoringStopped
  BY <1>8, SameTool DEF IInv, ToolInv, InheritAndStart, EndItself, SubStopsHardware,
     SubCloses, NextTool, RunThrows, RunCrashes, MonitoringStopped, Goto, runThread, WriteRootFile
<1>9. CASE UNCHANGED vars
  BY <1>9, SameTool DEF IInv, ToolInv, vars, runThread, history
<1> QED  BY <1>1, <1>2, <1>3, <1>4, <1>5, <1>6, <1>7, <1>8, <1>9 DEF Next, Stop,
   RunThread, RunStep, Terminated

(* The only tool that clears the flag in its Stop is the last one of a     *)
(* finite run.                                                             *)
LEMMA KeepInvStep == ASSUME IInv, [Next]_vars  PROVE KeepInv'
<1>1. CASE Configure
  BY <1>1 DEF IInv, KeepInv, Configure, Busy
<1>2. CASE Start
  BY <1>2 DEF IInv, KeepInv, Start
<1>3. CASE StatusDone
  BY <1>3, SameCalibration DEF IInv, KeepInv, StatusDone, history, Busy
<1>4. CASE StopRequested
  BY <1>4, SameCalibration DEF IInv, KeepInv, StopRequested, history, Busy
<1>5. CASE StopClears
  BY <1>5, SameCalibration DEF IInv, KeepInv, StopClears, Busy
<1>6. CASE EndItself
  BY <1>6, LastTool, SameCalibration DEF IInv, KeepInv, EndItself, Loops
<1>7. CASE RunningEnds
  BY <1>7, SameCalibration DEF IInv, KeepInv, RunningEnds, Goto, history
<1>8. CASE SubStopClears
  BY <1>8, LastTool, SameCalibration DEF IInv, ToolInv, KeepInv, SubStopClears, Goto
<1>9. CASE SubCloses
  BY <1>9, LastTool, SameCalibration DEF IInv, ToolInv, KeepInv, SubCloses, Goto,
     history
<1>10. CASE NextTool
  BY <1>10, SameCalibration DEF IInv, PhaseInv, KeepInv, NextTool, history
<1>11. CASE StatusThrows \/ StopTests \/ StopsHardware \/ StopThrows \/ StopCloses
   \/ Halt \/ Interrupt
  BY <1>11, SameCalibration DEF IInv, KeepInv, StatusThrows, StopTests,
     StopsHardware, StopThrows, StopCloses, Halt, Interrupt, GoesTo,
     CloseResultFile, WriteRootFile, Busy
<1>12. CASE InheritAndStart \/ SubStopTests \/ SubStopsHardware \/ RunThrows \/
   RunCrashes \/ MonitoringStopped
  BY <1>12, SameCalibration DEF IInv, PhaseInv, KeepInv, InheritAndStart,
     SubStopTests, SubStopsHardware, RunThrows, RunCrashes, MonitoringStopped, Goto, history,
     WriteRootFile, Busy
<1>13. CASE UNCHANGED vars
  BY <1>13, SameCalibration DEF IInv, KeepInv, vars, runThread, history
<1> QED  BY <1>1, <1>2, <1>3, <1>4, <1>5, <1>6, <1>7, <1>8, <1>9, <1>10, <1>11,
   <1>12, <1>13 DEF Next, Stop, RunThread, RunStep, Terminated

(* A client that leaves Busy in good order has seen the future ready, or   *)
(* empty.                                                                  *)
LEMMA FailInvStep == ASSUME IInv, [Next]_vars  PROVE FailInv'
<1>1. CASE Configure
  BY <1>1 DEF IInv, FailInv, Configure, Closed, Busy
<1>2. CASE Start
  BY <1>2 DEF IInv, FailInv, Start
<1>3. CASE StatusDone
  BY <1>3 DEF IInv, FailInv, StatusDone, history, Busy
<1>4. CASE StopTests
  BY <1>4 DEF IInv, KeepInv, FailInv, StopTests, history, Closed, Busy
<1>5. CASE StopsHardware
  BY <1>5 DEF IInv, FailInv, StopsHardware, GoesTo, WriteRootFile, Busy
<1>6. CASE NextTool
  BY <1>6 DEF IInv, PhaseInv, FailInv, NextTool, history
<1>7. CASE RunThrows
  BY <1>7 DEF IInv, PhaseInv, FailInv, RunThrows
<1>8. CASE StatusThrows \/ StopRequested \/ StopClears \/ StopThrows \/ StopCloses
   \/ Halt \/ Interrupt
  BY <1>8 DEF IInv, FailInv, StatusThrows, StopRequested, StopClears, StopThrows,
     StopCloses, Halt, Interrupt, GoesTo, CloseResultFile, WriteRootFile, history,
     Closed, Busy
<1>9. CASE InheritAndStart \/ EndItself \/ RunningEnds \/ SubStopTests \/
   SubStopClears \/ SubStopsHardware \/ SubCloses \/ RunCrashes \/ MonitoringStopped
  BY <1>9 DEF IInv, FailInv, InheritAndStart, EndItself, RunningEnds, SubStopTests,
     SubStopClears, SubStopsHardware, SubCloses, RunCrashes, MonitoringStopped, history, WriteRootFile,
     Closed, Busy
<1>10. CASE UNCHANGED vars
  BY <1>10 DEF IInv, FailInv, vars, runThread, history
<1> QED  BY <1>1, <1>2, <1>3, <1>4, <1>5, <1>6, <1>7, <1>8, <1>9, <1>10 DEF Next,
   Stop, RunThread, RunStep, Terminated

(* A client that finds the flag clear in StopTest has a run that is over   *)
(* and whose last tool has stopped the boards.                             *)
LEMMA HardwareInvStep == ASSUME IInv, [Next]_vars  PROVE HardwareInv'
<1>1. CASE Configure
  BY <1>1 DEF IInv, HardwareInv, Configure, Closed
<1>2. CASE Start
  BY <1>2 DEF IInv, HardwareInv, Start, Closed
<1>3. CASE StatusDone
  BY <1>3 DEF IInv, HardwareInv, StatusDone, runThread, history, Closed
<1>4. CASE StopRequested
  BY <1>4 DEF IInv, HardwareInv, StopRequested, runThread, history, Closed
<1>5. CASE StopTests
  BY <1>5 DEF IInv, PhaseInv, KeepInv, FailInv, HardwareInv, StopTests, history,
     Closed, Busy
<1>6. CASE StopsHardware
  BY <1>6 DEF IInv, HardwareInv, StopsHardware, GoesTo, WriteRootFile
<1>7. CASE InheritAndStart
  BY <1>7 DEF IInv, PhaseInv, KeepInv, HardwareInv, InheritAndStart, Goto, history,
     Busy
<1>8. CASE SubStopClears
  BY <1>8 DEF IInv, HardwareInv, SubStopClears, Goto, history
<1>9. CASE SubStopsHardware
  BY <1>9 DEF IInv, HardwareInv, SubStopsHardware, WriteRootFile
<1>10. CASE StatusThrows \/ StopClears \/ StopThrows \/ StopCloses \/ Halt \/
   Interrupt
  BY <1>10 DEF IInv, HardwareInv, StatusThrows, StopClears, StopThrows, StopCloses,
     Halt, Interrupt, GoesTo, CloseResultFile, WriteRootFile, history, Closed
<1>11. CASE EndItself \/ RunningEnds \/ SubStopTests \/ SubCloses \/ NextTool \/
   RunThrows \/ RunCrashes \/ MonitoringStopped
  BY <1>11 DEF IInv, HardwareInv, EndItself, RunningEnds, SubStopTests, SubCloses,
     NextTool, RunThrows, RunCrashes, MonitoringStopped, Goto, history, Closed
<1>12. CASE UNCHANGED vars
  BY <1>12 DEF IInv, HardwareInv, vars, runThread, history
<1> QED  BY <1>1, <1>2, <1>3, <1>4, <1>5, <1>6, <1>7, <1>8, <1>9, <1>10, <1>11,
   <1>12 DEF Next, Stop, RunThread, RunStep, Terminated

(* Each sub-tool inherits a good pointer, for only the last one closes it. *)
LEMMA FileInvStep == ASSUME IInv, [Next]_vars  PROVE FileInv'
<1>1. CASE Configure
  BY <1>1 DEF IInv, FileInv, Configure, Busy
<1>2. CASE Start
  BY <1>2 DEF IInv, PhaseInv, FileInv, Start
<1>3. CASE InheritAndStart
  BY <1>3, LastTool DEF IInv, FileInv, InheritAndStart, Goto
<1>4. CASE RunningEnds
  BY <1>4 DEF IInv, FileInv, RunningEnds, Goto
<1>5. CASE SubCloses
  BY <1>5, LastTool DEF IInv, ToolInv, FileInv, SubCloses, Goto
<1>6. CASE NextTool
  BY <1>6 DEF IInv, FileInv, NextTool
<1>7. CASE StatusDone \/ StatusThrows \/ StopRequested \/ StopTests \/ StopClears \/
   StopsHardware \/ StopThrows \/ StopCloses \/ Halt \/ Interrupt
  BY <1>7 DEF IInv, FileInv, StatusDone, StatusThrows, StopRequested, StopTests,
     StopClears, StopsHardware, StopThrows, StopCloses, Halt, Interrupt, runThread,
     GoesTo, CloseResultFile, WriteRootFile, Busy
<1>8. CASE EndItself \/ SubStopTests \/ SubStopClears \/ SubStopsHardware \/
   RunThrows \/ RunCrashes \/ MonitoringStopped
  BY <1>8 DEF IInv, FileInv, EndItself, SubStopTests, SubStopClears,
     SubStopsHardware, RunThrows, RunCrashes, MonitoringStopped, runThread, Goto, WriteRootFile, Busy
<1>9. CASE UNCHANGED vars
  BY <1>9 DEF IInv, FileInv, vars, runThread, history
<1> QED  BY <1>1, <1>2, <1>3, <1>4, <1>5, <1>6, <1>7, <1>8, <1>9 DEF Next, Stop,
   RunThread, RunStep, Terminated

(* As HardwareInv, for the file: the last tool has written it before       *)
(* closing it, but for Physics, which never finds the flag set.            *)
LEMMA WrittenInvStep == ASSUME IInv, [Next]_vars  PROVE WrittenInv'
<1>1. CASE Configure
  BY <1>1 DEF IInv, WrittenInv, Configure, Closed, Busy
<1>2. CASE Start
  BY <1>2 DEF IInv, WrittenInv, Start, Closed
<1>3. CASE StatusDone
  BY <1>3, SameCalibration, SameTool DEF IInv, WrittenInv, StatusDone, runThread,
     history, Closed, Busy
<1>4. CASE StopTests
  BY <1>4, SameCalibration, SameTool DEF IInv, PhaseInv, KeepInv, FailInv,
     WrittenInv, StopTests, runThread, history, Closed, Busy
<1>5. CASE StopsHardware
  BY <1>5, SameCalibration DEF IInv, FileInv, WrittenInv, StopsHardware, GoesTo,
     WriteRootFile, Busy
<1>6. CASE SubStopTests
  BY <1>6, LastTool, SameCalibration, SameTool DEF IInv, PhaseInv, KeepInv,
     WrittenInv, SubStopTests, Goto, history, Loops, StopsRun
<1>7. CASE SubStopsHardware
  BY <1>7, SameCalibration DEF IInv, FileInv, WrittenInv, SubStopsHardware,
     WriteRootFile, Goto, Busy
<1>8. CASE SubCloses
  BY <1>8, LastTool, SameCalibration DEF IInv, WrittenInv, SubCloses, Goto, history,
     ClosesFile
<1>9. CASE StatusThrows \/ StopRequested \/ StopClears \/ StopThrows \/ StopCloses
   \/ Halt \/ Interrupt
  BY <1>9, SameCalibration, SameTool DEF IInv, WrittenInv, StatusThrows,
     StopRequested, StopClears, StopThrows, StopCloses, Halt, Interrupt, GoesTo,
     CloseResultFile, WriteRootFile, runThread, history, Closed, Busy
<1>10. CASE InheritAndStart \/ EndItself \/ RunningEnds \/ SubStopClears \/ NextTool
   \/ RunThrows \/ RunCrashes \/ MonitoringStopped
  BY <1>10, SameCalibration DEF IInv, WrittenInv, InheritAndStart, EndItself,
     RunningEnds, SubStopClears, NextTool, RunThrows, RunCrashes, MonitoringStopped, Goto, history,
     runThread, Loops, Closed, Busy
<1>11. CASE UNCHANGED vars
  BY <1>11, SameCalibration, SameTool DEF IInv, WrittenInv, vars, runThread, history
<1> QED  BY <1>1, <1>2, <1>3, <1>4, <1>5, <1>6, <1>7, <1>8, <1>9, <1>10, <1>11 DEF
   Next, Stop, RunThread, RunStep, Terminated

(* Every step keeps the types.                                             *)
LEMMA TypeStep == ASSUME TypeOK, [Next]_vars  PROVE TypeOK'
<1> DEFINE Booleans ==
             /\ alive \in BOOLEAN /\ fKeepRunning \in BOOLEAN /\ hardwareOn \in BOOLEAN
             /\ fKeepMonitoring \in BOOLEAN
             /\ fResultFile \in BOOLEAN /\ subResultFile \in BOOLEAN
             /\ written \in BOOLEAN /\ endedItself \in BOOLEAN /\ failed \in BOOLEAN
           States ==
             /\ client \in {"Halted", "Configured", "Running", "Stopped"} \cup Stopping \cup Ended
             /\ fRunningFuture \in {"none", "pending", "ready", "exception"}
             /\ runPc \in {"none", "inherit", "running", "test", "clear", "save", "close", "next"}
             /\ resultFile \in {"none", "open", "deleted"}
           Position == calibration \in Calibrations /\ tool \in 1 .. Len(calibration)
<1>1. CASE Configure
  <2>1. Booleans'
    BY <1>1 DEF TypeOK, Configure, history
  <2>2. States'
    BY <1>1 DEF TypeOK, Stopping, Ended, Configure, history
  <2>3. Position'
    <3>1. calibration' \in Seq(Tools) /\ calibration' # << >>
      BY <1>1, CalibrationsAssumption DEF Configure
    <3>2. 1 \in 1 .. Len(calibration')
      BY <3>1
    <3> QED  BY <1>1, <3>2 DEF Configure
  <2> QED  BY <2>1, <2>2, <2>3 DEF TypeOK
<1>2. CASE Start
  <2>1. Booleans'
    BY <1>2 DEF TypeOK, Start
  <2>2. States'
    BY <1>2 DEF TypeOK, Stopping, Ended, Start
  <2>3. Position'
    BY <1>2 DEF TypeOK, Start
  <2> QED  BY <2>1, <2>2, <2>3 DEF TypeOK
<1>3. CASE StatusDone \/ StopRequested \/ StopTests \/ StopClears \/ StopThrows
  <2>1. Booleans'
    BY <1>3 DEF TypeOK, StatusDone, StopRequested, StopTests, StopClears,
       StopThrows, runThread, history
  <2>2. States'
    BY <1>3 DEF TypeOK, Stopping, Ended, StatusDone, StopRequested, StopTests,
       StopClears, StopThrows, runThread, history
  <2>3. Position'
    BY <1>3 DEF TypeOK, StatusDone, StopRequested, StopTests, StopClears,
       StopThrows, runThread
  <2> QED  BY <2>1, <2>2, <2>3 DEF TypeOK
<1>4. CASE StatusThrows \/ Interrupt
  <2>1. Booleans'
    BY <1>4 DEF TypeOK, StatusThrows, Interrupt, GoesTo, CloseResultFile,
       WriteRootFile, runThread
  <2>2. States'
    BY <1>4 DEF TypeOK, Stopping, Ended, StatusThrows, Interrupt, GoesTo,
       CloseResultFile, WriteRootFile, runThread
  <2>3. Position'
    BY <1>4 DEF TypeOK, StatusThrows, Interrupt, runThread
  <2> QED  BY <2>1, <2>2, <2>3 DEF TypeOK
<1>5. CASE StopsHardware
  <2>1. Booleans'
    BY <1>5 DEF TypeOK, StopsHardware, GoesTo, WriteRootFile, runThread
  <2>2. States'
    BY <1>5 DEF TypeOK, Stopping, Ended, StopsHardware, GoesTo, WriteRootFile,
       runThread
  <2>3. Position'
    BY <1>5 DEF TypeOK, StopsHardware, runThread
  <2> QED  BY <2>1, <2>2, <2>3 DEF TypeOK
<1>6. CASE StopCloses \/ Halt
  <2>1. Booleans'
    BY <1>6 DEF TypeOK, StopCloses, Halt, GoesTo, CloseResultFile, runThread,
       history
  <2>2. States'
    BY <1>6 DEF TypeOK, Stopping, Ended, StopCloses, Halt, GoesTo, CloseResultFile,
       runThread, history
  <2>3. Position'
    BY <1>6 DEF TypeOK, StopCloses, Halt, runThread
  <2> QED  BY <2>1, <2>2, <2>3 DEF TypeOK
<1>7. CASE InheritAndStart
  <2>1. Booleans'
    BY <1>7 DEF TypeOK, InheritAndStart, Goto, history
  <2>2. States'
    BY <1>7 DEF TypeOK, Stopping, Ended, InheritAndStart, Goto, history
  <2>3. Position'
    BY <1>7 DEF TypeOK, InheritAndStart
  <2> QED  BY <2>1, <2>2, <2>3 DEF TypeOK
<1>8. CASE EndItself \/ RunningEnds \/ SubStopTests \/ SubStopClears
  <2>1. Booleans'
    BY <1>8 DEF TypeOK, EndItself, RunningEnds, SubStopTests, SubStopClears,
       runThread, Goto, history
  <2>2. States'
    BY <1>8 DEF TypeOK, Stopping, Ended, EndItself, RunningEnds, SubStopTests,
       SubStopClears, runThread, Goto, history
  <2>3. Position'
    BY <1>8 DEF TypeOK, EndItself, RunningEnds, SubStopTests, SubStopClears,
       runThread
  <2> QED  BY <2>1, <2>2, <2>3 DEF TypeOK
<1>9. CASE SubStopsHardware
  <2>1. Booleans'
    BY <1>9 DEF TypeOK, SubStopsHardware, WriteRootFile, Goto
  <2>2. States'
    BY <1>9 DEF TypeOK, Stopping, Ended, SubStopsHardware, WriteRootFile, Goto
  <2>3. Position'
    BY <1>9 DEF TypeOK, SubStopsHardware
  <2> QED  BY <2>1, <2>2, <2>3 DEF TypeOK
<1>10. CASE SubCloses
  <2>1. Booleans'
    BY <1>10 DEF TypeOK, SubCloses, Goto, history
  <2>2. States'
    BY <1>10 DEF TypeOK, Stopping, Ended, SubCloses, Goto, history
  <2>3. Position'
    BY <1>10 DEF TypeOK, SubCloses
  <2> QED  BY <2>1, <2>2, <2>3 DEF TypeOK
<1>11. CASE NextTool
  <2>1. Booleans'
    BY <1>11 DEF TypeOK, NextTool, history
  <2>2. States'
    BY <1>11 DEF TypeOK, Stopping, Ended, NextTool, history
  <2>3. Position'
    BY <1>11, CalibrationsAssumption DEF TypeOK, NextTool
  <2> QED  BY <2>1, <2>2, <2>3 DEF TypeOK
<1>12. CASE RunThrows \/ RunCrashes \/ MonitoringStopped
  <2>1. Booleans'
    BY <1>12 DEF TypeOK, RunThrows, RunCrashes, MonitoringStopped, runThread, history
  <2>2. States'
    BY <1>12 DEF TypeOK, Stopping, Ended, RunThrows, RunCrashes, MonitoringStopped, runThread, history
  <2>3. Position'
    BY <1>12 DEF TypeOK, RunThrows, RunCrashes, MonitoringStopped, runThread
  <2> QED  BY <2>1, <2>2, <2>3 DEF TypeOK
<1>13. CASE UNCHANGED vars
  <2>1. Booleans'
    BY <1>13 DEF TypeOK, vars, runThread, history
  <2>2. States'
    BY <1>13 DEF TypeOK, Stopping, Ended, vars, runThread, history
  <2>3. Position'
    BY <1>13 DEF TypeOK, vars, runThread
  <2> QED  BY <2>1, <2>2, <2>3 DEF TypeOK
<1> QED  BY <1>1, <1>2, <1>3, <1>4, <1>5, <1>6, <1>7, <1>8, <1>9, <1>10, <1>11,
   <1>12, <1>13 DEF Next, Stop, RunThread, RunStep, Terminated

(* The initial states are well typed.                                      *)
LEMMA InitTypes == ASSUME Init  PROVE TypeOK
<1>1. calibration \in Seq(Tools) /\ calibration # << >>
  BY CalibrationsAssumption DEF Init
<1>2. 1 \in 1 .. Len(calibration)
  BY <1>1
<1> QED  BY <1>2 DEF Init, TypeOK, Ended, Stopping

(* The inductive invariant.                                                *)
LEMMA Invariance == Spec => []IInv
<1>1. ASSUME Init  PROVE IInv
  <2>1. PhaseInv /\ ToolInv /\ KeepInv /\ FailInv
    BY <1>1 DEF Init, PhaseInv, ToolInv, KeepInv, FailInv, Busy, Closed, Stopping
  <2>2. HardwareInv /\ FileInv /\ WrittenInv
    BY <1>1 DEF Init, HardwareInv, FileInv, WrittenInv, Busy, Closed
  <2> QED  BY <1>1, <2>1, <2>2, InitTypes DEF IInv
<1>2. ASSUME IInv, [Next]_vars  PROVE IInv'
  <2>1. TypeOK'
    BY <1>2, TypeStep DEF IInv
  <2> QED  BY <1>2, <2>1, PhaseInvStep, ToolInvStep, KeepInvStep, FailInvStep,
              HardwareInvStep, FileInvStep, WrittenInvStep DEF IInv
<1> QED  BY <1>1, <1>2, PTL DEF Spec

-----------------------------------------------------------------------------
(* The theorems.                                                           *)

(* Type correctness: every variable keeps its type.                        *)
THEOREM TypeCorrect == Spec => []TypeOK
<1>1. IInv => TypeOK
  BY DEF IInv
<1> QED  BY <1>1, Invariance, PTL

(* No run outlives its system, whatever the combination and whenever the   *)
(* client stops it: Tool::Stop waits before the interfaces are destroyed.   *)
THEOREM RunKeepsItsSystem == Spec => []RunHasItsSystem
<1>1. IInv => RunHasItsSystem
  BY DEF IInv, TypeOK, PhaseInv, Closed, Stopping, Ended, RunHasItsSystem
<1> QED  BY <1>1, Invariance, PTL

(* When stop() has returned the boards have been stopped, by the client or  *)
(* by the last sub-tool, whichever has found fKeepRunning set.              *)
THEOREM BoardsAreStopped == Spec => []HardwareStopped
<1>1. IInv => HardwareStopped
  BY DEF IInv, HardwareInv, Closed, HardwareStopped
<1> QED  BY <1>1, Invariance, PTL

(* The exception of a run that has thrown reaches the client through        *)
(* status() or stop(): none is ever reported as stopped in good order.      *)
THEOREM NoFailureIsLost == Spec => []FailuresReported
<1>1. IInv => FailuresReported
  BY DEF IInv, FailInv, Closed, FailuresReported
<1> QED  BY <1>1, Invariance, PTL

(* The results are in the file before whoever closes it deletes it.         *)
THEOREM ResultsAreWritten == Spec => []ResultsWritten
<1>1. IInv => ResultsWritten
  BY DEF IInv, WrittenInv, Closed, ResultsWritten
<1> QED  BY <1>1, Invariance, PTL
=============================================================================
