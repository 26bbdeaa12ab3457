----------------------------- MODULE RunControl -----------------------------
(***************************************************************************)
(* Run control: MiddlewareStateMachine drives a CombinedCalibration, whose *)
(* Running executes the sub-tools one after the other in a thread of its   *)
(* own (Tool::Start, std::async).  The combined tool and its sub-tools     *)
(* share the static flag fKeepRunning, and each sub-tool inherits a copy   *)
(* of the pointer to the result file.                                      *)
(*                                                                         *)
(* The client is what drives the state machine (runCalibration, the        *)
(* supervisor, the Python driver): it configures, starts, asks for the     *)
(* status until the run is done, or stops an open-ended run itself, then   *)
(* halts.  Its states while stop() executes are                            *)
(*   StopTest, StopClear   the two accesses to fKeepRunning in Tool::Stop  *)
(*   StopWait              waiting for the run thread                      *)
(*   StopClose             about to close the result file                  *)
(* The run thread executes sub-tool number tool:                           *)
(*   inherit, running, then in the sub-tool's Stop                         *)
(*   test, clear, save, close, and next.                                   *)
(***************************************************************************)
EXTENDS Naturals, Sequences

CONSTANT Calibrations   \* the sequences of sub-tools a client may ask for

Tools == {"alignment", "correlations", "otphysics", "calib", "physics", "realtimemonitor",
          "monitoronly"}

ASSUME CalibrationsAssumption == Calibrations \subseteq Seq(Tools) \ {<< >>}

(* What the tools differ in.  alignment stands for the outer-tracker tools *)
(* whose Stop leaves the run alone, calib for the finite inner-tracker     *)
(* scans.  The Stop of realtimemonitor acts only if fKeepRunning is set,   *)
(* which its loop has just seen cleared.  monitoronly loops on a flag of   *)
(* its own and has a Stop that concerns its pipes only.                    *)
Loops(t)          == t \in {"otphysics", "physics", "realtimemonitor", "monitoronly"}
HasItsOwnFlag(t)  == t = "monitoronly"
StartsHardware(t) == t \in {"correlations", "otphysics", "physics"}
StopsRun(t)       == t \in {"correlations", "otphysics", "calib", "physics"}
ClosesFile(t)     == t \in {"calib", "physics"}

\* Only the last tool of a registered combination stops the run or loops.
ASSUME LastToolAssumption ==
  \A c \in Calibrations : \A i \in 1 .. Len(c) - 1 : ~StopsRun(c[i]) /\ ~Loops(c[i])

VARIABLES
  client, calibration,   \* the client's state, and the tool it has created
  alive,                 \* hardware description and interfaces exist
  fKeepRunning, fRunningFuture,
  runPc, tool,           \* the run thread
  fKeepMonitoring,       \* the flag of monitoronly
  resultFile,            \* "none", "open", or "deleted"
  fResultFile,           \* the combined tool's pointer is not null
  subResultFile,         \* the current sub-tool's pointer is not null
  hardwareOn,            \* the boards are triggering
  written,               \* history: WriteRootFile reached the open file
  endedItself,           \* history: OTPhysics has cleared fKeepRunning
  failed                 \* history: the run has thrown

runThread == <<runPc, tool, subResultFile, fKeepMonitoring>>
history   == <<written, endedItself, failed>>
vars == <<client, calibration, alive, fKeepRunning, fRunningFuture, runThread,
          resultFile, fResultFile, hardwareOn, history>>

Ended    == {"Error", "Aborted", "Crashed"}
Stopping == {"StopTest", "StopClear", "StopWait", "StopClose"}

TypeOK ==
  /\ client \in {"Halted", "Configured", "Running", "Stopped"} \cup Stopping \cup Ended
  /\ calibration \in Calibrations
  /\ alive \in BOOLEAN
  /\ fKeepRunning \in BOOLEAN
  /\ fRunningFuture \in {"none", "pending", "ready", "exception"}
  /\ runPc \in {"none", "inherit", "running", "test", "clear", "save", "close", "next"}
  /\ tool \in 1 .. Len(calibration)
  /\ fKeepMonitoring \in BOOLEAN
  /\ resultFile \in {"none", "open", "deleted"}
  /\ fResultFile \in BOOLEAN /\ subResultFile \in BOOLEAN
  /\ hardwareOn \in BOOLEAN
  /\ written \in BOOLEAN /\ endedItself \in BOOLEAN /\ failed \in BOOLEAN

Init ==
  /\ client = "Halted"
  /\ calibration \in Calibrations
  /\ alive = FALSE
  /\ fKeepRunning = FALSE
  /\ fRunningFuture = "none"
  /\ runPc = "none" /\ tool = 1
  /\ fKeepMonitoring = FALSE
  /\ resultFile = "none"
  /\ fResultFile = FALSE /\ subResultFile = FALSE
  /\ hardwareOn = FALSE
  /\ written = FALSE /\ endedItself = FALSE /\ failed = FALSE

Current   == calibration[tool]
Has(t)    == \E i \in DOMAIN calibration : calibration[i] = t
OpenEnded == \E i \in DOMAIN calibration : Loops(calibration[i])

-----------------------------------------------------------------------------
(* The result file.                                                        *)

\* A sub-tool may have deleted the file the combined tool still points to;
\* using it then is undefined: the program may go on, or crash.
Dangling == fResultFile /\ resultFile = "deleted"

GoesTo(state) == client' \in IF Dangling THEN {state, "Crashed"} ELSE {state}

CloseResultFile ==
  /\ fResultFile' = FALSE
  /\ resultFile' = IF fResultFile THEN "deleted" ELSE resultFile

WriteRootFile(pointer) == written' = (written \/ (pointer /\ resultFile = "open"))

-----------------------------------------------------------------------------
(* The client.                                                             *)

\* A new tool for every run; one whose configuration throws ends the client.
\* A run thread that a halt has left behind is assumed to end before (its tool
\* is another object).
Configure ==
  /\ client = "Halted"
  /\ runPc = "none"
  /\ client' \in {"Configured", "Error"}
  /\ calibration' \in Calibrations
  /\ alive' = TRUE
  /\ tool' = 1
  /\ fKeepMonitoring' = FALSE
  /\ fRunningFuture' = "none"
  /\ resultFile' = "none" /\ fResultFile' = FALSE
  /\ UNCHANGED <<fKeepRunning, runPc, subResultFile, hardwareOn, history>>

Start ==
  /\ client = "Configured"
  /\ client' = "Running"
  /\ resultFile' = "open" /\ fResultFile' = TRUE
  /\ fKeepRunning' = TRUE
  /\ fRunningFuture' = "pending"
  /\ runPc' = "inherit"
  /\ written' = FALSE /\ endedItself' = FALSE /\ failed' = FALSE
  /\ UNCHANGED <<calibration, alive, tool, fKeepMonitoring, subResultFile, hardwareOn>>

\* status(): the run is done, and the result is taken out of the future.
StatusDone ==
  /\ client = "Running"
  /\ fRunningFuture = "ready"
  /\ fRunningFuture' = "none"
  /\ client' = "StopTest"
  /\ UNCHANGED <<calibration, alive, fKeepRunning, runThread, resultFile,
                 fResultFile, hardwareOn, history>>

\* status(): the run has thrown, and everything is destroyed.
StatusThrows ==
  /\ client = "Running"
  /\ fRunningFuture = "exception"
  /\ fRunningFuture' = "none"
  /\ WriteRootFile(fResultFile)
  /\ CloseResultFile
  /\ alive' = FALSE
  /\ GoesTo("Error")
  /\ UNCHANGED <<calibration, fKeepRunning, runThread, hardwareOn, endedItself, failed>>

\* An open-ended run is stopped by its user: Ctrl-C, a timer, a command.
StopRequested ==
  /\ client = "Running"
  /\ OpenEnded
  /\ client' = "StopTest"
  /\ UNCHANGED <<calibration, alive, fKeepRunning, fRunningFuture, runThread,
                 resultFile, fResultFile, hardwareOn, history>>

\* Tool::Stop of the combined tool does nothing if the flag is clear already.
StopTests ==
  /\ client = "StopTest"
  /\ client' = IF fKeepRunning THEN "StopClear" ELSE "StopClose"
  /\ UNCHANGED <<calibration, alive, fKeepRunning, fRunningFuture, runThread,
                 resultFile, fResultFile, hardwareOn, history>>

\* Mistake: the flag the loops test is not cleared.
FaultyStopClears ==
  /\ client = "StopClear"
  /\ client' = "StopWait"
  /\ UNCHANGED <<calibration, alive, fKeepRunning, fRunningFuture, runThread,
                 resultFile, fResultFile, hardwareOn, history>>

StopClears ==
  /\ client = "StopClear"
  /\ client' = "StopWait"
  /\ fKeepRunning' = FALSE
  /\ UNCHANGED <<calibration, alive, fRunningFuture, runThread,
                 resultFile, fResultFile, hardwareOn, history>>

\* Mistake: stop() does not wait for the run.
FaultyStopsHardware ==
  /\ client = "StopWait"
  /\ client' = "StopClose"
  /\ hardwareOn' = FALSE
  /\ WriteRootFile(fResultFile)
  /\ UNCHANGED <<calibration, alive, fKeepRunning, fRunningFuture, runThread, resultFile,
                 fResultFile, endedItself, failed>>

\* The run is over: stop the boards, save and write the results.
StopsHardware ==
  /\ client = "StopWait"
  /\ fRunningFuture \in {"none", "ready"}
  /\ fRunningFuture' = "none"
  /\ hardwareOn' = FALSE
  /\ WriteRootFile(fResultFile)
  /\ GoesTo("StopClose")
  /\ UNCHANGED <<calibration, alive, fKeepRunning, runThread, resultFile,
                 fResultFile, endedItself, failed>>

\* Mistake: the exception is logged and dropped.
FaultyStopThrows ==
  /\ client = "StopWait"
  /\ fRunningFuture = "exception"
  /\ fRunningFuture' = "none"
  /\ GoesTo("StopClose")
  /\ UNCHANGED <<calibration, alive, fKeepRunning, runThread, resultFile,
                 fResultFile, hardwareOn, history>>

\* The run has thrown: stop() throws in turn, before it reaches the boards.
StopThrows ==
  /\ client = "StopWait"
  /\ fRunningFuture = "exception"
  /\ fRunningFuture' = "none"
  /\ client' = "Error"
  /\ UNCHANGED <<calibration, alive, fKeepRunning, runThread, resultFile,
                 fResultFile, hardwareOn, history>>

StopCloses ==
  /\ client = "StopClose"
  /\ CloseResultFile
  /\ GoesTo("Stopped")
  /\ UNCHANGED <<calibration, alive, fKeepRunning, fRunningFuture, runThread,
                 hardwareOn, history>>

Halt ==
  /\ client = "Stopped"
  /\ CloseResultFile
  /\ alive' = FALSE
  /\ GoesTo("Halted")
  /\ UNCHANGED <<calibration, fKeepRunning, fRunningFuture, runThread, hardwareOn, history>>

\* Ctrl-C in runCalibration, but for OTPhysics under way, and until monitoronly
\* has installed a handler of its own, makes a thread destroy everything and then abort the process.  What the main thread does in
\* the meantime is left out; the run thread goes on.
Interrupt ==
  /\ client \in {"Configured", "Running"} \cup Stopping
  /\ client # "Configured" => ~Has("otphysics")
  /\ Has("monitoronly") => client = "Configured" \/ runPc = "inherit"
  /\ WriteRootFile(fResultFile)
  /\ CloseResultFile
  /\ alive' = FALSE
  /\ GoesTo("Aborted")
  /\ UNCHANGED <<calibration, fKeepRunning, fRunningFuture, runThread, hardwareOn,
                 endedItself, failed>>

Stop == StopTests \/ StopClears \/ StopsHardware \/ StopThrows \/ StopCloses

-----------------------------------------------------------------------------
(* The run thread.                                                         *)

Goto(from, to) == runPc = from /\ runPc' = to

\* The first sub-tool inherits from the combined tool, each other one from its
\* predecessor.
InheritAndStart ==
  /\ Goto("inherit", "running")
  /\ subResultFile' = IF tool = 1 THEN fResultFile ELSE subResultFile
  /\ hardwareOn' = (hardwareOn \/ StartsHardware(Current))
  /\ fKeepMonitoring' = (fKeepMonitoring \/ HasItsOwnFlag(Current))
  /\ UNCHANGED <<client, calibration, alive, fKeepRunning, fRunningFuture, tool,
                 resultFile, fResultFile, history>>

\* OTPhysics ends by itself when it has taken enough data.
EndItself ==
  /\ runPc = "running" /\ Current = "otphysics"
  /\ fKeepRunning
  /\ fKeepRunning' = FALSE
  /\ endedItself' = TRUE
  /\ UNCHANGED <<client, calibration, alive, fRunningFuture, runThread, resultFile,
                 fResultFile, hardwareOn, written, failed>>

\* monitoronly is told to stop over its command pipe, or by a signal.
MonitoringStopped ==
  /\ runPc = "running" /\ fKeepMonitoring
  /\ fKeepMonitoring' = FALSE
  /\ UNCHANGED <<client, calibration, alive, fKeepRunning, fRunningFuture, runPc, tool,
                 subResultFile, resultFile, fResultFile, hardwareOn, history>>

RunningEnds ==
  /\ Loops(Current) => ~(IF HasItsOwnFlag(Current) THEN fKeepMonitoring ELSE fKeepRunning)
  /\ Goto("running", IF StopsRun(Current) THEN "test" ELSE "next")
  /\ UNCHANGED <<client, calibration, alive, fKeepRunning, fRunningFuture, tool,
                 fKeepMonitoring, subResultFile, resultFile, fResultFile, hardwareOn, history>>

\* Mistake: a sub-tool leaves the run alone but still closes the file.
FaultySubStopTests ==
  /\ Goto("test", "close")
  /\ UNCHANGED <<client, calibration, alive, fKeepRunning, fRunningFuture, tool,
                 fKeepMonitoring, subResultFile, resultFile, fResultFile, hardwareOn, history>>

SubStopTests ==
  /\ Goto("test", IF fKeepRunning THEN "clear" ELSE "close")
  /\ UNCHANGED <<client, calibration, alive, fKeepRunning, fRunningFuture, tool,
                 fKeepMonitoring, subResultFile, resultFile, fResultFile, hardwareOn, history>>

\* The sub-tool's own future is empty: it does not wait for anything.
SubStopClears ==
  /\ Goto("clear", "save")
  /\ fKeepRunning' = FALSE
  /\ UNCHANGED <<client, calibration, alive, fRunningFuture, tool, fKeepMonitoring,
                 subResultFile, resultFile, fResultFile, hardwareOn, history>>

SubStopsHardware ==
  /\ Goto("save", "close")
  /\ hardwareOn' = FALSE
  /\ WriteRootFile(subResultFile)
  /\ UNCHANGED <<client, calibration, alive, fKeepRunning, fRunningFuture, tool,
                 fKeepMonitoring, subResultFile, resultFile, fResultFile, endedItself, failed>>

\* CalibBase::Stop closes and deletes the file through its own pointer.
SubCloses ==
  /\ Goto("close", "next")
  /\ IF ClosesFile(Current) /\ subResultFile
     THEN subResultFile' = FALSE /\ resultFile' = "deleted"
     ELSE UNCHANGED <<subResultFile, resultFile>>
  /\ UNCHANGED <<client, calibration, alive, fKeepRunning, fRunningFuture, tool,
                 fKeepMonitoring, fResultFile, hardwareOn, history>>

NextTool ==
  /\ runPc = "next"
  /\ \/ /\ tool < Len(calibration)
        /\ tool' = tool + 1 /\ runPc' = "inherit"
        /\ UNCHANGED fRunningFuture
     \/ /\ tool = Len(calibration)
        /\ runPc' = "none" /\ fRunningFuture' = "ready"
        /\ UNCHANGED tool
  /\ UNCHANGED <<client, calibration, alive, fKeepRunning, fKeepMonitoring, subResultFile,
                 resultFile, fResultFile, hardwareOn, history>>

\* Hardware access may throw anywhere in the run; the future keeps the exception.
RunThrows ==
  /\ runPc # "none"
  /\ runPc' = "none"
  /\ fRunningFuture' = "exception"
  /\ failed' = TRUE
  /\ UNCHANGED <<client, calibration, alive, fKeepRunning, tool, fKeepMonitoring,
                 subResultFile, resultFile, fResultFile, hardwareOn, written, endedItself>>

RunStep ==
  \/ InheritAndStart \/ RunningEnds \/ SubStopTests \/ SubStopClears
  \/ SubStopsHardware \/ SubCloses \/ NextTool

\* Hardware description and interfaces are deleted: any use may crash.
RunCrashes ==
  /\ runPc # "none" /\ ~alive
  /\ client' = "Crashed"
  /\ UNCHANGED <<calibration, alive, fKeepRunning, fRunningFuture, runThread,
                 resultFile, fResultFile, hardwareOn, history>>

RunThread == client # "Crashed" /\ (RunStep \/ EndItself \/ MonitoringStopped \/ RunThrows \/ RunCrashes)

\* The process is gone, or its client has given up.
Terminated == client \in Ended /\ UNCHANGED vars

Next ==
  \/ Configure \/ Start \/ StatusDone \/ StatusThrows \/ StopRequested \/ Stop \/ Halt
  \/ Interrupt \/ RunThread \/ Terminated

Spec == Init /\ [][Next]_vars

\* The operating system runs the run thread, whose finite tools end, and the
\* client once it has called stop().  Nobody has to tell monitoronly to stop.
FairSpec == Spec /\ WF_vars(client # "Crashed" /\ RunStep) /\ WF_vars(Stop)

-----------------------------------------------------------------------------
(* Properties.                                                             *)

\* No sub-tool works on a system that has been destroyed: halt comes after the
\* run, and so does the destruction in status().  Excepted: the abort thread of
\* runCalibration, and an OTPhysics that has ended itself, for which stop() does
\* not wait.
RunHasItsSystem ==
  runPc # "none" => alive \/ client \in {"Aborted", "Crashed"} \/ endedItself

\* When stop() has returned, no board is triggering, whichever of the tools
\* has found fKeepRunning set, unless OTPhysics has cleared it itself.
HardwareStopped ==
  client = "Stopped" => ~hardwareOn \/ endedItself

\* A run that has thrown is never reported as stopped in good order: status()
\* or stop() passes the exception on.
FailuresReported ==
  client = "Stopped" => ~failed \/ endedItself

\* When stop() has returned, one of the tools has written the result file
\* before it was closed.  Excepted again an OTPhysics that has ended itself, and
\* Physics, which closes the file without having found fKeepRunning set.
ResultsWritten ==
  client = "Stopped" => written \/ endedItself \/ Has("physics")

\* Once stop() has cleared fKeepRunning it ends, whatever the sub-tools that
\* test this flag do.  Excepted is a monitoronly that nobody tells to stop over
\* its pipe or by a signal: it never reads fKeepRunning, so that stop() waits
\* for it for ever.
MonitorsForEver == <>[](runPc = "running" /\ fKeepMonitoring)

StopCompletes ==
  MonitorsForEver \/ (client = "StopWait" ~> client \in {"Stopped"} \cup Ended)

=============================================================================
