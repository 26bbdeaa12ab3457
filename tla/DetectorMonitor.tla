--------------------------- MODULE DetectorMonitor ---------------------------
(***************************************************************************)
(* The monitoring thread of MonitorUtils/DetectorMonitor.{h,cc} and the    *)
(* calls by which the other threads of the DAQ start, stop, pause and join *)
(* it.  The three atomics fKeepRunning, fEnableMonitor, fIsMonitorRunning  *)
(* are the only things the threads share.                                  *)
(*                                                                         *)
(* The monitor thread reads and writes the atomics one at a time, so each  *)
(* of its program points is a value of monPc:                              *)
(*   unforked   forkMonitor has not been called                            *)
(*   loop       about to test fKeepRunning                                 *)
(*   test       about to test fEnableMonitor                               *)
(*   enter      has read TRUE, about to set fIsMonitorRunning              *)
(*   idle       has read FALSE, about to clear fIsMonitorRunning           *)
(*   measuring  inside runMonitor (a cycle of hardware accesses)           *)
(*   measured   runMonitor has returned, about to test fEnableMonitor      *)
(*   sleeping   in the sleep loop                                          *)
(*   returned   operator() has returned: fMonitorFuture is ready           *)
(*   threw      runMonitor has thrown: fMonitorFuture is ready too         *)
(* A caller is any other thread that holds the monitor: the one that       *)
(* configures and destroys the system, the one that runs a calibration.    *)
(***************************************************************************)
EXTENDS Naturals

CONSTANTS
  Callers,                \* the threads that call the monitor's methods
  SleepTicks,             \* fSleepTimeMs, in units of fLoopWaitTimeMs
  fMaximumStopTentatives  \* 100 in the code

ASSUME DetectorMonitorAssumption ==
  /\ SleepTicks \in Nat
  /\ fMaximumStopTentatives \in Nat

VARIABLES
  fKeepRunning,
  fEnableMonitor,
  fIsMonitorRunning,
  monPc,      \* program point of the monitor thread
  sleepLeft,  \* waitTime of operator(), in ticks
  call,       \* the blocking method each caller is in: "none", "pause", "wait"
  budget,     \* waitTime of that method, in ticks
  outcome,    \* how the last blocking call of each caller ended
  paused,     \* history: a pauseMonitoring returned and nobody re-enabled since
  stray       \* history: cycles entered since then

flags    == <<fKeepRunning, fEnableMonitor, fIsMonitorRunning>>
thread   == <<monPc, sleepLeft>>
callers  == <<call, budget, outcome>>
history  == <<paused, stray>>
vars     == <<flags, thread, callers, history>>

\* The number of ticks a blocking call may wait.
Budget == fMaximumStopTentatives * SleepTicks

FutureReady == monPc \in {"returned", "threw"}

TypeOK ==
  /\ fKeepRunning \in BOOLEAN
  /\ fEnableMonitor \in BOOLEAN
  /\ fIsMonitorRunning \in BOOLEAN
  /\ monPc \in {"unforked", "loop", "test", "enter", "idle", "measuring",
                "measured", "sleeping", "returned", "threw"}
  /\ sleepLeft \in 0..SleepTicks
  /\ call \in [Callers -> {"none", "pause", "wait"}]
  /\ budget \in [Callers -> 0..Budget]
  /\ outcome \in [Callers -> {"none", "paused", "completed", "failed"}]
  /\ paused \in BOOLEAN
  /\ stray \in 0..2

Init ==
  /\ fKeepRunning = TRUE
  /\ fEnableMonitor = FALSE
  /\ fIsMonitorRunning = FALSE
  /\ monPc = "unforked"
  /\ sleepLeft = 0
  /\ call = [c \in Callers |-> "none"]
  /\ budget = [c \in Callers |-> 0]
  /\ outcome = [c \in Callers |-> "none"]
  /\ paused = FALSE
  /\ stray = 0

-----------------------------------------------------------------------------
(* The monitor thread: operator().                                         *)

Goto(from, to) == monPc = from /\ monPc' = to

ForkMonitor ==
  /\ Goto("unforked", "loop")
  /\ UNCHANGED <<flags, sleepLeft, callers, history>>

\* Fault: an enabled monitor is not stopped.
FaultyTestKeepRunning ==
  /\ Goto("loop", IF fKeepRunning \/ fEnableMonitor THEN "test" ELSE "returned")
  /\ UNCHANGED <<flags, sleepLeft, callers, history>>

TestKeepRunning ==
  /\ Goto("loop", IF fKeepRunning THEN "test" ELSE "returned")
  /\ UNCHANGED <<flags, sleepLeft, callers, history>>

\* Fault: a monitor that has been running goes on.
FaultyTestEnable ==
  /\ Goto("test", IF fEnableMonitor \/ fIsMonitorRunning THEN "enter" ELSE "idle")
  /\ UNCHANGED <<flags, sleepLeft, callers, history>>

TestEnable ==
  /\ Goto("test", IF fEnableMonitor THEN "enter" ELSE "idle")
  /\ UNCHANGED <<flags, sleepLeft, callers, history>>

EnterCycle ==
  /\ Goto("enter", "measuring")
  /\ fIsMonitorRunning' = TRUE
  /\ stray' = IF paused /\ stray < 2 THEN stray + 1 ELSE stray
  /\ UNCHANGED <<fKeepRunning, fEnableMonitor, sleepLeft, callers, paused>>

FinishCycle ==
  /\ Goto("measuring", "measured")
  /\ UNCHANGED <<flags, sleepLeft, callers, history>>

\* A hardware or output error leaves operator(): std::async stores the
\* exception in the future, which nobody ever gets.
ThrowInCycle ==
  /\ Goto("measuring", "threw")
  /\ UNCHANGED <<flags, sleepLeft, callers, history>>

AfterCycle ==
  /\ Goto("measured", IF fEnableMonitor THEN "sleeping" ELSE "loop")
  /\ sleepLeft' = IF fEnableMonitor THEN SleepTicks ELSE sleepLeft
  /\ UNCHANGED <<flags, callers, history>>

EnterIdle ==
  /\ Goto("idle", "sleeping")
  /\ fIsMonitorRunning' = FALSE
  /\ sleepLeft' = SleepTicks
  /\ UNCHANGED <<fKeepRunning, fEnableMonitor, callers, history>>

\* fIsMonitorRunning is written by this thread alone, so a step that reads the
\* three atomics together sees nothing that separate reads would not see.
StaysAsleep ==
  sleepLeft > 0 /\ fKeepRunning /\ (fIsMonitorRunning \/ ~fEnableMonitor)

\* Fault: the time slept is not counted.
FaultySleepTick == monPc = "sleeping" /\ StaysAsleep /\ UNCHANGED vars

SleepTick ==
  /\ monPc = "sleeping" /\ StaysAsleep
  /\ sleepLeft' = sleepLeft - 1
  /\ UNCHANGED <<flags, monPc, callers, history>>

WakeUp ==
  /\ ~StaysAsleep
  /\ Goto("sleeping", "loop")
  /\ UNCHANGED <<flags, sleepLeft, callers, history>>

MonitorThread ==
  \/ TestKeepRunning \/ TestEnable \/ EnterCycle \/ FinishCycle \/ ThrowInCycle
  \/ AfterCycle \/ EnterIdle \/ SleepTick \/ WakeUp

-----------------------------------------------------------------------------
(* The callers.                                                            *)

Free(c) == monPc # "unforked" /\ call[c] = "none"

\* startMonitoring, and resumeMonitoring which calls it.
StartMonitoring(c) ==
  /\ Free(c)
  /\ fEnableMonitor' = TRUE
  /\ paused' = FALSE
  /\ stray' = 0
  /\ UNCHANGED <<fKeepRunning, fIsMonitorRunning, thread, callers>>

StopMonitoring(c) ==
  /\ Free(c)
  /\ fEnableMonitor' = FALSE
  /\ UNCHANGED <<fKeepRunning, fIsMonitorRunning, thread, callers, history>>

Block(c, name) ==
  /\ call' = [call EXCEPT ![c] = name]
  /\ budget' = [budget EXCEPT ![c] = Budget]
  /\ outcome' = [outcome EXCEPT ![c] = "none"]

WaitTick(c) ==
  /\ budget' = [budget EXCEPT ![c] = @ - 1]
  /\ UNCHANGED <<flags, thread, call, outcome, history>>

\* Fault: a used-up budget counts as success.
FaultyUnblock(c, success) ==
  /\ call' = [call EXCEPT ![c] = "none"]
  /\ outcome' = [outcome EXCEPT ![c] = success]
  /\ UNCHANGED <<flags, thread, budget>>

\* Both blocking methods throw when the budget is used up, even if the
\* condition they wait for has come true by then.
Unblock(c, success) ==
  /\ call' = [call EXCEPT ![c] = "none"]
  /\ outcome' = [outcome EXCEPT ![c] = IF budget[c] > 0 THEN success ELSE "failed"]
  /\ UNCHANGED <<flags, thread, budget>>

PauseMonitoring(c) ==
  /\ Free(c)
  /\ fEnableMonitor' = FALSE
  /\ Block(c, "pause")
  /\ UNCHANGED <<fKeepRunning, fIsMonitorRunning, thread, history>>

PauseWaits(c) ==
  /\ call[c] = "pause" /\ fIsMonitorRunning /\ budget[c] > 0
  /\ WaitTick(c)

PauseReturns(c) ==
  /\ call[c] = "pause" /\ ~(fIsMonitorRunning /\ budget[c] > 0)
  /\ Unblock(c, "paused")
  /\ paused' = (paused \/ (budget[c] > 0 /\ ~fEnableMonitor))
  /\ stray' = IF paused THEN stray ELSE 0

\* stopRunning and waitForMonitorToStop are always called together
\* (SystemController::Destroy, CalibBase::Stop).
StopRunning(c) ==
  /\ Free(c)
  /\ fKeepRunning' = FALSE
  /\ Block(c, "wait")
  /\ UNCHANGED <<fEnableMonitor, fIsMonitorRunning, thread, history>>

WaitForStopWaits(c) ==
  /\ call[c] = "wait" /\ ~FutureReady /\ budget[c] > 0
  /\ WaitTick(c)

\* Fault: waits for the monitor to be idle, not for the thread to end.
FaultyWaitForStopReturns(c) ==
  /\ call[c] = "wait" /\ (~fIsMonitorRunning \/ budget[c] = 0)
  /\ Unblock(c, "completed")
  /\ UNCHANGED history

WaitForStopReturns(c) ==
  /\ call[c] = "wait" /\ (FutureReady \/ budget[c] = 0)
  /\ Unblock(c, "completed")
  /\ UNCHANGED history

Caller(c) ==
  \/ StartMonitoring(c) \/ StopMonitoring(c) \/ PauseMonitoring(c)
  \/ PauseWaits(c) \/ PauseReturns(c)
  \/ StopRunning(c) \/ WaitForStopWaits(c) \/ WaitForStopReturns(c)

Next == ForkMonitor \/ MonitorThread \/ \E c \in Callers : Caller(c)

Spec == Init /\ [][Next]_vars

\* The operating system keeps running the thread, and a measurement ends.
Fairness == WF_vars(ForkMonitor) /\ WF_vars(MonitorThread)

FairSpec == Spec /\ Fairness

-----------------------------------------------------------------------------
(* Properties.                                                             *)

\* A waitForMonitorToStop that returned normally means that the thread has left
\* operator(): SystemController::Destroy deletes the interfaces right after it.
CompletedMeansDone == \A c \in Callers : outcome[c] = "completed" => FutureReady

\* A pauseMonitoring that returned normally lets at most one more cycle begin
\* until somebody re-enables the monitor: the one whose fEnableMonitor test came
\* before the pause.
AtMostOneStrayCycle == paused => stray <= 1

\* Once runMonitor has thrown, no pauseMonitoring returns normally any more:
\* fIsMonitorRunning stays set and the budget runs out.
DeadMonitorNeverPauses ==
  [][\A c \in Callers :
       (monPc = "threw" /\ call[c] = "pause" /\ call'[c] = "none")
          => outcome'[c] = "failed"]_vars

\* What the callers take pauseMonitoring for: from its return on, no cycle of
\* hardware accesses is under way.  TLC refutes it (README.md).
PausedMeansQuiet == paused => monPc # "measuring"

\* A monitor that stays enabled keeps measuring, unless it is told to end or
\* a measurement throws.
EnabledKeepsMeasuring ==
  (<>[](fEnableMonitor /\ fKeepRunning)) => []<>(monPc \in {"measuring", "threw"})

\* stopRunning ends the thread, whatever it is doing.
StopRunningEndsThread == ~fKeepRunning ~> FutureReady
=============================================================================
