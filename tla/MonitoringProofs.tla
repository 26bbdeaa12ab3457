--------------------------- MODULE MonitoringProofs --------------------------
(***************************************************************************)
(* Theorems about the monitoring: about its thread and the callers of its  *)
(* methods (DetectorMonitor), for any number of callers and any lengths of *)
(* the sleep and of the waits; and about the boards it shares with the run *)
(* (BoardAccess), for any threads, observables and routes.                 *)
(*                                                                         *)
(* In BoardAccess a thread has its method before it as a sequence of       *)
(* steps.  The second part gives every thread a label, which says where in *)
(* the method it is, and shows once per method that its steps lead from    *)
(* label to label up to the end (Leads, Runs), and once per action that    *)
(* the thread that acts takes such a step (Moves).  What a thread knows of *)
(* the chip is then proved over the turns between labels, of which there   *)
(* are far fewer than interleavings of steps.                              *)
(***************************************************************************)
EXTENDS DetectorMonitor, BoardAccess, SequenceTheorems, TLAPS

-----------------------------------------------------------------------------
(* Type correctness.                                                       *)

\* The time a blocking call may wait is a number.
LEMMA BudgetIsNat == Budget \in Nat
BY DetectorMonitorAssumption DEF Budget

\* No step leaves the types.
LEMMA TypeStep == TypeOK /\ [Next]_vars => TypeOK'
<1> SUFFICES ASSUME TypeOK, [Next]_vars PROVE TypeOK'
  OBVIOUS
<1> USE DetectorMonitorAssumption, BudgetIsNat
<1> USE DEF TypeOK, flags, thread, callers, history
<1>1. CASE ForkMonitor
  BY <1>1 DEF ForkMonitor, Goto
<1>2. CASE TestKeepRunning
  BY <1>2 DEF TestKeepRunning, Goto
<1>3. CASE TestEnable
  BY <1>3 DEF TestEnable, Goto
<1>4. CASE EnterCycle
  BY <1>4 DEF EnterCycle, Goto
<1>5. CASE FinishCycle
  BY <1>5 DEF FinishCycle, Goto
<1>6. CASE ThrowInCycle
  BY <1>6 DEF ThrowInCycle, Goto
<1>7. CASE AfterCycle
  BY <1>7 DEF AfterCycle, Goto
<1>8. CASE EnterIdle
  <2>1. sleepLeft' \in 0..SleepTicks
    BY <1>8 DEF EnterIdle
  <2> QED
    BY <1>8, <2>1 DEF EnterIdle, Goto
<1>9. CASE SleepTick
  BY <1>9 DEF SleepTick, StaysAsleep
<1>10. CASE WakeUp
  BY <1>10 DEF WakeUp, Goto
<1>11. ASSUME NEW c \in Callers, Caller(c) PROVE TypeOK'
  <2>1. CASE StartMonitoring(c)
    <3>1. stray' \in 0..2
      BY <2>1 DEF StartMonitoring
    <3> QED
      BY <2>1, <3>1 DEF StartMonitoring
  <2>2. CASE StopMonitoring(c)
    BY <2>2 DEF StopMonitoring
  <2>3. CASE PauseMonitoring(c)
    <3>1. budget' \in [Callers -> 0..Budget]
      BY <2>3 DEF PauseMonitoring, Block
    <3> QED
      BY <2>3, <3>1 DEF PauseMonitoring, Block
  <2>4. CASE PauseWaits(c)
    BY <2>4 DEF PauseWaits, WaitTick
  <2>5. CASE PauseReturns(c)
    BY <2>5 DEF PauseReturns, Unblock
  <2>6. CASE StopRunning(c)
    <3>1. budget' \in [Callers -> 0..Budget]
      BY <2>6 DEF StopRunning, Block
    <3> QED
      BY <2>6, <3>1 DEF StopRunning, Block
  <2>7. CASE WaitForStopWaits(c)
    BY <2>7 DEF WaitForStopWaits, WaitTick
  <2>8. CASE WaitForStopReturns(c)
    BY <2>8 DEF WaitForStopReturns, Unblock
  <2> QED
    BY <1>11, <2>1, <2>2, <2>3, <2>4, <2>5, <2>6, <2>7, <2>8 DEF Caller
<1>12. CASE UNCHANGED vars
  BY <1>12 DEF vars
<1> QED
  BY <1>1, <1>2, <1>3, <1>4, <1>5, <1>6, <1>7, <1>8, <1>9, <1>10, <1>11, <1>12
     DEF Next, MonitorThread

\* The variables keep the types their C++ declarations and program points give.
THEOREM TypeCorrect == Spec => []TypeOK
<1>1. ASSUME Init PROVE TypeOK
  <2>1. sleepLeft \in 0..SleepTicks /\ stray \in 0..2
    BY <1>1, DetectorMonitorAssumption DEF Init
  <2>2. budget \in [Callers -> 0..Budget]
    BY <1>1, BudgetIsNat DEF Init
  <2> QED
    BY <1>1, <2>1, <2>2 DEF Init, TypeOK
<1> QED
  BY <1>1, TypeStep, PTL DEF Spec

-----------------------------------------------------------------------------
(* A completed wait means that the thread has ended.                       *)

\* The thread does not come back: the two program points without a successor.
LEMMA ReadyIsStable == FutureReady /\ [Next]_vars => FutureReady'
<1> SUFFICES ASSUME FutureReady, [Next]_vars PROVE monPc' = monPc
  BY DEF FutureReady
<1>1. CASE ForkMonitor \/ MonitorThread
  BY <1>1 DEF FutureReady, ForkMonitor, MonitorThread, TestKeepRunning, TestEnable,
     EnterCycle, FinishCycle, ThrowInCycle, AfterCycle, EnterIdle, SleepTick, WakeUp, Goto
<1>2. ASSUME NEW c \in Callers, Caller(c) PROVE monPc' = monPc
  BY <1>2 DEF Caller, StartMonitoring, StopMonitoring, PauseMonitoring, PauseWaits,
     PauseReturns, StopRunning, WaitForStopWaits, WaitForStopReturns, WaitTick, Unblock,
     Block, thread
<1>3. CASE UNCHANGED vars
  BY <1>3 DEF vars, thread
<1> QED
  BY <1>1, <1>2, <1>3 DEF Next

\* A waitForMonitorToStop that returns normally has seen the future ready, and
\* ready it stays: Destroy may delete what the thread was using.
LEMMA CompletedStep == TypeOK /\ CompletedMeansDone /\ [Next]_vars => CompletedMeansDone'
<1> SUFFICES ASSUME TypeOK, CompletedMeansDone, [Next]_vars,
                    NEW d \in Callers, outcome'[d] = "completed"
             PROVE  FutureReady'
  BY DEF CompletedMeansDone
<1>1. CASE outcome[d] = "completed"
  BY <1>1, ReadyIsStable DEF CompletedMeansDone
<1>2. CASE outcome[d] # "completed"
  <2>1. ASSUME ForkMonitor \/ MonitorThread \/ UNCHANGED vars PROVE outcome' = outcome
    BY <2>1 DEF ForkMonitor, MonitorThread, TestKeepRunning, TestEnable, EnterCycle,
       FinishCycle, ThrowInCycle, AfterCycle, EnterIdle, SleepTick, WakeUp, callers, vars
  <2>2. PICK c \in Callers : Caller(c)
    BY <1>2, <2>1 DEF Next
  <2>3. ASSUME ~WaitForStopReturns(c) PROVE outcome'[d] \in {outcome[d], "none", "paused", "failed"}
    BY <2>2, <2>3 DEF TypeOK, Caller, StartMonitoring, StopMonitoring, PauseMonitoring,
       PauseWaits, PauseReturns, StopRunning, WaitForStopWaits, WaitTick, Unblock, Block, callers
  <2>4. WaitForStopReturns(c)
    BY <1>2, <2>3
  <2>5. FutureReady /\ UNCHANGED monPc
    BY <1>2, <2>4 DEF WaitForStopReturns, Unblock, TypeOK, thread
  <2> QED
    BY <2>5 DEF FutureReady
<1> QED
  BY <1>1, <1>2

\* The promise of waitForMonitorToStop to SystemController::Destroy.
THEOREM CompletedWaits == Spec => []CompletedMeansDone
<1>1. Init => CompletedMeansDone
  BY DEF Init, CompletedMeansDone
<1> QED
  BY <1>1, TypeCorrect, CompletedStep, PTL DEF Spec

-----------------------------------------------------------------------------
(* What is left of a measurement once a pause is in force.                 *)

\* The strengthening: a pause in force keeps the monitor disabled, so that no
\* test succeeds any more, and the one that had succeeded is the stray cycle.
PauseInv ==
  paused => /\ ~fEnableMonitor
            /\ stray <= 1
            /\ monPc = "enter" => stray = 0

\* No step of the thread or of a caller breaks the link between a pause and a stray cycle.
LEMMA PauseStep == TypeOK /\ PauseInv /\ [Next]_vars => PauseInv'
<1> SUFFICES ASSUME TypeOK, PauseInv, [Next]_vars PROVE PauseInv'
  OBVIOUS
<1> USE DEF PauseInv, TypeOK
<1>1. CASE TestEnable
  BY <1>1 DEF TestEnable, Goto, flags, history
<1>2. CASE EnterCycle
  <2>1. monPc = "enter" /\ monPc' = "measuring" /\ paused' = paused /\ UNCHANGED fEnableMonitor
    BY <1>2 DEF EnterCycle, Goto
  <2>2. paused => stray' = 1
    BY <1>2, <2>1 DEF EnterCycle
  <2> QED
    BY <2>1, <2>2
<1>3. ASSUME \/ ForkMonitor \/ TestKeepRunning \/ FinishCycle \/ ThrowInCycle
             \/ AfterCycle \/ EnterIdle \/ SleepTick \/ WakeUp
      PROVE  PauseInv'
  <2>1. UNCHANGED <<fEnableMonitor, paused, stray>> /\ (monPc' = "enter" => monPc = "enter")
    BY <1>3 DEF ForkMonitor, TestKeepRunning, FinishCycle, ThrowInCycle, AfterCycle,
       EnterIdle, SleepTick, WakeUp, Goto, flags, history
  <2> QED
    BY <2>1
<1>4. ASSUME NEW c \in Callers, Caller(c) PROVE PauseInv'
  <2>1. UNCHANGED monPc
    BY <1>4 DEF Caller, StartMonitoring, StopMonitoring, PauseMonitoring, PauseWaits,
       PauseReturns, StopRunning, WaitForStopWaits, WaitForStopReturns, WaitTick, Unblock,
       Block, thread
  <2>2. CASE StartMonitoring(c)
    BY <2>2 DEF StartMonitoring
  <2>3. CASE PauseReturns(c)
    <3>1. fEnableMonitor' = fEnableMonitor
      BY <2>3 DEF PauseReturns, Unblock, flags
    <3>2. CASE paused
      BY <2>1, <2>3, <3>1, <3>2 DEF PauseReturns
    <3>3. CASE ~paused
      BY <2>1, <2>3, <3>1, <3>3 DEF PauseReturns
    <3> QED
      BY <3>2, <3>3
  <2>4. ASSUME \/ StopMonitoring(c) \/ PauseMonitoring(c) \/ PauseWaits(c) \/ StopRunning(c)
               \/ WaitForStopWaits(c) \/ WaitForStopReturns(c)
        PROVE  PauseInv'
    <3>1. UNCHANGED <<paused, stray>> /\ fEnableMonitor' \in {fEnableMonitor, FALSE}
      BY <2>4 DEF StopMonitoring, PauseMonitoring, PauseWaits, StopRunning, WaitForStopWaits,
         WaitForStopReturns, WaitTick, Unblock, Block, flags, history
    <3> QED
      BY <2>1, <3>1
  <2> QED
    BY <1>4, <2>2, <2>3, <2>4 DEF Caller
<1>5. CASE UNCHANGED vars
  BY <1>5 DEF vars, flags, thread, history
<1> QED
  BY <1>1, <1>2, <1>3, <1>4, <1>5 DEF Next, MonitorThread

\* A pause in force lets at most the one cycle begin whose test came before it.
THEOREM OneStrayCycle == Spec => []AtMostOneStrayCycle
<1>1. Init => PauseInv
  BY DEF Init, PauseInv
<1>2. PauseInv => AtMostOneStrayCycle
  BY DEF PauseInv, AtMostOneStrayCycle
<1> QED
  BY <1>1, <1>2, TypeCorrect, PauseStep, PTL DEF Spec

-----------------------------------------------------------------------------
(* A monitor whose thread has died.                                        *)

\* The strengthening: fIsMonitorRunning is set throughout a cycle, and an
\* exception leaves it set.
CycleInv == monPc \in {"measuring", "measured", "threw"} => fIsMonitorRunning

\* fIsMonitorRunning stays set from the first cycle on until the thread is idle again.
LEMMA CycleStep == CycleInv /\ [Next]_vars => CycleInv'
<1> SUFFICES ASSUME CycleInv, [Next]_vars PROVE CycleInv'
  OBVIOUS
<1> USE DEF CycleInv
<1>1. CASE ForkMonitor \/ MonitorThread
  BY <1>1 DEF ForkMonitor, MonitorThread, TestKeepRunning, TestEnable, EnterCycle,
     FinishCycle, ThrowInCycle, AfterCycle, EnterIdle, SleepTick, WakeUp, Goto, flags
<1>2. ASSUME NEW c \in Callers, Caller(c) PROVE CycleInv'
  <2>1. UNCHANGED <<monPc, fIsMonitorRunning>>
    BY <1>2 DEF Caller, StartMonitoring, StopMonitoring, PauseMonitoring, PauseWaits,
       PauseReturns, StopRunning, WaitForStopWaits, WaitForStopReturns, WaitTick, Unblock,
       Block, flags, thread
  <2> QED
    BY <2>1
<1>3. CASE UNCHANGED vars
  BY <1>3 DEF vars, flags, thread
<1> QED
  BY <1>1, <1>2, <1>3 DEF Next

\* The action property for one step.
LEMMA DeadMonitorStep ==
  ASSUME TypeOK, CycleInv, [Next]_vars,
         NEW d \in Callers, monPc = "threw", call[d] = "pause", call'[d] = "none"
  PROVE  outcome'[d] = "failed"
<1>1. ASSUME ForkMonitor \/ MonitorThread \/ UNCHANGED vars PROVE call' = call
  BY <1>1 DEF ForkMonitor, MonitorThread, TestKeepRunning, TestEnable, EnterCycle,
     FinishCycle, ThrowInCycle, AfterCycle, EnterIdle, SleepTick, WakeUp, callers, vars
<1>2. PICK c \in Callers : Caller(c)
  BY <1>1 DEF Next
<1>3. ASSUME ~PauseReturns(c) PROVE FALSE
  BY <1>2, <1>3 DEF TypeOK, Caller, Free, StartMonitoring, StopMonitoring, PauseMonitoring,
     PauseWaits, StopRunning, WaitForStopWaits, WaitForStopReturns, WaitTick, Unblock,
     Block, callers
<1>4. PauseReturns(c)
  BY <1>3
<1>5. c = d
  BY <1>4 DEF PauseReturns, Unblock, TypeOK
<1>6. ~(budget[d] > 0)
  BY <1>4, <1>5 DEF PauseReturns, CycleInv
<1> QED
  BY <1>4, <1>5, <1>6 DEF PauseReturns, Unblock, TypeOK

\* After an exception in a measurement no pauseMonitoring returns normally.
THEOREM DeadMonitorFailsPauses == Spec => DeadMonitorNeverPauses
<1>1. Init => CycleInv
  BY DEF Init, CycleInv
<1>2. TypeOK /\ CycleInv /\ [Next]_vars =>
        [\A c \in Callers : (monPc = "threw" /\ call[c] = "pause" /\ call'[c] = "none")
            => outcome'[c] = "failed"]_vars
  BY DeadMonitorStep
<1> QED
  BY <1>1, <1>2, TypeCorrect, CycleStep, PTL DEF Spec, DeadMonitorNeverPauses

-----------------------------------------------------------------------------
(* What is known of a thread between two steps of its method.              *)

\* One board; with several, setBoard without a lock breaks RightBoard.
OneBoard == Boards # {} /\ \A b, c \in Boards : b = c

\* ReadChipReg gives up only after more attempts than the link may lose.
ReplyInTime == MaxLosses < MaxAttempts

\* One thread runs calibrations.
OneRun == \A r, s \in RunThreads : r = s

\* depth: how many guards the thread has; known: the objects that it has set;
\* phase: how far a measurement, or the writing of a route, has come; word: the
\* read under way, of register reg, at which attempt.
Labels == [depth : 0 .. 4, known : SUBSET Objects,
           phase : {"none", "written", "saved", "selected", "converted"},
           word : {"none", "waiting", "replied", "read"},
           reg : Registers, attempt : 1 .. MaxAttempts]

Label(d, k, h, w, r, n) ==
  [depth |-> d, known |-> k, phase |-> h, word |-> w, reg |-> r, attempt |-> n]

Steps ==
  [do : {"test", "assign", "remember", "lock", "tryLock", "call", "drain", "convert"},
   on : Objects, board : Boards]
    \cup [do : {"unlock", "save", "answer"}]
    \cup [do : {"request", "retry"}, on : {"chip"}, board : Boards, reg : Registers,
          attempt : 1 .. MaxAttempts]
    \cup [do : {"write"}, on : {"chip"}, board : Boards, reg : Registers,
          value : Observables \cup Routes \cup {Off, Saved}]

\* The method a thread may be in.
Legal(t, m) ==
  /\ m \in Methods
  /\ m.name = "monitor" => t \in MonitorThreads
  /\ m.name \in {"adc", "write"} => t \in RunThreads

\* A measurement of the monitoring thread is under guards, one of a calibration
\* is not.
Fits(t, m, p) ==
  /\ p.phase = "written" => m.name = "write"
  /\ p.phase \in {"saved", "selected", "converted"} => m.name \in {"adc", "monitor"}
  /\ p.phase # "none" /\ t \in MonitorThreads => p.depth > 0
  /\ p.word = "waiting" => p.depth > 0

\* What writing value v to register r makes of phase h.
Writes(m, r, v, h, g) ==
  \/ r = "MonitorConfig" /\ m.name \in {"adc", "monitor"} /\ v = m.wanted
     /\ h = "saved" /\ g = "selected"
  \/ r = "MonitorConfig" /\ v = Off /\ h = "converted" /\ g = "converted"
  \/ r = "GlobalPulseConf" /\ m.name = "write" /\ v = m.wanted /\ h = "none" /\ g = "written"
  \/ r = "GlobalPulseConf" /\ v = Saved /\ h = "converted" /\ g = "none"

\* An answer is the ADC value or the route that was written.
Answers(m, p) ==
  /\ p.word = "read"
  /\ m.name = "monitor" => p.phase = "converted" /\ p.reg = "MonitoringDataADC"
  /\ m.name = "write" => p.phase = "written" /\ p.reg = "GlobalPulseConf"

\* Who takes a first guard has not read under it.
Kept(d, w) == IF d = 0 THEN "none" ELSE w

\* Step s of method m leads from p to q.
Leads(t, m, s, p, q) ==
  /\ s \in Steps /\ p \in Labels /\ q \in Labels /\ Fits(t, m, p) /\ Fits(t, m, q)
  /\ \/ /\ s.do \in {"test", "assign"}
        /\ q = [p EXCEPT !.known = q.known] /\ q.known \subseteq p.known \cup {s.on}
     \/ /\ s.do = "remember" /\ s.on \in p.known
        /\ q = [p EXCEPT !.known = q.known] /\ q.known \subseteq p.known
     \/ /\ s.do = "lock" /\ s.on \in p.known
        /\ q = Label(p.depth + 1, p.known, p.phase, Kept(p.depth, p.word), p.reg, p.attempt)
     \/ /\ s.do = "tryLock" /\ s.on \in p.known /\ p.depth = 0 /\ p.phase = "none"
        /\ q = Label(1, p.known, p.phase, "none", p.reg, p.attempt)
     \/ /\ s.do = "unlock" /\ p.depth > 0 /\ p.word # "waiting"
        /\ q = [p EXCEPT !.depth = @ - 1]
     \/ /\ s.do = "call" /\ s.on \in p.known
        /\ q = p
     \/ /\ s.do = "request" /\ s.on \in p.known /\ p.depth > 0 /\ p.word # "waiting"
        /\ q = Label(p.depth, p.known, p.phase, "waiting", s.reg, s.attempt)
     \/ /\ s.do = "drain" /\ s.on \in p.known /\ p.word = "waiting"
        /\ q = [p EXCEPT !.word = "replied"]
     \/ /\ s.do = "retry" /\ s.on \in p.known /\ p.depth \in 1 .. 3 /\ p.word = "replied"
        /\ s.reg = p.reg /\ s.attempt = p.attempt
        /\ q = Label(p.depth, {"chip"}, p.phase, "read", p.reg, 1)
     \/ /\ s.do = "write" /\ s.on \in p.known /\ p.depth > 0 /\ p.word # "waiting"
        /\ Writes(m, s.reg, s.value, p.phase, q.phase)
        /\ q = Label(p.depth, p.known, q.phase, "none", p.reg, p.attempt)
     \/ /\ s.do = "convert" /\ s.on \in p.known /\ p.phase = "selected" /\ p.word # "waiting"
        /\ q = Label(p.depth, p.known, "converted", "none", p.reg, p.attempt)
     \/ /\ s.do = "save" /\ p.phase = "none" /\ p.word = "read" /\ p.reg = "GlobalPulseConf"
        /\ q = [p EXCEPT !.phase = "saved"]
     \/ /\ s.do = "answer" /\ Answers(m, p)
        /\ q = p

\* The steps of s lead from p to q, one after the other.
Runs(t, m, s, p, q) ==
  /\ s \in Seq(Steps)
  /\ \E f \in [0 .. Len(s) -> Labels] :
       /\ f[0] = p /\ f[Len(s)] = q
       /\ \A i \in 1 .. Len(s) : Leads(t, m, s[i], f[i - 1], f[i])

-----------------------------------------------------------------------------
(* Sequences of steps.                                                     *)

\* No step leads nowhere.
LEMMA RunsNothing ==
  ASSUME NEW t, NEW m, NEW p \in Labels, NEW q
  PROVE  Runs(t, m, << >>, p, q) <=> p = q
<1>1. << >> \in Seq(Steps) /\ Len(<< >>) = 0
  OBVIOUS
<1>2. ASSUME p = q PROVE Runs(t, m, << >>, p, q)
  <2> DEFINE f == [i \in 0 .. 0 |-> p]
  <2>1. f \in [0 .. Len(<< >>) -> Labels] /\ f[0] = p /\ f[Len(<< >>)] = q
    BY <1>1, <1>2
  <2> HIDE DEF f
  <2> QED
    BY <1>1, <2>1 DEF Runs
<1>3. ASSUME Runs(t, m, << >>, p, q) PROVE p = q
  BY <1>1, <1>3 DEF Runs
<1> QED
  BY <1>2, <1>3

\* One step.
LEMMA RunsStep ==
  ASSUME NEW t, NEW m, NEW s, NEW p, NEW q, Leads(t, m, s, p, q)
  PROVE  Runs(t, m, <<s>>, p, q)
<1>1. s \in Steps /\ p \in Labels /\ q \in Labels
  BY DEF Leads
<1>2. <<s>> \in Seq(Steps) /\ Len(<<s>>) = 1 /\ <<s>>[1] = s
  BY <1>1
<1> DEFINE f == [i \in 0 .. 1 |-> IF i = 0 THEN p ELSE q]
<1>3. f \in [0 .. Len(<<s>>) -> Labels] /\ f[0] = p /\ f[1] = q
  BY <1>1, <1>2
<1> HIDE DEF f
<1>4. \A i \in 1 .. Len(<<s>>) : Leads(t, m, <<s>>[i], f[i - 1], f[i])
  BY <1>2, <1>3
<1> QED
  BY <1>2, <1>3, <1>4 DEF Runs

\* One sequence after another.
LEMMA RunsBoth ==
  ASSUME NEW t, NEW m, NEW s, NEW u, NEW p, NEW r, NEW q,
         Runs(t, m, s, p, r), Runs(t, m, u, r, q)
  PROVE  Runs(t, m, s \o u, p, q)
<1>1. s \in Seq(Steps) /\ u \in Seq(Steps)
  BY DEF Runs
<1>2. PICK f \in [0 .. Len(s) -> Labels] :
        /\ f[0] = p /\ f[Len(s)] = r
        /\ \A i \in 1 .. Len(s) : Leads(t, m, s[i], f[i - 1], f[i])
  BY DEF Runs
<1>3. PICK g \in [0 .. Len(u) -> Labels] :
        /\ g[0] = r /\ g[Len(u)] = q
        /\ \A i \in 1 .. Len(u) : Leads(t, m, u[i], g[i - 1], g[i])
  BY DEF Runs
<1>4. /\ s \o u \in Seq(Steps) /\ Len(s \o u) = Len(s) + Len(u)
      /\ \A i \in 1 .. Len(s) : (s \o u)[i] = s[i]
      /\ \A i \in 1 .. Len(u) : (s \o u)[Len(s) + i] = u[i]
  BY <1>1, ConcatProperties
<1>5. Len(s) \in Nat /\ Len(u) \in Nat
  BY <1>1
<1> DEFINE h == [i \in 0 .. Len(s \o u) |-> IF i <= Len(s) THEN f[i] ELSE g[i - Len(s)]]
<1>6. h \in [0 .. Len(s \o u) -> Labels]
  BY <1>2, <1>3, <1>4, <1>5
<1>7. \A i \in 0 .. Len(s) : h[i] = f[i]
  BY <1>4, <1>5
<1>8. \A i \in 0 .. Len(u) : h[Len(s) + i] = g[i]
  BY <1>2, <1>3, <1>4, <1>5
<1> HIDE DEF h
<1>9. h[0] = p /\ h[Len(s \o u)] = q
  BY <1>2, <1>3, <1>4, <1>5, <1>7, <1>8
<1>10. ASSUME NEW i \in 1 .. Len(s \o u) PROVE Leads(t, m, (s \o u)[i], h[i - 1], h[i])
  <2>1. CASE i <= Len(s)
    <3>1. i \in 1 .. Len(s) /\ i - 1 \in 0 .. Len(s) /\ i \in 0 .. Len(s)
      BY <1>4, <1>5, <2>1
    <3> QED
      BY <1>2, <1>4, <1>7, <3>1
  <2>2. CASE i > Len(s)
    <3> DEFINE j == i - Len(s)
    <3>1. j \in 1 .. Len(u) /\ j - 1 \in 0 .. Len(u) /\ j \in 0 .. Len(u)
          /\ i = Len(s) + j /\ i - 1 = Len(s) + (j - 1)
      BY <1>4, <1>5, <2>2
    <3> HIDE DEF j
    <3>2. h[i] = g[j] /\ h[i - 1] = g[j - 1] /\ (s \o u)[i] = u[j]
      BY <1>4, <1>8, <3>1
    <3> QED
      BY <1>3, <3>1, <3>2
  <2> QED
    BY <1>4, <1>5, <2>1, <2>2
<1> QED
  BY <1>4, <1>6, <1>9, <1>10 DEF Runs

\* The first step of a sequence, and the others.
LEMMA RunsFirst ==
  ASSUME NEW t, NEW m, NEW s, NEW p, NEW q, Runs(t, m, s, p, q), s # << >>
  PROVE  /\ Head(s) \in Steps /\ Tail(s) \in Seq(Steps)
         /\ \E r \in Labels : Leads(t, m, Head(s), p, r) /\ Runs(t, m, Tail(s), r, q)
<1>1. s \in Seq(Steps)
  BY DEF Runs
<1>2. /\ Head(s) \in Steps /\ Head(s) = s[1] /\ Tail(s) \in Seq(Steps)
      /\ Len(s) \in Nat \ {0} /\ Len(Tail(s)) = Len(s) - 1
      /\ \A i \in 1 .. Len(Tail(s)) : Tail(s)[i] = s[i + 1]
  BY <1>1
<1>3. PICK f \in [0 .. Len(s) -> Labels] :
        /\ f[0] = p /\ f[Len(s)] = q
        /\ \A i \in 1 .. Len(s) : Leads(t, m, s[i], f[i - 1], f[i])
  BY DEF Runs
<1> DEFINE g == [i \in 0 .. Len(Tail(s)) |-> f[i + 1]]
<1>4. g \in [0 .. Len(Tail(s)) -> Labels]
  BY <1>2
<1>5. \A i \in 0 .. Len(Tail(s)) : g[i] = f[i + 1]
  OBVIOUS
<1> HIDE DEF g
<1>6. g[0] = f[1] /\ g[Len(Tail(s))] = q
  BY <1>2, <1>3, <1>5
<1>7. ASSUME NEW i \in 1 .. Len(Tail(s)) PROVE Leads(t, m, Tail(s)[i], g[i - 1], g[i])
  <2>1. i + 1 \in 1 .. Len(s) /\ (i + 1) - 1 = i /\ i - 1 \in 0 .. Len(Tail(s))
        /\ i \in 0 .. Len(Tail(s)) /\ (i - 1) + 1 = i
    BY <1>2
  <2>2. Leads(t, m, s[i + 1], f[i], f[i + 1])
    BY <1>3, <2>1
  <2> QED
    BY <1>2, <1>5, <2>1, <2>2
<1>8. Runs(t, m, Tail(s), f[1], q)
  BY <1>2, <1>4, <1>6, <1>7 DEF Runs
<1>9. 1 \in 1 .. Len(s) /\ 1 \in 0 .. Len(s) /\ 1 - 1 = 0
  BY <1>2
<1>10. Leads(t, m, Head(s), p, f[1]) /\ f[1] \in Labels
  BY <1>2, <1>3, <1>9
<1> QED
  BY <1>2, <1>8, <1>10

-----------------------------------------------------------------------------
(* The methods.                                                            *)

\* Two steps in a row.
LEMMA RunsTwo ==
  ASSUME NEW t, NEW m, NEW s, NEW u, NEW p, NEW r, NEW q,
         Leads(t, m, s, p, r), Leads(t, m, u, r, q)
  PROVE  Runs(t, m, <<s, u>>, p, q)
<1>1. s \in Steps /\ u \in Steps /\ p \in Labels /\ r \in Labels /\ q \in Labels
  BY DEF Leads
<1>2. <<s, u>> \in Seq(Steps) /\ Len(<<s, u>>) = 2 /\ <<s, u>>[1] = s /\ <<s, u>>[2] = u
  BY <1>1
<1> DEFINE f == [i \in 0 .. 2 |-> IF i = 0 THEN p ELSE IF i = 1 THEN r ELSE q]
<1>3. f \in [0 .. Len(<<s, u>>) -> Labels] /\ f[0] = p /\ f[1] = r /\ f[2] = q
  BY <1>1, <1>2
<1> HIDE DEF f
<1>4. ASSUME NEW i \in 1 .. Len(<<s, u>>) PROVE Leads(t, m, <<s, u>>[i], f[i - 1], f[i])
  <2>1. CASE i = 1
    <3>1. i - 1 = 0
      BY <2>1
    <3> QED
      BY <1>2, <1>3, <2>1, <3>1
  <2>2. CASE i = 2
    <3>1. i - 1 = 1
      BY <2>2
    <3> QED
      BY <1>2, <1>3, <2>2, <3>1
  <2> QED
    BY <1>2, <2>1, <2>2
<1> QED
  BY <1>2, <1>3, <1>4 DEF Runs

\* A label is made of its parts.
LEMMA LabelParts ==
  ASSUME NEW d \in 0 .. 4, NEW k \in SUBSET Objects,
         NEW h \in {"none", "written", "saved", "selected", "converted"},
         NEW w \in {"none", "waiting", "replied", "read"},
         NEW r \in Registers, NEW n \in 1 .. MaxAttempts
  PROVE  Label(d, k, h, w, r, n) \in Labels
BY DEF Label, Labels

\* A label has parts.
LEMMA PartsLabel ==
  ASSUME NEW p \in Labels
  PROVE  p = Label(p.depth, p.known, p.phase, p.word, p.reg, p.attempt)
BY DEF Label, Labels

\* The assignments of setBoard set the object.
LEMMA AssignmentsRun ==
  ASSUME NEW t, NEW m, NEW b \in Boards, NEW i \in Objects, NEW p \in Labels, NEW q \in Labels,
         Fits(t, m, p), Fits(t, m, q),
         q = [p EXCEPT !.known = q.known], q.known \subseteq p.known \cup {i}
  PROVE  Runs(t, m, Assignments(i, b), p, q)
<1> DEFINE s == [do |-> "assign", on |-> i, board |-> b]
           u == [do |-> "remember", on |-> i, board |-> b]
           r == [p EXCEPT !.known = @ \cup {i}]
<1>1. s \in Steps /\ u \in Steps
  BY DEF Steps
<1>2. r \in Labels /\ i \in r.known /\ r.known = p.known \cup {i}
  BY DEF Labels
<1>3. Fits(t, m, r)
  BY DEF Fits, Labels
<1>4. q = [r EXCEPT !.known = q.known] /\ r = [p EXCEPT !.known = r.known]
  BY <1>2 DEF Labels
<1> HIDE DEF r
<1>5. Leads(t, m, s, p, r)
  BY <1>1, <1>2, <1>3, <1>4 DEF Leads
<1>6. Leads(t, m, u, r, q)
  BY <1>1, <1>2, <1>3, <1>4 DEF Leads
<1>7. Runs(t, m, <<s, u>>, p, q)
  <2> HIDE DEF s, u
  <2> QED
    BY <1>5, <1>6, RunsTwo
<1> QED
  BY <1>7 DEF Assignments

\* What lemmas about methods assume of a label.
Sound(t, m, d, k, h, w, r, n) ==
  Label(d, k, h, w, r, n) \in Labels /\ Fits(t, m, Label(d, k, h, w, r, n))

\* setBoard: the object is set.
LEMMA SetBoardRuns ==
  ASSUME NEW t, NEW m, NEW b \in Boards, NEW i \in Objects,
         NEW d, NEW k, NEW h, NEW w, NEW r, NEW n, Sound(t, m, d, k, h, w, r, n)
  PROVE  /\ Sound(t, m, d, {i}, h, w, r, n)
         /\ Runs(t, m, SetBoard(i, b), Label(d, k, h, w, r, n), Label(d, {i}, h, w, r, n))
<1> DEFINE s == [do |-> "test", on |-> i, board |-> b]
<1>1. s \in Steps
  BY DEF Steps
<1>2. Sound(t, m, d, {i}, h, w, r, n)
  BY DEF Sound, Label, Labels, Fits
<1>3. Leads(t, m, s, Label(d, k, h, w, r, n), Label(d, {i}, h, w, r, n))
  BY <1>1, <1>2 DEF Leads, Sound, Label
<1> QED
  BY <1>2, <1>3, RunsStep DEF SetBoard

\* A guard more.
LEMMA EnterRuns ==
  ASSUME NEW t, NEW m, NEW b \in Boards, NEW i \in Objects,
         NEW d \in 0 .. 3, NEW e, e = d + 1, NEW k, NEW h, NEW w, NEW r, NEW n,
         Sound(t, m, d, k, h, w, r, n), NEW y, y = Kept(d, w)
  PROVE  /\ Sound(t, m, e, {i}, h, y, r, n)
         /\ Runs(t, m, Enter(i, b), Label(d, k, h, w, r, n), Label(e, {i}, h, y, r, n))
<1> DEFINE s == [do |-> "lock", on |-> i, board |-> b]
           c == {i}
           p == Label(d, c, h, w, r, n)
           q == Label(e, c, h, y, r, n)
<1>1. s \in Steps
  BY DEF Steps
<1>2. Sound(t, m, d, c, h, w, r, n) /\ Runs(t, m, SetBoard(i, b), Label(d, k, h, w, r, n), p)
  BY SetBoardRuns
<1>3. Sound(t, m, e, c, h, y, r, n)
  BY <1>2 DEF Sound, Label, Labels, Fits, Kept
<1>4. Leads(t, m, s, p, q)
  <2>1. /\ q = Label(p.depth + 1, p.known, p.phase, Kept(p.depth, p.word), p.reg, p.attempt)
        /\ p.known = c
    BY DEF Label
  <2>2. p \in Labels /\ q \in Labels /\ Fits(t, m, p) /\ Fits(t, m, q)
    BY <1>2, <1>3 DEF Sound
  <2>3. i \in c
    OBVIOUS
  <2> HIDE DEF p, q, c
  <2> QED
    BY <1>1, <2>1, <2>2, <2>3 DEF Leads
<1>5. Runs(t, m, Lock(i, b), p, q)
  BY <1>4, RunsStep DEF Lock
<1> HIDE DEF p, q, c
<1>6. Runs(t, m, Enter(i, b), Label(d, k, h, w, r, n), q)
  BY <1>2, <1>5, RunsBoth DEF Enter
<1> QED
  BY <1>3, <1>6 DEF q, c

\* A guard less.
LEMMA UnlockRuns ==
  ASSUME NEW t, NEW m, NEW d \in 0 .. 3, NEW e, e = d + 1, NEW k, NEW h, NEW w, NEW r, NEW n,
         Sound(t, m, e, k, h, w, r, n), w # "waiting",
         d = 0 /\ t \in MonitorThreads => h = "none"
  PROVE  /\ Sound(t, m, d, k, h, w, r, n)
         /\ Runs(t, m, Unlock, Label(e, k, h, w, r, n), Label(d, k, h, w, r, n))
<1> DEFINE s == [do |-> "unlock"]
<1>1. s \in Steps
  BY DEF Steps
<1>2. Sound(t, m, d, k, h, w, r, n)
  BY DEF Sound, Label, Labels, Fits
<1>3. e - 1 = d /\ e > 0
  OBVIOUS
<1>4. Leads(t, m, s, Label(e, k, h, w, r, n), Label(d, k, h, w, r, n))
  BY <1>1, <1>2, <1>3 DEF Leads, Sound, Label
<1> QED
  BY <1>2, <1>4, RunsStep DEF Unlock

\* An attempt reads the register: what it returns, or its retry.
LEMMA AttemptRuns ==
  ASSUME NEW t, NEW m, NEW b \in Boards, NEW d \in 1 .. 3, NEW k, NEW h, NEW w, NEW r, NEW n,
         Sound(t, m, d, k, h, w, r, n), w # "waiting",
         NEW x \in Registers, NEW a \in 1 .. MaxAttempts
  PROVE  /\ Sound(t, m, d, {"chip"}, h, "read", x, 1)
         /\ Runs(t, m, Attempt(b, x, a), Label(d, k, h, w, r, n),
                 Label(d, {"chip"}, h, "read", x, 1))
<1> DEFINE s1 == [do |-> "request", on |-> "chip", board |-> b, reg |-> x, attempt |-> a]
           s2 == [do |-> "drain", on |-> "chip", board |-> b]
           s3 == [do |-> "retry", on |-> "chip", board |-> b, reg |-> x, attempt |-> a]
           c == {"chip"}
<1>1. s1 \in Steps /\ s2 \in Steps /\ s3 \in Steps /\ "chip" \in Objects
  BY DEF Steps, Objects
<1>2. /\ Sound(t, m, d + 1, c, h, w, r, n)
      /\ Runs(t, m, Enter("chip", b), Label(d, k, h, w, r, n), Label(d + 1, c, h, w, r, n))
  <2>1. d \in 0 .. 3 /\ w = Kept(d, w)
    BY DEF Kept
  <2> QED
    BY <1>1, <2>1, EnterRuns
<1>3. 1 \in 1 .. MaxAttempts
  BY AccessAssumption
<1>4. /\ Sound(t, m, d + 1, c, h, "waiting", x, a) /\ Sound(t, m, d + 1, c, h, "replied", x, a)
      /\ Sound(t, m, d, c, h, "replied", x, a) /\ Sound(t, m, d, c, h, "read", x, 1)
  BY <1>2, <1>3 DEF Sound, Label, Labels, Fits
<1>5. Leads(t, m, s1, Label(d + 1, c, h, w, r, n), Label(d + 1, c, h, "waiting", x, a))
  <2> DEFINE p == Label(d + 1, c, h, w, r, n)
             q == Label(d + 1, c, h, "waiting", x, a)
  <2>1. /\ q = Label(p.depth, p.known, p.phase, "waiting", x, a)
        /\ p.known = c /\ p.depth = d + 1 /\ p.word = w
    <3> HIDE DEF c
    <3> QED
      BY DEF Label
  <2>2. p \in Labels /\ q \in Labels /\ Fits(t, m, p) /\ Fits(t, m, q)
    BY <1>2, <1>4 DEF Sound
  <2> HIDE DEF p, q
  <2>3. p.depth > 0
    BY <2>1
  <2>4. Leads(t, m, s1, p, q)
    BY <1>1, <2>1, <2>2, <2>3 DEF Leads
  <2> QED
    BY <2>4 DEF p, q
<1>6. Leads(t, m, s2, Label(d + 1, c, h, "waiting", x, a), Label(d + 1, c, h, "replied", x, a))
  <2> DEFINE p == Label(d + 1, c, h, "waiting", x, a)
             q == Label(d + 1, c, h, "replied", x, a)
  <2>1. q = [p EXCEPT !.word = "replied"] /\ p.known = {"chip"} /\ p.word = "waiting"
    BY DEF Label
  <2>2. p \in Labels /\ q \in Labels /\ Fits(t, m, p) /\ Fits(t, m, q)
    BY <1>4 DEF Sound
  <2> HIDE DEF p, q
  <2>3. Leads(t, m, s2, p, q)
    BY <1>1, <2>1, <2>2 DEF Leads
  <2> QED
    BY <2>3 DEF p, q
<1>7. Runs(t, m, Unlock, Label(d + 1, c, h, "replied", x, a), Label(d, c, h, "replied", x, a))
  <2> DEFINE e == d + 1
             z == "replied"
  <2>1. /\ d \in 0 .. 3 /\ e = d + 1 /\ z # "waiting" /\ Sound(t, m, e, c, h, z, x, a)
        /\ ~(d = 0 /\ t \in MonitorThreads)
    BY <1>4
  <2> HIDE DEF e, z, c
  <2>2. Runs(t, m, Unlock, Label(e, c, h, z, x, a), Label(d, c, h, z, x, a))
    BY <2>1, UnlockRuns
  <2> QED
    BY <2>2 DEF e, z
<1>8. Leads(t, m, s3, Label(d, c, h, "replied", x, a), Label(d, c, h, "read", x, 1))
  <2> DEFINE p == Label(d, c, h, "replied", x, a)
             q == Label(d, c, h, "read", x, 1)
  <2>1. /\ q = Label(p.depth, c, p.phase, "read", x, 1)
        /\ p.known = c /\ p.depth = d /\ p.word = "replied"
        /\ p.reg = x /\ p.attempt = a
    <3> HIDE DEF c
    <3> QED
      BY DEF Label
  <2>2. p \in Labels /\ q \in Labels /\ Fits(t, m, p) /\ Fits(t, m, q)
    BY <1>4 DEF Sound
  <2> HIDE DEF p, q
  <2>3. Leads(t, m, s3, p, q)
    BY <1>1, <2>1, <2>2 DEF Leads
  <2> QED
    BY <2>3 DEF p, q
<1>9. Runs(t, m, <<s1, s2>>, Label(d + 1, c, h, w, r, n), Label(d + 1, c, h, "replied", x, a))
  <2> HIDE DEF s1, s2, c
  <2> QED
    BY <1>5, <1>6, RunsTwo
<1>10. Runs(t, m, Enter("chip", b) \o <<s1, s2>> \o Unlock \o <<s3>>, Label(d, k, h, w, r, n),
            Label(d, c, h, "read", x, 1))
  <2> HIDE DEF s1, s2, s3, c
  <2>1. Runs(t, m, Enter("chip", b) \o <<s1, s2>>, Label(d, k, h, w, r, n),
             Label(d + 1, c, h, "replied", x, a))
    BY <1>2, <1>9, RunsBoth
  <2>2. Runs(t, m, Enter("chip", b) \o <<s1, s2>> \o Unlock, Label(d, k, h, w, r, n),
             Label(d, c, h, "replied", x, a))
    BY <1>7, <2>1, RunsBoth
  <2>3. Runs(t, m, <<s3>>, Label(d, c, h, "replied", x, a), Label(d, c, h, "read", x, 1))
    BY <1>8, RunsStep
  <2> QED
    BY <2>2, <2>3, RunsBoth
<1> QED
  BY <1>4, <1>10 DEF Attempt

\* ReadChipReg
LEMMA ReadRuns ==
  ASSUME NEW t, NEW m, NEW b \in Boards, NEW d \in 0 .. 2, NEW k, NEW h, NEW w, NEW r, NEW n,
         Sound(t, m, d, k, h, w, r, n), w # "waiting", NEW x \in Registers
  PROVE  /\ Sound(t, m, d, {"chip"}, h, "read", x, 1)
         /\ Runs(t, m, ReadChipReg(b, x), Label(d, k, h, w, r, n),
                 Label(d, {"chip"}, h, "read", x, 1))
<1>1. "chip" \in Objects /\ 1 \in 1 .. MaxAttempts
  BY AccessAssumption DEF Objects
<1> DEFINE y == Kept(d, w)
<1>1a. y # "waiting"
  BY DEF Kept
<1> HIDE DEF y
<1>2. /\ Sound(t, m, d + 1, {"chip"}, h, y, r, n)
      /\ Runs(t, m, Enter("chip", b), Label(d, k, h, w, r, n), Label(d + 1, {"chip"}, h, y, r, n))
  <2>1. d \in 0 .. 3 /\ y = Kept(d, w)
    BY DEF y
  <2> QED
    BY <1>1, <2>1, EnterRuns
<1>3. /\ Sound(t, m, d + 1, {"chip"}, h, "read", x, 1)
      /\ Runs(t, m, Attempt(b, x, 1), Label(d + 1, {"chip"}, h, y, r, n),
              Label(d + 1, {"chip"}, h, "read", x, 1))
  <2>1. d + 1 \in 1 .. 3
    OBVIOUS
  <2> DEFINE e == d + 1
  <2>2. e \in 1 .. 3 /\ Sound(t, m, e, {"chip"}, h, y, r, n)
    BY <1>2, <2>1
  <2> HIDE DEF e
  <2>3. /\ Sound(t, m, e, {"chip"}, h, "read", x, 1)
        /\ Runs(t, m, Attempt(b, x, 1), Label(e, {"chip"}, h, y, r, n),
                Label(e, {"chip"}, h, "read", x, 1))
    BY <1>1, <1>1a, <2>2, AttemptRuns
  <2> QED
    BY <2>3 DEF e
<1>4. d = 0 /\ t \in MonitorThreads => h = "none"
  BY DEF Sound, Label, Fits
<1>5. /\ Sound(t, m, d, {"chip"}, h, "read", x, 1)
      /\ Runs(t, m, Unlock, Label(d + 1, {"chip"}, h, "read", x, 1),
              Label(d, {"chip"}, h, "read", x, 1))
  BY <1>3, <1>4, UnlockRuns
<1>6. Runs(t, m, Enter("chip", b) \o Attempt(b, x, 1), Label(d, k, h, w, r, n),
           Label(d + 1, {"chip"}, h, "read", x, 1))
  BY <1>2, <1>3, RunsBoth
<1> QED
  BY <1>5, <1>6, RunsBoth DEF ReadChipReg

\* WriteChipReg, without the readback and with it.
JustWrite(b, r, v) == WriteChipReg(b, r, v, FALSE)

\* WriteChipReg, without and with the readback.
LEMMA WriteRuns ==
  ASSUME NEW t, NEW m, NEW b \in Boards, NEW d \in 0 .. 2, NEW k, NEW h, NEW w, NEW r, NEW n,
         Sound(t, m, d, k, h, w, r, n), w # "waiting", NEW x \in Registers,
         NEW v \in Observables \cup Routes \cup {Off, Saved},
         NEW g \in {"none", "written", "saved", "selected", "converted"},
         Writes(m, x, v, h, g), d = 0 /\ t \in MonitorThreads => g = "none"
  PROVE  /\ Sound(t, m, d, {"chip"}, g, "none", r, n)
         /\ Sound(t, m, d, {"chip"}, g, "read", x, 1)
         /\ Runs(t, m, JustWrite(b, x, v), Label(d, k, h, w, r, n),
                 Label(d, {"chip"}, g, "none", r, n))
         /\ Runs(t, m, WriteChipReg(b, x, v, TRUE), Label(d, k, h, w, r, n),
                 Label(d, {"chip"}, g, "read", x, 1))
<1> DEFINE s == [do |-> "write", on |-> "chip", board |-> b, reg |-> x, value |-> v]
           c == {"chip"}
<1>1. s \in Steps /\ "chip" \in Objects
  BY DEF Steps, Objects
<1> DEFINE y == Kept(d, w)
<1>1a. y # "waiting"
  BY DEF Kept
<1> HIDE DEF y
<1>2. /\ Sound(t, m, d + 1, c, h, y, r, n)
      /\ Runs(t, m, Enter("chip", b), Label(d, k, h, w, r, n), Label(d + 1, c, h, y, r, n))
  <2>1. d \in 0 .. 3 /\ y = Kept(d, w)
    BY DEF y
  <2> QED
    BY <1>1, <2>1, EnterRuns
<1>3. Sound(t, m, d + 1, c, g, "none", r, n)
  BY <1>2 DEF Sound, Label, Labels, Fits, Writes
<1>4. Leads(t, m, s, Label(d + 1, c, h, y, r, n), Label(d + 1, c, g, "none", r, n))
  <2> DEFINE p == Label(d + 1, c, h, y, r, n)
             q == Label(d + 1, c, g, "none", r, n)
  <2>1. /\ q = Label(p.depth, p.known, q.phase, "none", p.reg, p.attempt) /\ p.phase = h /\ q.phase = g
        /\ p.known = c /\ p.depth = d + 1 /\ p.word = y
    <3> HIDE DEF c
    <3> QED
      BY DEF Label
  <2>2. p \in Labels /\ q \in Labels /\ Fits(t, m, p) /\ Fits(t, m, q)
    BY <1>2, <1>3 DEF Sound
  <2> HIDE DEF p, q
  <2>3. p.depth > 0
    BY <2>1
  <2>4. Leads(t, m, s, p, q)
    BY <1>1, <1>1a, <2>1, <2>2, <2>3 DEF Leads
  <2> QED
    BY <2>4 DEF p, q
<1>5. /\ Sound(t, m, d, c, g, "none", r, n)
      /\ Runs(t, m, Unlock, Label(d + 1, c, g, "none", r, n), Label(d, c, g, "none", r, n))
  BY <1>3, UnlockRuns
<1>6. /\ Sound(t, m, d, c, g, "read", x, 1)
      /\ Runs(t, m, ReadChipReg(b, x), Label(d, c, g, "none", r, n), Label(d, c, g, "read", x, 1))
  BY <1>5, ReadRuns
<1>7. Runs(t, m, Enter("chip", b) \o <<s>> \o Unlock, Label(d, k, h, w, r, n),
           Label(d, c, g, "none", r, n))
  <2> HIDE DEF s, c
  <2> QED
    BY <1>2, <1>4, <1>5, RunsStep, RunsBoth
<1>8. Runs(t, m, << >>, Label(d, c, g, "none", r, n), Label(d, c, g, "none", r, n))
  BY <1>5, RunsNothing DEF Sound
<1>9. Runs(t, m, JustWrite(b, x, v), Label(d, k, h, w, r, n),
           Label(d, c, g, "none", r, n))
  BY <1>7, <1>8, RunsBoth DEF WriteChipReg, JustWrite
<1>10. Runs(t, m, WriteChipReg(b, x, v, TRUE), Label(d, k, h, w, r, n),
            Label(d, c, g, "read", x, 1))
  BY <1>6, <1>7, RunsBoth DEF WriteChipReg
<1> QED
  BY <1>5, <1>6, <1>9, <1>10

\* A measurement, by whoever makes it.
LEMMA MeasureRuns ==
  ASSUME NEW t, NEW m, NEW b \in Boards, NEW d \in 0 .. 2, NEW k, NEW w, NEW r, NEW n,
         Sound(t, m, d, k, "none", w, r, n), w # "waiting", t \in MonitorThreads => d > 0,
         m.name \in {"adc", "monitor"}, m.wanted \in Observables
  PROVE  Runs(t, m, MeasureADC(b, m.wanted), Label(d, k, "none", w, r, n),
              Label(d, {"chip"}, "none", "read", "GlobalPulseConf", 1))
<1> DEFINE c == {"chip"}
           G == "GlobalPulseConf"
           A == "MonitoringDataADC"
           o == m.wanted
           save == [do |-> "save"]
           convert == [do |-> "convert", on |-> "chip", board |-> b]
           reply == [do |-> "answer"]
<1>1. /\ save \in Steps /\ convert \in Steps /\ reply \in Steps
      /\ "chip" \in Objects /\ G \in Registers /\ A \in Registers /\ "MonitorConfig" \in Registers
      /\ 1 \in 1 .. MaxAttempts
  BY AccessAssumption DEF Steps, Objects, Registers
<1>2. /\ Sound(t, m, d, c, "none", w, r, n)
      /\ Runs(t, m, SetBoard("chip", b), Label(d, k, "none", w, r, n), Label(d, c, "none", w, r, n))
  BY <1>1, SetBoardRuns
<1>3. /\ Sound(t, m, d, c, "none", "read", G, 1)
      /\ Runs(t, m, ReadChipReg(b, G), Label(d, c, "none", w, r, n), Label(d, c, "none", "read", G, 1))
  BY <1>1, <1>2, ReadRuns
<1>4. /\ Sound(t, m, d, c, "saved", "read", G, 1)
      /\ Runs(t, m, <<save>>, Label(d, c, "none", "read", G, 1), Label(d, c, "saved", "read", G, 1))
  <2>1. Sound(t, m, d, c, "saved", "read", G, 1)
    BY <1>3 DEF Sound, Label, Labels, Fits
  <2>2. Leads(t, m, save, Label(d, c, "none", "read", G, 1), Label(d, c, "saved", "read", G, 1))
    <3> DEFINE p == Label(d, c, "none", "read", G, 1)
               q == Label(d, c, "saved", "read", G, 1)
    <3>1. /\ q = [p EXCEPT !.phase = "saved"]
          /\ p.phase = "none" /\ p.word = "read" /\ p.reg = "GlobalPulseConf"
      BY DEF Label
    <3>2. p \in Labels /\ q \in Labels /\ Fits(t, m, p) /\ Fits(t, m, q)
      BY <1>3, <2>1 DEF Sound
    <3> HIDE DEF p, q
    <3>3. Leads(t, m, save, p, q)
      BY <1>1, <3>1, <3>2 DEF Leads
    <3> QED
      BY <3>3 DEF p, q
  <2> QED
    BY <2>1, <2>2, RunsStep
<1>5. /\ Sound(t, m, d, c, "selected", "none", G, 1)
      /\ Runs(t, m, JustWrite(b, "MonitorConfig", o), Label(d, c, "saved", "read", G, 1),
              Label(d, c, "selected", "none", G, 1))
  <2> DEFINE M == "MonitorConfig"
             g == "saved"
             h == "selected"
             z == "read"
             n1 == 1
  <2>1. Writes(m, M, o, g, h) /\ o \in Observables \cup Routes \cup {Off, Saved}
    BY DEF Writes
  <2>2. h \in {"none", "written", "saved", "selected", "converted"} /\ M \in Registers
    BY <1>1
  <2>3. d = 0 /\ t \in MonitorThreads => h = "none"
    OBVIOUS
  <2>4. Sound(t, m, d, c, g, z, G, n1) /\ z # "waiting"
    BY <1>4
  <2> HIDE DEF o, c, G, M, g, h, z, n1
  <2>5. Runs(t, m, JustWrite(b, M, o), Label(d, c, g, z, G, n1),
             Label(d, {"chip"}, h, "none", G, n1))
    BY <2>1, <2>2, <2>3, <2>4, WriteRuns
  <2>6. Sound(t, m, d, {"chip"}, "selected", "none", G, 1)
    BY <1>4 DEF Sound, Label, Labels, Fits, c
  <2> QED
    BY <2>5, <2>6 DEF c, M, g, h, z, n1
<1>6. /\ Sound(t, m, d, c, "selected", "none", G, 1)
      /\ Runs(t, m, SetBoard("chip", b), Label(d, c, "selected", "none", G, 1),
              Label(d, c, "selected", "none", G, 1))
  BY <1>1, <1>5, SetBoardRuns
<1>7. /\ Sound(t, m, d, c, "converted", "none", G, 1)
      /\ Runs(t, m, <<convert>>, Label(d, c, "selected", "none", G, 1), Label(d, c, "converted", "none", G, 1))
  <2>1. Sound(t, m, d, c, "converted", "none", G, 1)
    BY <1>6 DEF Sound, Label, Labels, Fits
  <2>2. Leads(t, m, convert, Label(d, c, "selected", "none", G, 1), Label(d, c, "converted", "none", G, 1))
    BY <1>1, <1>6, <2>1 DEF Leads, Sound, Label
  <2> QED
    BY <2>1, <2>2, RunsStep
<1>8. /\ Sound(t, m, d, c, "converted", "read", A, 1)
      /\ Runs(t, m, ReadChipReg(b, A), Label(d, c, "converted", "none", G, 1), Label(d, c, "converted", "read", A, 1))
  BY <1>1, <1>7, ReadRuns
<1>9. Runs(t, m, <<reply>>, Label(d, c, "converted", "read", A, 1), Label(d, c, "converted", "read", A, 1))
  <2>1. Leads(t, m, reply, Label(d, c, "converted", "read", A, 1), Label(d, c, "converted", "read", A, 1))
    BY <1>1, <1>8 DEF Leads, Sound, Label, Answers
  <2> QED
    BY <2>1, RunsStep
<1>10. /\ Sound(t, m, d, c, "converted", "none", A, 1)
       /\ Runs(t, m, JustWrite(b, "MonitorConfig", Off), Label(d, c, "converted", "read", A, 1),
               Label(d, c, "converted", "none", A, 1))
  <2> DEFINE M == "MonitorConfig"
             g == "converted"
             v == Off
             z == "read"
             n1 == 1
  <2>1. Writes(m, M, v, g, g) /\ v \in Observables \cup Routes \cup {Off, Saved}
    BY DEF Writes
  <2>2. g \in {"none", "written", "saved", "selected", "converted"} /\ M \in Registers
    BY <1>1
  <2>3. d = 0 /\ t \in MonitorThreads => g = "none"
    OBVIOUS
  <2>4. Sound(t, m, d, c, g, z, A, n1) /\ z # "waiting"
    BY <1>8
  <2> HIDE DEF c, A, v, M, g, z, n1
  <2>5. Runs(t, m, JustWrite(b, M, v), Label(d, c, g, z, A, n1),
             Label(d, {"chip"}, g, "none", A, n1))
    BY <2>1, <2>2, <2>3, <2>4, WriteRuns
  <2>6. Sound(t, m, d, {"chip"}, "converted", "none", A, 1)
    BY <1>8 DEF Sound, Label, Labels, Fits, c
  <2> QED
    BY <2>5, <2>6 DEF c, M, g, v, z, n1
<1>11. Runs(t, m, WriteChipReg(b, G, Saved, TRUE), Label(d, c, "converted", "none", A, 1),
            Label(d, c, "none", "read", G, 1))
  <2>1. Writes(m, G, Saved, "converted", "none")
    BY DEF Writes
  <2> DEFINE v == Saved
  <2> HIDE DEF c, A, v, G
  <2>2. v \in Observables \cup Routes \cup {Off, Saved}
    BY DEF v
  <2>3. Writes(m, G, v, "converted", "none")
    BY <2>1 DEF v
  <2> QED
    BY <1>1, <1>10, <2>2, <2>3, WriteRuns DEF c, v
<1> HIDE DEF c, G, A, o, save, convert, reply
<1> DEFINE p0 == Label(d, k, "none", w, r, n)
<1> HIDE DEF p0
<1>12. Runs(t, m, SetBoard("chip", b) \o ReadChipReg(b, G), p0, Label(d, c, "none", "read", G, 1))
  BY <1>2, <1>3, RunsBoth DEF p0
<1>13. Runs(t, m, SetBoard("chip", b) \o ReadChipReg(b, G) \o <<save>>, p0, Label(d, c, "saved", "read", G, 1))
  BY <1>4, <1>12, RunsBoth
<1> DEFINE s13 == SetBoard("chip", b) \o ReadChipReg(b, G) \o <<save>>
           s14 == s13 \o JustWrite(b, "MonitorConfig", o)
           s15 == s14 \o SetBoard("chip", b) \o <<convert>>
           s16 == s15 \o ReadChipReg(b, A) \o <<reply>>
           s17 == s16 \o JustWrite(b, "MonitorConfig", Off)
           s18 == s17 \o WriteChipReg(b, G, Saved, TRUE)
<1> HIDE DEF s13
<1>14. Runs(t, m, s14, p0, Label(d, c, "selected", "none", G, 1))
  BY <1>5, <1>13, RunsBoth DEF s13
<1> HIDE DEF s14
<1>15. Runs(t, m, s15, p0, Label(d, c, "converted", "none", G, 1))
  <2>1. Runs(t, m, s14 \o SetBoard("chip", b), p0, Label(d, c, "selected", "none", G, 1))
    BY <1>6, <1>14, RunsBoth
  <2> QED
    BY <1>7, <2>1, RunsBoth
<1> HIDE DEF s15
<1>16. Runs(t, m, s16, p0, Label(d, c, "converted", "read", A, 1))
  <2>1. Runs(t, m, s15 \o ReadChipReg(b, A), p0, Label(d, c, "converted", "read", A, 1))
    BY <1>8, <1>15, RunsBoth
  <2> QED
    BY <1>9, <2>1, RunsBoth
<1> HIDE DEF s16
<1>17. Runs(t, m, s17, p0, Label(d, c, "converted", "none", A, 1))
  BY <1>10, <1>16, RunsBoth
<1> HIDE DEF s17
<1>18. Runs(t, m, s18, p0, Label(d, c, "none", "read", G, 1))
  BY <1>11, <1>17, RunsBoth
<1> QED
  BY <1>18 DEF p0, s13, s14, s15, s16, s17, s18, JustWrite, save, convert, reply, c, G, A, o, MeasureADC

\* A thread between two methods knows nothing.
Fresh == Label(0, {}, "none", "none", "MonitorConfig", 1)

\* Whatever the method, a label between two methods suits it.
LEMMA FreshSound ==
  ASSUME NEW t, NEW m
  PROVE  Fresh \in Labels /\ Sound(t, m, 0, {}, "none", "none", "MonitorConfig", 1)
<1>1. 1 \in 1 .. MaxAttempts
  BY AccessAssumption
<1> QED
  BY <1>1 DEF Fresh, Sound, Label, Labels, Fits, Registers

\* Where a method ends: no guard, and the route written or restored.
Ended(q) == q \in Labels /\ q.depth = 0 /\ q.phase \in {"none", "written"}

\* What is left of method m leads to its end.
EndsFrom(t, m, s, p) == \E q \in Labels : Ended(q) /\ Runs(t, m, s, p, q)

\* BoardMethod, ReadData and SetFileHandler.
LEMMA BoardMethodRuns ==
  ASSUME NEW t, NEW m, NEW b \in Boards
  PROVE  EndsFrom(t, m, BoardMethod(b), Fresh)
<1> DEFINE s == [do |-> "call", on |-> "board", board |-> b]
           c == {"board"}
           r == "MonitorConfig"
           q == Label(0, c, "none", "none", r, 1)
<1>1. s \in Steps /\ "board" \in Objects /\ 0 \in 0 .. 3 /\ 0 + 1 = 1 /\ "none" = Kept(0, "none")
  BY DEF Steps, Objects, Kept
<1>2. /\ Sound(t, m, 1, c, "none", "none", r, 1)
      /\ Runs(t, m, Enter("board", b), Fresh, Label(1, c, "none", "none", r, 1))
  BY <1>1, FreshSound, EnterRuns DEF Fresh
<1>3. Runs(t, m, Call("board", b), Label(1, c, "none", "none", r, 1), Label(1, c, "none", "none", r, 1))
  <2>1. Leads(t, m, s, Label(1, c, "none", "none", r, 1), Label(1, c, "none", "none", r, 1))
    BY <1>1, <1>2 DEF Leads, Sound, Label
  <2> QED
    BY <2>1, RunsStep DEF Call
<1>4. Sound(t, m, 0, c, "none", "none", r, 1) /\ Runs(t, m, Unlock, Label(1, c, "none", "none", r, 1), q)
  BY <1>1, <1>2, UnlockRuns
<1>5. q \in Labels /\ Ended(q)
  BY <1>4 DEF Sound, Ended, Label
<1> HIDE DEF q, c, r
<1>6. Runs(t, m, BoardMethod(b), Fresh, q)
  BY <1>2, <1>3, <1>4, RunsBoth DEF BoardMethod
<1> QED
  BY <1>5, <1>6 DEF EndsFrom

\* ReadData of BeBoardInterface, which only tries to lock.
LEMMA ReadDataRuns ==
  ASSUME NEW t, NEW m, NEW b \in Boards
  PROVE  EndsFrom(t, m, ReadData(b), Fresh)
<1> DEFINE s == [do |-> "call", on |-> "board", board |-> b]
           u == [do |-> "tryLock", on |-> "board", board |-> b]
           c == {"board"}
           r == "MonitorConfig"
           q == Label(0, c, "none", "none", r, 1)
<1>1. s \in Steps /\ u \in Steps /\ "board" \in Objects /\ 0 \in 0 .. 3 /\ 0 + 1 = 1
  BY DEF Steps, Objects
<1>2. /\ Sound(t, m, 0, c, "none", "none", r, 1)
      /\ Runs(t, m, SetBoard("board", b), Fresh, q)
  BY <1>1, FreshSound, SetBoardRuns DEF Fresh
<1>3. /\ Sound(t, m, 1, c, "none", "none", r, 1)
      /\ Runs(t, m, TryLock("board", b), q, Label(1, c, "none", "none", r, 1))
  <2>1. Sound(t, m, 1, c, "none", "none", r, 1)
    BY <1>2 DEF Sound, Label, Labels, Fits
  <2>2. Leads(t, m, u, q, Label(1, c, "none", "none", r, 1))
    BY <1>1, <1>2, <2>1 DEF Leads, Sound, Label
  <2> QED
    BY <2>1, <2>2, RunsStep DEF TryLock
<1>4. Runs(t, m, Call("board", b), Label(1, c, "none", "none", r, 1), Label(1, c, "none", "none", r, 1))
  <2>1. Leads(t, m, s, Label(1, c, "none", "none", r, 1), Label(1, c, "none", "none", r, 1))
    BY <1>1, <1>3 DEF Leads, Sound, Label
  <2> QED
    BY <2>1, RunsStep DEF Call
<1>5. Runs(t, m, Unlock, Label(1, c, "none", "none", r, 1), q)
  BY <1>1, <1>3, UnlockRuns
<1>6. q \in Labels /\ Ended(q)
  BY <1>2 DEF Sound, Ended, Label
<1> HIDE DEF q, c, r
<1>7. Runs(t, m, ReadData(b), Fresh, q)
  BY <1>2, <1>3, <1>4, <1>5, RunsBoth DEF ReadData
<1> QED
  BY <1>6, <1>7 DEF EndsFrom

\* The methods of BeBoardInterface that take no lock.
LEMMA SetFileHandlerRuns ==
  ASSUME NEW t, NEW m, NEW b \in Boards
  PROVE  EndsFrom(t, m, SetFileHandler(b), Fresh)
<1> DEFINE s == [do |-> "call", on |-> "board", board |-> b]
           c == {"board"}
           r == "MonitorConfig"
           q == Label(0, c, "none", "none", r, 1)
<1>1. s \in Steps /\ "board" \in Objects
  BY DEF Steps, Objects
<1>2. /\ Sound(t, m, 0, c, "none", "none", r, 1)
      /\ Runs(t, m, SetBoard("board", b), Fresh, q)
  BY <1>1, FreshSound, SetBoardRuns DEF Fresh
<1>3. Runs(t, m, Call("board", b), q, q)
  <2>1. Leads(t, m, s, q, q)
    BY <1>1, <1>2 DEF Leads, Sound, Label
  <2> QED
    BY <2>1, RunsStep DEF Call
<1>4. q \in Labels /\ Ended(q)
  BY <1>2 DEF Sound, Ended, Label
<1> HIDE DEF q, c, r
<1>5. Runs(t, m, SetFileHandler(b), Fresh, q)
  BY <1>2, <1>3, RunsBoth DEF SetFileHandler
<1> QED
  BY <1>4, <1>5 DEF EndsFrom

\* A calibration writes a route and reads it back.
LEMMA VerifiedRuns ==
  ASSUME NEW t \in RunThreads, NEW m, NEW b \in Boards, m.name = "write", m.wanted \in Routes
  PROVE  EndsFrom(t, m, Verified(b, m.wanted), Fresh)
<1> DEFINE u == [do |-> "answer"]
           c == {"chip"}
           x == "GlobalPulseConf"
           q == Label(0, c, "written", "read", x, 1)
           v == m.wanted
<1>1. /\ u \in Steps /\ x \in Registers /\ 0 \in 0 .. 2
      /\ v \in Observables \cup Routes \cup {Off, Saved}
      /\ t \notin MonitorThreads
  BY AccessAssumption DEF Steps, Registers
<1>2. Writes(m, x, v, "none", "written")
  BY DEF Writes
<1>3. /\ Sound(t, m, 0, c, "written", "read", x, 1)
      /\ Runs(t, m, WriteChipReg(b, x, v, TRUE), Fresh, q)
  <2> DEFINE r == "MonitorConfig"
             k == {}
             z == 0
  <2>1. Sound(t, m, z, k, "none", "none", r, 1) /\ Fresh = Label(z, k, "none", "none", r, 1)
    BY FreshSound DEF Fresh
  <2> HIDE DEF v, x, r, k
  <2>2. /\ Sound(t, m, z, {"chip"}, "written", "read", x, 1)
        /\ Runs(t, m, WriteChipReg(b, x, v, TRUE), Label(z, k, "none", "none", r, 1),
                Label(z, {"chip"}, "written", "read", x, 1))
    BY <1>1, <1>2, <2>1, WriteRuns
  <2> QED
    BY <2>1, <2>2
<1>4. Runs(t, m, <<u>>, q, q)
  <2>1. Leads(t, m, u, q, q)
    BY <1>1, <1>3 DEF Leads, Sound, Label, Answers
  <2> QED
    BY <2>1, RunsStep
<1>5. q \in Labels /\ Ended(q)
  BY <1>3 DEF Sound, Ended, Label
<1> HIDE DEF q
<1>6. Runs(t, m, Verified(b, m.wanted), Fresh, q)
  <2> HIDE DEF u, x, v
  <2>1. Runs(t, m, WriteChipReg(b, x, v, TRUE) \o <<u>>, Fresh, q)
    BY <1>3, <1>4, RunsBoth
  <2> QED
    BY <2>1 DEF Verified, u, x, v
<1> QED
  BY <1>5, <1>6 DEF EndsFrom

\* A calibration measures without a guard, the monitoring thread under two.
LEMMA ReadChipADCRuns ==
  ASSUME NEW t \in RunThreads, NEW m, NEW b \in Boards, m.name = "adc", m.wanted \in Observables
  PROVE  EndsFrom(t, m, ReadChipADC(b, m.wanted), Fresh)
<1> DEFINE q == Label(0, {"chip"}, "none", "read", "GlobalPulseConf", 1)
<1>1. 0 \in 0 .. 2 /\ t \notin MonitorThreads
  BY AccessAssumption
<1>2. Runs(t, m, ReadChipADC(b, m.wanted), Fresh, q)
  BY <1>1, FreshSound, MeasureRuns DEF Fresh, ReadChipADC
<1>3. q \in Labels /\ Ended(q)
  <2>1. 1 \in 1 .. MaxAttempts
    BY AccessAssumption
  <2> QED
    BY <2>1 DEF Ended, Label, Labels, Objects, Registers
<1> HIDE DEF q
<1> QED
  BY <1>2, <1>3 DEF EndsFrom

\* The monitoring thread measures under its two guards.
LEMMA ReadChipMonitorRuns ==
  ASSUME NEW t, NEW m, NEW b \in Boards, m.name = "monitor", m.wanted \in Observables
  PROVE  EndsFrom(t, m, ReadChipMonitor(b, m.wanted), Fresh)
<1> DEFINE c == {"chip"}
           r == "MonitorConfig"
           G == "GlobalPulseConf"
           q == Label(0, c, "none", "read", G, 1)
<1>1. /\ "board" \in Objects /\ "chip" \in Objects /\ 0 \in 0 .. 3 /\ 1 \in 0 .. 3 /\ 2 \in 0 .. 2
      /\ 0 + 1 = 1 /\ 1 + 1 = 2 /\ 1 \in 1 .. MaxAttempts /\ G \in Registers
      /\ "none" = Kept(0, "none") /\ "none" = Kept(1, "none")
  BY AccessAssumption DEF Objects, Registers, Kept
<1>2. /\ Sound(t, m, 1, {"board"}, "none", "none", r, 1)
      /\ Runs(t, m, Enter("board", b), Fresh, Label(1, {"board"}, "none", "none", r, 1))
  BY <1>1, FreshSound, EnterRuns DEF Fresh
<1>3. /\ Sound(t, m, 2, c, "none", "none", r, 1)
      /\ Runs(t, m, Enter("chip", b), Label(1, {"board"}, "none", "none", r, 1),
              Label(2, c, "none", "none", r, 1))
  BY <1>1, <1>2, EnterRuns
<1>4. Runs(t, m, MeasureADC(b, m.wanted), Label(2, c, "none", "none", r, 1),
           Label(2, c, "none", "read", G, 1))
  <2> DEFINE d == 2
             w == "none"
  <2>1. /\ d \in 0 .. 2 /\ d > 0 /\ w # "waiting" /\ Sound(t, m, d, c, "none", w, r, 1)
        /\ m.name \in {"adc", "monitor"}
    BY <1>3
  <2> HIDE DEF d, w, c, r
  <2>2. Runs(t, m, MeasureADC(b, m.wanted), Label(d, c, "none", w, r, 1),
             Label(d, {"chip"}, "none", "read", "GlobalPulseConf", 1))
    BY <2>1, MeasureRuns
  <2> QED
    BY <2>2 DEF d, w, c
<1>5. \A d \in 0 .. 2 : Sound(t, m, d, c, "none", "read", G, 1)
  BY <1>1 DEF Sound, Label, Labels, Fits
<1>6. Runs(t, m, Unlock, Label(2, c, "none", "read", G, 1), Label(1, c, "none", "read", G, 1))
  BY <1>1, <1>5, UnlockRuns
<1>7. Runs(t, m, Unlock, Label(1, c, "none", "read", G, 1), q)
  BY <1>1, <1>5, UnlockRuns
<1>8. q \in Labels /\ Ended(q)
  <2>1. q \in Labels
    BY <1>5 DEF Sound
  <2> QED
    BY <2>1 DEF Ended, Label
<1> HIDE DEF q, c, r, G
<1>9. Runs(t, m, ReadChipMonitor(b, m.wanted), Fresh, q)
  BY <1>2, <1>3, <1>4, <1>6, <1>7, RunsBoth DEF ReadChipMonitor
<1> QED
  BY <1>8, <1>9 DEF EndsFrom

-----------------------------------------------------------------------------
(* The invariant.                                                          *)

\* What holds of a thread with label p.
ThreadOK(t, p) ==
  /\ Legal(t, method[t]) /\ Fits(t, method[t], p)
  /\ EndsFrom(t, method[t], todo[t], p)
  /\ Len(guards[t]) = p.depth
  /\ \A i \in p.known : fBoardFW[i] \in Boards
  /\ p.word = "read" => got[t] \in Values

\* Every thread is where its label says, and the mutex belongs to the thread
\* that has guards; only who waits for a reply finds one.
Control(lab) ==
  /\ lab \in [Threads -> Labels]
  /\ AccessTypeOK /\ todo \in [Threads -> Seq(Steps)]
  /\ \A i \in Objects : fPrevBoardIdentifier[i] \in Boards => fBoardFW[i] \in Boards
  /\ \A t \in Threads : ThreadOK(t, lab[t])
  /\ \A t \in Threads, b \in Boards :
       lab[t].depth > 0 => fMutex[b] = [owner |-> t, count |-> lab[t].depth]
  /\ \A b \in Boards : fMutex[b].owner # None => lab[fMutex[b].owner].depth > 0
  /\ \A b \in Boards : fifo[b] # << >> => \E t \in Threads : lab[t].word = "waiting"

\* No other thread has a guard.
Apart(lab, t) == \A u \in Threads : u # t => lab[u].depth = 0

\* The other threads keep what is theirs.
OthersKeep(t) ==
  \A u \in Threads : u # t =>
    /\ todo'[u] = todo[u] /\ guards'[u] = guards[u] /\ method'[u] = method[u]
    /\ got'[u] = got[u] /\ saved'[u] = saved[u] /\ answer'[u] = answer[u]

\* A thread moves on to label q.
LEMMA ControlMoves ==
  ASSUME NEW lab, NEW t \in Threads, NEW q \in Labels, Control(lab),
         AccessTypeOK', todo' \in [Threads -> Seq(Steps)], OthersKeep(t), ThreadOK(t, q)',
         \A i \in Objects : fBoardFW[i] \in Boards => fBoardFW'[i] \in Boards,
         \A i \in Objects : fPrevBoardIdentifier'[i] \in Boards => fBoardFW'[i] \in Boards,
         \/ fMutex' = fMutex /\ q.depth = lab[t].depth
         \/ /\ Apart(lab, t)
            /\ q.depth > 0 => \A b \in Boards : fMutex'[b] = [owner |-> t, count |-> q.depth]
            /\ q.depth = 0 => \A b \in Boards : fMutex'[b].owner = None
            /\ \A b \in Boards : fMutex'[b].owner \in {None, t},
         \/ fifo' = fifo /\ (lab[t].word = "waiting" => q.word = "waiting")
         \/ q.word = "waiting"
         \/ \A b \in Boards : fifo'[b] = << >>
  PROVE  Control([lab EXCEPT ![t] = q])'
<1> DEFINE next == [lab EXCEPT ![t] = q]
<1>1. next \in [Threads -> Labels] /\ next[t] = q /\ \A u \in Threads : u # t => next[u] = lab[u]
  BY DEF Control
<1> HIDE DEF next
<1>2. ASSUME NEW u \in Threads PROVE ThreadOK(u, next[u])'
  <2>1. CASE u = t
    BY <1>1, <2>1
  <2>2. CASE u # t
    <3>1. ThreadOK(u, lab[u]) /\ next[u] = lab[u] /\ lab[u] \in Labels
      BY <1>1, <2>2 DEF Control
    <3>2. todo'[u] = todo[u] /\ guards'[u] = guards[u] /\ method'[u] = method[u] /\ got'[u] = got[u]
      BY <2>2 DEF OthersKeep
    <3>3. \A i \in lab[u].known : fBoardFW'[i] \in Boards
      BY <3>1 DEF ThreadOK, Labels
    <3> QED
      BY <3>1, <3>2, <3>3 DEF ThreadOK
  <2> QED
    BY <2>1, <2>2
<1>3. \A u \in Threads, b \in Boards :
        next[u].depth > 0 => fMutex'[b] = [owner |-> u, count |-> next[u].depth]
  <2>1. CASE fMutex' = fMutex /\ q.depth = lab[t].depth
    <3>1. \A u \in Threads : next[u].depth = lab[u].depth
      BY <1>1, <2>1
    <3> QED
      BY <2>1, <3>1 DEF Control
  <2>2. CASE Apart(lab, t) /\ (q.depth > 0 => \A b \in Boards : fMutex'[b] = [owner |-> t, count |-> q.depth])
    <3>1. \A u \in Threads : u # t => ~(next[u].depth > 0)
      BY <1>1, <2>2 DEF Apart
    <3> QED
      BY <1>1, <2>2, <3>1
  <2> QED
    BY <2>1, <2>2
<1>4. \A b \in Boards : fMutex'[b].owner # None => next[fMutex'[b].owner].depth > 0
  <2>1. CASE fMutex' = fMutex /\ q.depth = lab[t].depth
    <3>1. \A u \in Threads : next[u].depth = lab[u].depth
      BY <1>1, <2>1
    <3>2. \A b \in Boards : fMutex[b].owner \in Threads \cup {None}
      BY DEF Control, AccessTypeOK
    <3> QED
      BY <2>1, <3>1, <3>2 DEF Control
  <2>2. CASE /\ q.depth = 0 => \A b \in Boards : fMutex'[b].owner = None
             /\ \A b \in Boards : fMutex'[b].owner \in {None, t}
    <3>1. q.depth \in Nat
      BY DEF Labels
    <3> QED
      BY <1>1, <2>2, <3>1
  <2> QED
    BY <2>1, <2>2
<1>5. \A b \in Boards : fifo'[b] # << >> => \E u \in Threads : next[u].word = "waiting"
  <2>1. CASE fifo' = fifo /\ (lab[t].word = "waiting" => q.word = "waiting")
    <3>1. \A u \in Threads : lab[u].word = "waiting" => next[u].word = "waiting"
      BY <1>1, <2>1
    <3> QED
      BY <2>1, <3>1 DEF Control
  <2>2. CASE q.word = "waiting"
    BY <1>1, <2>2
  <2>3. CASE \A b \in Boards : fifo'[b] = << >>
    BY <2>3
  <2> QED
    BY <2>1, <2>2, <2>3
<1>6. Control(next)'
  BY <1>1, <1>2, <1>3, <1>4, <1>5 DEF Control
<1> QED
  BY <1>6 DEF next

\* A thread with something left to do makes the first step of it.
LEMMA NextLabel ==
  ASSUME NEW lab, NEW t \in Threads, Control(lab), ~Idle(t)
  PROVE  /\ Head(todo[t]) \in Steps /\ Tail(todo[t]) \in Seq(Steps)
         /\ \E q \in Labels : /\ Leads(t, method[t], Head(todo[t]), lab[t], q)
                              /\ EndsFrom(t, method[t], Tail(todo[t]), q)
<1>1. PICK z \in Labels : Ended(z) /\ Runs(t, method[t], todo[t], lab[t], z)
  BY DEF Control, ThreadOK, EndsFrom
<1>2. todo[t] # << >>
  BY DEF Idle
<1>3. /\ Head(todo[t]) \in Steps /\ Tail(todo[t]) \in Seq(Steps)
      /\ \E r \in Labels : /\ Leads(t, method[t], Head(todo[t]), lab[t], r)
                           /\ Runs(t, method[t], Tail(todo[t]), r, z)
  BY <1>1, <1>2, RunsFirst
<1> QED
  BY <1>1, <1>3 DEF EndsFrom

\* What is left when steps have been put before the rest.
LEMMA ThenLeft ==
  ASSUME NEW t \in Threads, NEW s \in Seq(Steps), todo \in [Threads -> Seq(Steps)],
         Tail(todo[t]) \in Seq(Steps), Then(t, s)
  PROVE  /\ todo' \in [Threads -> Seq(Steps)] /\ todo'[t] = s \o Tail(todo[t])
         /\ \A u \in Threads : u # t => todo'[u] = todo[u]
<1>1. s \o Tail(todo[t]) \in Seq(Steps)
  BY ConcatProperties
<1> QED
  BY <1>1 DEF Then

\* A step is done.
LEMMA DoneLeft ==
  ASSUME NEW t \in Threads, todo \in [Threads -> Seq(Steps)],
         Tail(todo[t]) \in Seq(Steps), Done(t)
  PROVE  /\ todo' \in [Threads -> Seq(Steps)] /\ todo'[t] = Tail(todo[t])
         /\ \A u \in Threads : u # t => todo'[u] = todo[u]
<1>1. << >> \o Tail(todo[t]) = Tail(todo[t]) /\ << >> \in Seq(Steps)
  BY ConcatEmptySeq
<1>2. Then(t, << >>)
  BY DEF Done
<1> QED
  BY <1>1, <1>2, ThenLeft

\* With one board, who may access it is alone with it.
LEMMA OpenApart ==
  ASSUME NEW lab, NEW t \in Threads, NEW b, Control(lab), Open(t, b)
  PROVE  /\ Apart(lab, t)
         /\ lab[t].depth = 0 => fMutex[b].owner = None /\ fMutex[b].count = 0
         /\ lab[t].depth > 0 => fMutex[b].owner = t /\ fMutex[b].count = lab[t].depth
<1>1. b \in Boards /\ fMutex[b].owner \in {None, t} /\ t # None
  BY AccessAssumption DEF Open
<1>2. \A u \in Threads : lab[u].depth > 0 => fMutex[b].owner = u /\ fMutex[b].count = lab[u].depth
  <2> SUFFICES ASSUME NEW u \in Threads, lab[u].depth > 0
               PROVE  fMutex[b].owner = u /\ fMutex[b].count = lab[u].depth
    OBVIOUS
  <2>1. fMutex[b] = [owner |-> u, count |-> lab[u].depth]
    BY <1>1 DEF Control
  <2> QED
    BY <2>1
<1>3. \A u \in Threads : lab[u].depth \in Nat /\ u # None
  <2>1. \A u \in Threads : lab[u] \in Labels
    BY DEF Control
  <2>2. \A u \in Threads : lab[u].depth \in 0 .. 4
    BY <2>1 DEF Labels
  <2>3. \A u \in Threads : u # None
    BY AccessAssumption
  <2> QED
    BY <2>2, <2>3
<1>4. fMutex[b].count = 0 <=> fMutex[b].owner = None
  BY <1>1 DEF Control, AccessTypeOK
<1>5. fMutex[b].owner # None => lab[fMutex[b].owner].depth > 0
  BY <1>1 DEF Control
<1>6. Apart(lab, t)
  BY <1>1, <1>2, <1>3 DEF Apart
<1> QED
  BY <1>1, <1>2, <1>3, <1>4, <1>5, <1>6

\* A thread with a guard is alone too, and may access its board.
LEMMA GuardApart ==
  ASSUME NEW lab, NEW t \in Threads, NEW b \in Boards, Control(lab), lab[t].depth > 0
  PROVE  Open(t, b) /\ Apart(lab, t)
<1>1. fMutex[b].owner = t
  <2>1. fMutex[b] = [owner |-> t, count |-> lab[t].depth]
    BY DEF Control
  <2> QED
    BY <2>1
<1>2. Open(t, b)
  BY <1>1 DEF Open
<1> QED
  BY <1>2, OpenApart

\* The board of a step that acts on one is the board that is set.
LEMMA TargetIsBoard ==
  ASSUME OneBoard, NEW lab, NEW t \in Threads, Control(lab), ~Idle(t),
         Head(todo[t]).do \in {"lock", "tryLock", "call", "request", "drain", "retry",
                               "write", "convert"}
  PROVE  Head(todo[t]).board \in Boards /\ Target(t) = Head(todo[t]).board
<1>1. PICK q \in Labels : Leads(t, method[t], Head(todo[t]), lab[t], q)
  BY NextLabel
<1>2. Head(todo[t]).on \in lab[t].known /\ Head(todo[t]) \in Steps
  BY <1>1 DEF Leads
<1>3. Target(t) \in Boards
  BY <1>2 DEF Control, ThreadOK, Target
<1>4. Head(todo[t]).board \in Boards
  BY <1>2 DEF Steps
<1> QED
  BY <1>3, <1>4 DEF OneBoard

-----------------------------------------------------------------------------
(* What the steps of a thread do, with all of them on one board.           *)

\* setBoard, guards and board methods: nothing is read or written.
Quiet(t, p, q) ==
  /\ q.phase = p.phase /\ q.reg = p.reg /\ q.attempt = p.attempt
  /\ q.word = "none" \/ (q.word = p.word /\ (q.depth > 0 => p.depth > 0))
  /\ UNCHANGED <<chip, fifo, locals, configured>>

\* A method begins.
Began(t, p, q) ==
  /\ Idle(t) /\ p.phase \in {"none", "written"} /\ q = Fresh
  /\ answer'[t] = NoWord
  /\ UNCHANGED <<chip, fifo, got, saved, configured>>

\* A register is asked for; the reply may be lost.
Asked(t, p, q) ==
  /\ p.word # "waiting" /\ q.word = "waiting"
  /\ q.phase = p.phase /\ q.depth = p.depth
  /\ \A b \in Boards : \/ fifo'[b] = Append(fifo[b], chip[b][q.reg])
                       \/ q.attempt <= MaxLosses /\ fifo'[b] = fifo[b]
  /\ UNCHANGED <<chip, locals, configured>>

Heard(t, p, q) ==
  /\ p.word = "waiting" /\ q.word = "replied"
  /\ q.phase = p.phase /\ q.depth = p.depth /\ q.reg = p.reg /\ q.attempt = p.attempt
  /\ \A b \in Boards : got'[t] = IF fifo[b] = << >> THEN NoWord ELSE Head(fifo[b])
  /\ UNCHANGED <<chip, saved, method, answer, configured>>

\* No reply: once more.
AskedAgain(t, p, q) ==
  /\ q.word = "none" /\ q.phase = p.phase /\ q.depth = p.depth /\ q.reg = p.reg
  /\ UNCHANGED <<chip, got, saved, method, answer, configured>>

\* The reply is taken, or none after the last attempt.
Took(lab, t, p, q) ==
  /\ p.word = "replied" /\ q.word = "read"
  /\ q.phase = p.phase /\ q.depth = p.depth /\ q.reg = p.reg
  /\ IF got[t] = NoWord THEN p.attempt = MaxAttempts /\ Apart(lab, t)
     ELSE UNCHANGED <<got, fifo>>
  /\ UNCHANGED <<chip, saved, method, answer, configured>>

Wrote(t, p, q) ==
  /\ p.depth > 0 /\ q.depth = p.depth /\ q.word = "none" /\ q.reg = p.reg
  /\ \E r \in Registers, v \in Observables \cup Routes \cup {Off, Saved} :
       LET value == IF v = Saved THEN saved[t] ELSE v
       IN /\ Writes(method[t], r, v, p.phase, q.phase)
          /\ \A b \in Boards : chip'[b] = [chip[b] EXCEPT ![r] = value]
          /\ IF method[t].name = "write" THEN \A b \in Boards : configured'[b] = value
             ELSE UNCHANGED configured
  /\ UNCHANGED <<fifo, locals>>

Converted(t, p, q) ==
  /\ p.phase = "selected" /\ q.phase = "converted" /\ q.depth = p.depth
  /\ q.word = "none" /\ q.reg = p.reg
  /\ \A b \in Boards : /\ chip'[b].MonitoringDataADC = chip[b].MonitorConfig
                       /\ chip'[b].GlobalPulseConf = Convert
  /\ UNCHANGED <<fifo, locals, configured>>

\* GlbPulseVal is put aside.
PutAside(t, p, q) ==
  /\ p.phase = "none" /\ p.word = "read" /\ p.reg = "GlobalPulseConf"
  /\ q = [p EXCEPT !.phase = "saved"]
  /\ saved'[t] = got[t]
  /\ UNCHANGED <<chip, fifo, got, method, answer, configured>>

Answered(t, p, q) ==
  /\ Answers(method[t], p) /\ q = p
  /\ answer'[t] = got[t]
  /\ UNCHANGED <<chip, fifo, got, saved, method, configured>>

\* Thread t has its turn, and q is its label after it.
Turn(lab, t, q) ==
  /\ OthersKeep(t)
  /\ \/ Quiet(t, lab[t], q)
     \/ Began(t, lab[t], q)
     \/ Took(lab, t, lab[t], q)
     \/ PutAside(t, lab[t], q)
     \/ Answered(t, lab[t], q)
     \/ /\ Apart(lab, t)
        /\ \/ Asked(t, lab[t], q) \/ Heard(t, lab[t], q) \/ AskedAgain(t, lab[t], q)
           \/ Wrote(t, lab[t], q) \/ Converted(t, lab[t], q)

Moves(lab, t) == \E q \in Labels : Control([lab EXCEPT ![t] = q])' /\ Turn(lab, t, q)

\* What a thread may begin leads to its end.
Startable(t, m, s) == Legal(t, m) /\ s \in Seq(Steps) /\ EndsFrom(t, m, s, Fresh)

\* Whatever a thread begins, it is one of these methods.
LEMMA MethodsLead ==
  ASSUME NEW t \in Threads, BeginMethod(t)
  PROVE  \E m \in Methods, s \in Seq(Steps) : Begin(t, m, s) /\ Startable(t, m, s)
<1>1. PICK b \in Boards :
        \/ Begin(t, [name |-> "boardMethod"], BoardMethod(b))
        \/ t \in RunThreads /\ Begin(t, [name |-> "readData"], ReadData(b))
        \/ t \in RunThreads /\ Begin(t, [name |-> "setFileHandler"], SetFileHandler(b))
        \/ t \in RunThreads /\ \E v \in Routes :
             Begin(t, [name |-> "write", wanted |-> v], Verified(b, v))
        \/ t \in RunThreads /\ \E o \in Observables :
             Begin(t, [name |-> "adc", wanted |-> o], ReadChipADC(b, o))
        \/ t \in MonitorThreads /\ \E o \in Observables :
             Begin(t, [name |-> "monitor", wanted |-> o], ReadChipMonitor(b, o))
  BY DEF BeginMethod
<1>2. SUFFICES \E m \in Methods : \E s : Begin(t, m, s) /\ Legal(t, m) /\ EndsFrom(t, m, s, Fresh)
  BY DEF Startable, EndsFrom, Runs
<1>3. CASE Begin(t, [name |-> "boardMethod"], BoardMethod(b))
  <2> DEFINE m == [name |-> "boardMethod"]
  <2>1. m \in Methods /\ Legal(t, m)
    BY DEF Methods, Legal
  <2> HIDE DEF m
  <2>2. EndsFrom(t, m, BoardMethod(b), Fresh)
    BY BoardMethodRuns
  <2>3. Begin(t, m, BoardMethod(b))
    BY <1>3 DEF m
  <2> QED
    BY <2>1, <2>2, <2>3
<1>4. CASE Begin(t, [name |-> "readData"], ReadData(b))
  <2> DEFINE m == [name |-> "readData"]
  <2>1. m \in Methods /\ Legal(t, m)
    BY DEF Methods, Legal
  <2> HIDE DEF m
  <2>2. EndsFrom(t, m, ReadData(b), Fresh)
    BY ReadDataRuns
  <2>3. Begin(t, m, ReadData(b))
    BY <1>4 DEF m
  <2> QED
    BY <2>1, <2>2, <2>3
<1>5. CASE Begin(t, [name |-> "setFileHandler"], SetFileHandler(b))
  <2> DEFINE m == [name |-> "setFileHandler"]
  <2>1. m \in Methods /\ Legal(t, m)
    BY DEF Methods, Legal
  <2> HIDE DEF m
  <2>2. EndsFrom(t, m, SetFileHandler(b), Fresh)
    BY SetFileHandlerRuns
  <2>3. Begin(t, m, SetFileHandler(b))
    BY <1>5 DEF m
  <2> QED
    BY <2>1, <2>2, <2>3
<1>6. ASSUME t \in RunThreads, NEW v \in Routes,
             Begin(t, [name |-> "write", wanted |-> v], Verified(b, v))
      PROVE  \E m \in Methods : \E s : Begin(t, m, s) /\ Legal(t, m) /\ EndsFrom(t, m, s, Fresh)
  <2> DEFINE m == [name |-> "write", wanted |-> v]
  <2>1. m \in Methods /\ Legal(t, m) /\ m.name = "write" /\ m.wanted = v
    BY <1>6 DEF Methods, Legal
  <2> HIDE DEF m
  <2>2. EndsFrom(t, m, Verified(b, v), Fresh)
    BY <1>6, <2>1, VerifiedRuns
  <2>3. Begin(t, m, Verified(b, v))
    BY <1>6 DEF m
  <2> QED
    BY <2>1, <2>2, <2>3
<1>7. ASSUME t \in RunThreads, NEW o \in Observables,
             Begin(t, [name |-> "adc", wanted |-> o], ReadChipADC(b, o))
      PROVE  \E m \in Methods : \E s : Begin(t, m, s) /\ Legal(t, m) /\ EndsFrom(t, m, s, Fresh)
  <2> DEFINE m == [name |-> "adc", wanted |-> o]
  <2>1. m \in Methods /\ Legal(t, m) /\ m.name = "adc" /\ m.wanted = o
    BY <1>7 DEF Methods, Legal
  <2> HIDE DEF m
  <2>2. EndsFrom(t, m, ReadChipADC(b, o), Fresh)
    BY <1>7, <2>1, ReadChipADCRuns
  <2>3. Begin(t, m, ReadChipADC(b, o))
    BY <1>7 DEF m
  <2> QED
    BY <2>1, <2>2, <2>3
<1>8. ASSUME t \in MonitorThreads, NEW o \in Observables,
             Begin(t, [name |-> "monitor", wanted |-> o], ReadChipMonitor(b, o))
      PROVE  \E m \in Methods : \E s : Begin(t, m, s) /\ Legal(t, m) /\ EndsFrom(t, m, s, Fresh)
  <2> DEFINE m == [name |-> "monitor", wanted |-> o]
  <2>1. m \in Methods /\ Legal(t, m) /\ m.name = "monitor" /\ m.wanted = o
    BY <1>8 DEF Methods, Legal
  <2> HIDE DEF m
  <2>2. EndsFrom(t, m, ReadChipMonitor(b, o), Fresh)
    BY <1>8, <2>1, ReadChipMonitorRuns
  <2>3. Begin(t, m, ReadChipMonitor(b, o))
    BY <1>8 DEF m
  <2> QED
    BY <2>1, <2>2, <2>3
<1> QED
  BY <1>1, <1>3, <1>4, <1>5, <1>6, <1>7, <1>8

\* What is used of a label most often.
LEMMA LabelTypes ==
  ASSUME NEW p \in Labels
  PROVE  /\ p.depth \in 0 .. 4 /\ p.known \in SUBSET Objects /\ p.attempt \in 1 .. MaxAttempts
         /\ p.reg \in Registers
         /\ p.phase \in {"none", "written", "saved", "selected", "converted"}
         /\ p.word \in {"none", "waiting", "replied", "read"}
BY DEF Labels

\* A thread begins a method.
LEMMA BeginMoves ==
  ASSUME NEW lab, NEW t \in Threads, Control(lab), BeginMethod(t)
  PROVE  Moves(lab, t)
<1>1. PICK m \in Methods, s \in Seq(Steps) : Begin(t, m, s) /\ Startable(t, m, s)
  BY MethodsLead
<1>2. /\ Idle(t) /\ todo' = [todo EXCEPT ![t] = s] /\ method' = [method EXCEPT ![t] = m]
      /\ answer' = [answer EXCEPT ![t] = NoWord]
      /\ UNCHANGED <<objects, fMutex, chip, fifo, guards, got, saved, configured>>
  BY <1>1 DEF Begin
<1>3. Ended(lab[t]) /\ Fits(t, method[t], lab[t]) /\ lab[t] \in Labels
  <2>1. PICK z \in Labels : Ended(z) /\ Runs(t, method[t], todo[t], lab[t], z)
    BY DEF Control, ThreadOK, EndsFrom
  <2>2. lab[t] \in Labels /\ Fits(t, method[t], lab[t])
    BY DEF Control, ThreadOK
  <2>3. lab[t] = z
    BY <1>2, <2>1, <2>2, RunsNothing DEF Idle
  <2> QED
    BY <2>1, <2>2, <2>3
<1>4. /\ Fresh \in Labels /\ Fits(t, m, Fresh) /\ Fresh.depth = 0 /\ Fresh.known = {}
      /\ Fresh.word = "none"
  BY FreshSound DEF Sound, Fresh, Label
<1>5. AccessTypeOK'
  BY <1>1, <1>2 DEF Control, AccessTypeOK, objects
<1>6. /\ todo' \in [Threads -> Seq(Steps)] /\ todo'[t] = s /\ method'[t] = m
      /\ answer'[t] = NoWord
  BY <1>2 DEF Control, AccessTypeOK
<1>7. OthersKeep(t)
  BY <1>2 DEF OthersKeep, Control, AccessTypeOK
<1>8. ThreadOK(t, Fresh)'
  <2>1. Len(guards[t]) = 0
    BY <1>3 DEF Control, ThreadOK, Ended
  <2>2. /\ Legal(t, method'[t]) /\ Fits(t, method'[t], Fresh)
        /\ EndsFrom(t, method'[t], todo'[t], Fresh)
    BY <1>1, <1>4, <1>6 DEF Startable
  <2>3. Len(guards'[t]) = Fresh.depth
    BY <1>2, <1>4, <2>1
  <2>4. (\A i \in Fresh.known : fBoardFW'[i] \in Boards) /\ Fresh.word # "read"
    BY <1>4
  <2> QED
    BY <2>2, <2>3, <2>4 DEF ThreadOK
<1>9. Control([lab EXCEPT ![t] = Fresh])'
  <2>1. \A i \in Objects : fPrevBoardIdentifier'[i] \in Boards => fBoardFW'[i] \in Boards
    BY <1>2 DEF Control, objects
  <2>2. \A i \in Objects : fBoardFW[i] \in Boards => fBoardFW'[i] \in Boards
    BY <1>2 DEF objects
  <2>3. fMutex' = fMutex /\ Fresh.depth = lab[t].depth
    BY <1>2, <1>3, <1>4 DEF Ended
  <2>4. fifo' = fifo /\ lab[t].word # "waiting"
    BY <1>2, <1>3 DEF Ended, Fits
  <2> QED
    BY <1>4, <1>5, <1>6, <1>7, <1>8, <2>1, <2>2, <2>3, <2>4, ControlMoves
<1>10. Began(t, lab[t], Fresh)
  BY <1>2, <1>3, <1>6 DEF Began, Ended
<1> QED
  BY <1>4, <1>7, <1>9, <1>10 DEF Moves, Turn

\* A step that leaves everything but its thread's place and the two objects.
LEMMA QuietMoves ==
  ASSUME NEW lab, NEW t \in Threads, NEW q \in Labels, Control(lab),
         Fits(t, method[t], q), EndsFrom(t, method[t], todo'[t], q),
         todo' \in [Threads -> Seq(Steps)], \A u \in Threads : u # t => todo'[u] = todo[u],
         fBoardFW' \in [Objects -> Boards \cup {None}],
         fPrevBoardIdentifier' \in [Objects -> Boards \cup {None}],
         \A i \in Objects : fBoardFW[i] \in Boards => fBoardFW'[i] \in Boards,
         \A i \in Objects : fPrevBoardIdentifier'[i] \in Boards => fBoardFW'[i] \in Boards,
         \A i \in q.known : fBoardFW'[i] \in Boards,
         q.depth = lab[t].depth, q.phase = lab[t].phase, q.word = lab[t].word,
         q.reg = lab[t].reg, q.attempt = lab[t].attempt,
         UNCHANGED <<fMutex, chip, fifo, guards, locals, configured>>
  PROVE  Moves(lab, t)
<1>1. UNCHANGED <<fMutex, chip, fifo, guards, got, saved, method, answer, configured>>
  BY DEF locals
<1>2. AccessTypeOK'
  BY <1>1 DEF Control, AccessTypeOK
<1>3. OthersKeep(t)
  BY <1>1 DEF OthersKeep
<1>4. ThreadOK(t, q)'
  <2>1. ThreadOK(t, lab[t])
    BY DEF Control
  <2> QED
    BY <1>1, <2>1 DEF ThreadOK
<1>5. Control([lab EXCEPT ![t] = q])'
  BY <1>1, <1>2, <1>3, <1>4, ControlMoves
<1>6. Quiet(t, lab[t], q)
  BY <1>1 DEF Quiet, locals
<1> QED
  BY <1>3, <1>5, <1>6 DEF Moves, Turn

\* setBoard tests which board was set last.
LEMMA TestMoves ==
  ASSUME NEW lab, NEW t \in Threads, Control(lab), Test(t)
  PROVE  Moves(lab, t)
<1> DEFINE s == Head(todo[t])
           p == lab[t]
<1>1. /\ ~Idle(t) /\ s.do = "test"
      /\ Then(t, IF fPrevBoardIdentifier[s.on] = s.board THEN << >> ELSE Assignments(s.on, s.board))
      /\ UNCHANGED <<objects, fMutex, chip, fifo, guards, locals, configured>>
  BY DEF Test, Doing
<1>2. PICK q \in Labels : Leads(t, method[t], s, p, q) /\ EndsFrom(t, method[t], Tail(todo[t]), q)
  BY <1>1, NextLabel
<1>3. /\ s \in Steps /\ p \in Labels /\ Fits(t, method[t], p) /\ Fits(t, method[t], q)
      /\ q = [p EXCEPT !.known = q.known] /\ q.known \subseteq p.known \cup {s.on}
  BY <1>1, <1>2 DEF Leads
<1>4. s.on \in Objects /\ s.board \in Boards /\ Tail(todo[t]) \in Seq(Steps)
  BY <1>1, <1>3, NextLabel DEF Steps
<1>5. UNCHANGED <<fBoardFW, fPrevBoardIdentifier, fMutex, chip, fifo, guards, locals, configured>>
  BY <1>1 DEF objects
<1>6. \A i \in p.known : fBoardFW[i] \in Boards
  BY DEF Control, ThreadOK
<1>7. /\ \A i \in Objects : fPrevBoardIdentifier[i] \in Boards => fBoardFW[i] \in Boards
      /\ fBoardFW \in [Objects -> Boards \cup {None}]
      /\ fPrevBoardIdentifier \in [Objects -> Boards \cup {None}]
      /\ todo \in [Threads -> Seq(Steps)]
  BY DEF Control, AccessTypeOK
<1>8. /\ q.depth = p.depth /\ q.phase = p.phase /\ q.word = p.word /\ q.reg = p.reg
      /\ q.attempt = p.attempt
  BY <1>3 DEF Labels
<1> HIDE DEF s, p
<1>9. CASE fPrevBoardIdentifier[s.on] = s.board
  <2>1. Done(t)
    BY <1>1, <1>9 DEF Done
  <2>2. /\ todo' \in [Threads -> Seq(Steps)] /\ todo'[t] = Tail(todo[t])
        /\ \A u \in Threads : u # t => todo'[u] = todo[u]
    BY <1>4, <1>7, <2>1, DoneLeft
  <2>3. \A i \in q.known : fBoardFW'[i] \in Boards
    BY <1>3, <1>4, <1>5, <1>6, <1>7, <1>9
  <2>4. /\ \A i \in Objects : fPrevBoardIdentifier'[i] \in Boards => fBoardFW'[i] \in Boards
        /\ \A i \in Objects : fBoardFW[i] \in Boards => fBoardFW'[i] \in Boards
        /\ fBoardFW' \in [Objects -> Boards \cup {None}]
        /\ fPrevBoardIdentifier' \in [Objects -> Boards \cup {None}]
    BY <1>5, <1>7
  <2> QED
    BY <1>2, <1>3, <1>5, <1>8, <2>2, <2>3, <2>4, QuietMoves DEF p
<1>10. CASE fPrevBoardIdentifier[s.on] # s.board
  <2> DEFINE a == Assignments(s.on, s.board)
  <2>1. Runs(t, method[t], a, p, q)
    BY <1>3, <1>4, AssignmentsRun
  <2>2. a \in Seq(Steps)
    BY <2>1 DEF Runs
  <2>3. Then(t, a)
    BY <1>1, <1>10
  <2> HIDE DEF a
  <2>4. /\ todo' \in [Threads -> Seq(Steps)] /\ todo'[t] = a \o Tail(todo[t])
        /\ \A u \in Threads : u # t => todo'[u] = todo[u]
    BY <1>4, <1>7, <2>2, <2>3, ThenLeft
  <2>5. EndsFrom(t, method[t], todo'[t], p)
    BY <1>2, <2>1, <2>4, RunsBoth DEF EndsFrom
  <2>6. \A i \in p.known : fBoardFW'[i] \in Boards
    BY <1>5, <1>6
  <2>7. /\ \A i \in Objects : fPrevBoardIdentifier'[i] \in Boards => fBoardFW'[i] \in Boards
        /\ \A i \in Objects : fBoardFW[i] \in Boards => fBoardFW'[i] \in Boards
        /\ fBoardFW' \in [Objects -> Boards \cup {None}]
        /\ fPrevBoardIdentifier' \in [Objects -> Boards \cup {None}]
    BY <1>5, <1>7
  <2> QED
    BY <1>3, <1>5, <2>4, <2>5, <2>6, <2>7, QuietMoves DEF p
<1> QED
  BY <1>9, <1>10

\* setBoard assigns fBoardFW.
LEMMA AssignMoves ==
  ASSUME NEW lab, NEW t \in Threads, Control(lab), Assign(t)
  PROVE  Moves(lab, t)
<1> DEFINE s == Head(todo[t])
           p == lab[t]
<1>1. /\ ~Idle(t) /\ s.do = "assign" /\ Done(t)
      /\ fBoardFW' = [fBoardFW EXCEPT ![s.on] = s.board]
      /\ UNCHANGED <<fPrevBoardIdentifier, fMutex, chip, fifo, guards, locals, configured>>
  BY DEF Assign, Doing
<1>2. PICK q \in Labels : Leads(t, method[t], s, p, q) /\ EndsFrom(t, method[t], Tail(todo[t]), q)
  BY <1>1, NextLabel
<1>3. /\ s \in Steps /\ p \in Labels /\ Fits(t, method[t], q)
      /\ q = [p EXCEPT !.known = q.known] /\ q.known \subseteq p.known \cup {s.on}
  BY <1>1, <1>2 DEF Leads
<1>4. s.on \in Objects /\ s.board \in Boards /\ Tail(todo[t]) \in Seq(Steps)
  BY <1>1, <1>3, NextLabel DEF Steps
<1>5. \A i \in p.known : fBoardFW[i] \in Boards
  BY DEF Control, ThreadOK
<1>6. /\ \A i \in Objects : fPrevBoardIdentifier[i] \in Boards => fBoardFW[i] \in Boards
      /\ fBoardFW \in [Objects -> Boards \cup {None}]
      /\ fPrevBoardIdentifier \in [Objects -> Boards \cup {None}]
      /\ todo \in [Threads -> Seq(Steps)]
  BY DEF Control, AccessTypeOK
<1>7. /\ q.depth = p.depth /\ q.phase = p.phase /\ q.word = p.word /\ q.reg = p.reg
      /\ q.attempt = p.attempt /\ p.known \subseteq Objects
  BY <1>3 DEF Labels
<1>8. /\ todo' \in [Threads -> Seq(Steps)] /\ todo'[t] = Tail(todo[t])
      /\ \A u \in Threads : u # t => todo'[u] = todo[u]
  BY <1>1, <1>4, <1>6, DoneLeft
<1> HIDE DEF s, p
<1>9. fBoardFW'[s.on] = s.board /\ \A i \in Objects : i # s.on => fBoardFW'[i] = fBoardFW[i]
  <2> DEFINE i0 == s.on
             b0 == s.board
  <2>1. fBoardFW' = [fBoardFW EXCEPT ![i0] = b0] /\ i0 \in Objects
    BY <1>1, <1>4
  <2> HIDE DEF i0, b0
  <2>2. fBoardFW'[i0] = b0 /\ \A i \in Objects : i # i0 => fBoardFW'[i] = fBoardFW[i]
    BY <1>6, <2>1
  <2> QED
    BY <2>2 DEF i0, b0
<1>10. \A i \in q.known : fBoardFW'[i] \in Boards
  BY <1>3, <1>4, <1>5, <1>7, <1>9
<1>11. /\ \A i \in Objects : fPrevBoardIdentifier'[i] \in Boards => fBoardFW'[i] \in Boards
       /\ \A i \in Objects : fBoardFW[i] \in Boards => fBoardFW'[i] \in Boards
       /\ fBoardFW' \in [Objects -> Boards \cup {None}]
       /\ fPrevBoardIdentifier' \in [Objects -> Boards \cup {None}]
  BY <1>1, <1>4, <1>6, <1>9
<1>12. EndsFrom(t, method[t], todo'[t], q)
  BY <1>2, <1>8
<1>13. UNCHANGED <<fMutex, chip, fifo, guards, locals, configured>>
  BY <1>1
<1> QED
  BY <1>3, <1>7, <1>8, <1>10, <1>11, <1>12, <1>13, QuietMoves DEF p

\* setBoard remembers the board.
LEMMA RememberMoves ==
  ASSUME NEW lab, NEW t \in Threads, Control(lab), Remember(t)
  PROVE  Moves(lab, t)
<1> DEFINE s == Head(todo[t])
           p == lab[t]
<1>1. /\ ~Idle(t) /\ s.do = "remember" /\ Done(t)
      /\ fPrevBoardIdentifier' = [fPrevBoardIdentifier EXCEPT ![s.on] = s.board]
      /\ UNCHANGED <<fBoardFW, fMutex, chip, fifo, guards, locals, configured>>
  BY DEF Remember, Doing
<1>2. PICK q \in Labels : Leads(t, method[t], s, p, q) /\ EndsFrom(t, method[t], Tail(todo[t]), q)
  BY <1>1, NextLabel
<1>3. /\ s \in Steps /\ p \in Labels /\ Fits(t, method[t], q) /\ s.on \in p.known
      /\ q = [p EXCEPT !.known = q.known] /\ q.known \subseteq p.known
  BY <1>1, <1>2 DEF Leads
<1>4. s.on \in Objects /\ s.board \in Boards /\ Tail(todo[t]) \in Seq(Steps)
  BY <1>1, <1>3, NextLabel DEF Steps
<1>5. \A i \in p.known : fBoardFW[i] \in Boards
  BY DEF Control, ThreadOK
<1>6. /\ \A i \in Objects : fPrevBoardIdentifier[i] \in Boards => fBoardFW[i] \in Boards
      /\ fBoardFW \in [Objects -> Boards \cup {None}]
      /\ fPrevBoardIdentifier \in [Objects -> Boards \cup {None}]
      /\ todo \in [Threads -> Seq(Steps)]
  BY DEF Control, AccessTypeOK
<1>7. /\ q.depth = p.depth /\ q.phase = p.phase /\ q.word = p.word /\ q.reg = p.reg
      /\ q.attempt = p.attempt /\ p.known \subseteq Objects
  BY <1>3 DEF Labels
<1>8. /\ todo' \in [Threads -> Seq(Steps)] /\ todo'[t] = Tail(todo[t])
      /\ \A u \in Threads : u # t => todo'[u] = todo[u]
  BY <1>1, <1>4, <1>6, DoneLeft
<1> HIDE DEF s, p
<1>9. \A i \in Objects : i # s.on => fPrevBoardIdentifier'[i] = fPrevBoardIdentifier[i]
  BY <1>1, <1>6
<1>10. \A i \in q.known : fBoardFW'[i] \in Boards
  BY <1>1, <1>3, <1>5
<1>11. /\ \A i \in Objects : fPrevBoardIdentifier'[i] \in Boards => fBoardFW'[i] \in Boards
       /\ \A i \in Objects : fBoardFW[i] \in Boards => fBoardFW'[i] \in Boards
       /\ fBoardFW' \in [Objects -> Boards \cup {None}]
       /\ fPrevBoardIdentifier' \in [Objects -> Boards \cup {None}]
  BY <1>1, <1>3, <1>4, <1>5, <1>6, <1>9
<1>12. EndsFrom(t, method[t], todo'[t], q)
  BY <1>2, <1>8
<1>13. UNCHANGED <<fMutex, chip, fifo, guards, locals, configured>>
  BY <1>1
<1> QED
  BY <1>3, <1>7, <1>8, <1>10, <1>11, <1>12, <1>13, QuietMoves DEF p

\* A board method does its work.
LEMMA CallMoves ==
  ASSUME NEW lab, NEW t \in Threads, Control(lab), CallBoard(t)
  PROVE  Moves(lab, t)
<1> DEFINE s == Head(todo[t])
           p == lab[t]
<1>1. /\ ~Idle(t) /\ s.do = "call" /\ Done(t)
      /\ UNCHANGED <<fBoardFW, fPrevBoardIdentifier, fMutex, chip, fifo, guards, locals, configured>>
  BY DEF CallBoard, Doing, objects
<1>2. PICK q \in Labels : Leads(t, method[t], s, p, q) /\ EndsFrom(t, method[t], Tail(todo[t]), q)
  BY <1>1, NextLabel
<1>3. p \in Labels /\ Fits(t, method[t], q) /\ q = p
  BY <1>1, <1>2 DEF Leads
<1>4. Tail(todo[t]) \in Seq(Steps)
  BY <1>1, NextLabel
<1>5. \A i \in p.known : fBoardFW'[i] \in Boards
  BY <1>1 DEF Control, ThreadOK
<1>6. /\ \A i \in Objects : fPrevBoardIdentifier'[i] \in Boards => fBoardFW'[i] \in Boards
      /\ \A i \in Objects : fBoardFW[i] \in Boards => fBoardFW'[i] \in Boards
      /\ fBoardFW' \in [Objects -> Boards \cup {None}]
      /\ fPrevBoardIdentifier' \in [Objects -> Boards \cup {None}]
      /\ todo \in [Threads -> Seq(Steps)]
  BY <1>1 DEF Control, AccessTypeOK
<1>7. /\ todo' \in [Threads -> Seq(Steps)] /\ todo'[t] = Tail(todo[t])
      /\ \A u \in Threads : u # t => todo'[u] = todo[u]
  BY <1>1, <1>4, <1>6, DoneLeft
<1> HIDE DEF s
<1> QED
  BY <1>1, <1>2, <1>3, <1>5, <1>6, <1>7, QuietMoves

\* The mutex is taken, for the first time or once more.
LEMMA AcquireMoves ==
  ASSUME OneBoard, NEW lab, NEW t \in Threads, NEW b, NEW q \in Labels, Control(lab),
         Open(t, b), Acquire(t, b), Tail(todo[t]) \in Seq(Steps),
         q = Label(lab[t].depth + 1, lab[t].known, lab[t].phase,
                   Kept(lab[t].depth, lab[t].word), lab[t].reg, lab[t].attempt),
         Fits(t, method[t], q), EndsFrom(t, method[t], Tail(todo[t]), q),
         UNCHANGED <<objects, chip, fifo, locals, configured>>
  PROVE  Moves(lab, t)
<1> DEFINE p == lab[t]
<1>1. /\ UNCHANGED <<fBoardFW, fPrevBoardIdentifier, chip, fifo, got, saved, method, answer, configured>>
      /\ fMutex' = [fMutex EXCEPT ![b] = [owner |-> t, count |-> @.count + 1]]
      /\ guards' = [guards EXCEPT ![t] = Append(@, b)]
      /\ Done(t)
  BY DEF Acquire, objects, locals
<1>2. /\ p \in Labels /\ ThreadOK(t, p) /\ AccessTypeOK /\ todo \in [Threads -> Seq(Steps)]
      /\ \A i \in Objects : fPrevBoardIdentifier[i] \in Boards => fBoardFW[i] \in Boards
  BY DEF Control
<1>3. /\ q.depth = p.depth + 1 /\ q.known = p.known /\ q.phase = p.phase
      /\ q.word = Kept(p.depth, p.word) /\ q.reg = p.reg /\ q.attempt = p.attempt
  BY DEF Label
<1>4. p.depth \in Nat /\ q.depth \in 0 .. 4 /\ q.depth \in 1 .. 4
  <2>1. p.depth \in 0 .. 4
    BY <1>2, LabelTypes
  <2>2. q.depth \in 0 .. 4
    BY LabelTypes
  <2> QED
    BY <1>3, <2>1, <2>2
<1>5. b \in Boards /\ \A c \in Boards : c = b
  BY DEF Open, OneBoard
<1>6. Apart(lab, t) /\ fMutex[b].count = p.depth
  BY <1>4, OpenApart
<1>7. fMutex' \in [Boards -> [owner : Threads \cup {None}, count : 0 .. 4]]
      /\ fMutex'[b] = [owner |-> t, count |-> q.depth]
  <2> DEFINE r == [owner |-> t, count |-> fMutex[b].count + 1]
  <2>1. r \in [owner : Threads \cup {None}, count : 0 .. 4] /\ r = [owner |-> t, count |-> q.depth]
    BY <1>3, <1>4, <1>6
  <2>2. fMutex' = [fMutex EXCEPT ![b] = r]
    BY <1>1
  <2> HIDE DEF r
  <2>3. fMutex \in [Boards -> [owner : Threads \cup {None}, count : 0 .. 4]]
    BY <1>2 DEF AccessTypeOK
  <2> QED
    BY <1>5, <2>1, <2>2, <2>3
<1>8. \A c \in Boards : fMutex'[c] = [owner |-> t, count |-> q.depth]
  BY <1>5, <1>7
<1>9. \A c \in Boards : fMutex'[c].count = 0 <=> fMutex'[c].owner = None
  <2>1. t # None
    BY AccessAssumption
  <2> QED
    BY <1>4, <1>8, <2>1
<1>10. guards' \in [Threads -> Seq(Boards)] /\ Len(guards'[t]) = q.depth
       /\ \A u \in Threads : u # t => guards'[u] = guards[u]
  <2>1. guards \in [Threads -> Seq(Boards)] /\ Len(guards[t]) = p.depth
    BY <1>2 DEF AccessTypeOK, ThreadOK
  <2>2. Append(guards[t], b) \in Seq(Boards) /\ Len(Append(guards[t], b)) = Len(guards[t]) + 1
    BY <1>5, <2>1
  <2> QED
    BY <1>1, <1>3, <2>1, <2>2
<1>11. AccessTypeOK'
  BY <1>1, <1>2, <1>7, <1>9, <1>10 DEF AccessTypeOK
<1>12. /\ todo' \in [Threads -> Seq(Steps)] /\ todo'[t] = Tail(todo[t])
       /\ \A u \in Threads : u # t => todo'[u] = todo[u]
  BY <1>1, <1>2, DoneLeft
<1>13. OthersKeep(t)
  BY <1>1, <1>10, <1>12 DEF OthersKeep
<1>14. p.word = "waiting" => q.word = "waiting"
  BY <1>2, <1>3 DEF ThreadOK, Fits, Kept
<1> HIDE DEF p
<1>15. ThreadOK(t, q)'
  BY <1>1, <1>2, <1>3, <1>10, <1>12 DEF ThreadOK, Kept
<1>16. Control([lab EXCEPT ![t] = q])'
  <2>1. /\ \A i \in Objects : fPrevBoardIdentifier'[i] \in Boards => fBoardFW'[i] \in Boards
        /\ \A i \in Objects : fBoardFW[i] \in Boards => fBoardFW'[i] \in Boards
    BY <1>1, <1>2
  <2>2. /\ Apart(lab, t)
        /\ q.depth > 0 => \A c \in Boards : fMutex'[c] = [owner |-> t, count |-> q.depth]
        /\ q.depth = 0 => \A c \in Boards : fMutex'[c].owner = None
        /\ \A c \in Boards : fMutex'[c].owner \in {None, t}
    BY <1>4, <1>6, <1>8
  <2>3. fifo' = fifo /\ (lab[t].word = "waiting" => q.word = "waiting")
    BY <1>1, <1>14 DEF p
  <2> QED
    BY <1>11, <1>12, <1>13, <1>15, <2>1, <2>2, <2>3, ControlMoves
<1>17. Quiet(t, lab[t], q)
  BY <1>1, <1>3, <1>4 DEF Quiet, locals, Kept, p
<1> QED
  BY <1>13, <1>16, <1>17 DEF Moves, Turn

\* A guard is taken.
LEMMA TakeLockMoves ==
  ASSUME OneBoard, NEW lab, NEW t \in Threads, Control(lab), TakeLock(t)
  PROVE  Moves(lab, t)
<1> DEFINE s == Head(todo[t])
           p == lab[t]
<1>1. /\ ~Idle(t) /\ s.do = "lock" /\ Open(t, Target(t)) /\ Acquire(t, Target(t))
      /\ UNCHANGED <<objects, chip, fifo, locals, configured>>
  BY DEF TakeLock, Doing
<1>2. PICK q \in Labels : Leads(t, method[t], s, p, q) /\ EndsFrom(t, method[t], Tail(todo[t]), q)
  BY <1>1, NextLabel
<1>3. /\ Fits(t, method[t], q)
      /\ q = Label(p.depth + 1, p.known, p.phase, Kept(p.depth, p.word), p.reg, p.attempt)
  BY <1>1, <1>2 DEF Leads
<1>4. Tail(todo[t]) \in Seq(Steps)
  BY <1>1, NextLabel
<1> QED
  BY <1>1, <1>2, <1>3, <1>4, AcquireMoves

\* ReadData takes its guard, or gives up.
LEMMA TryToLockMoves ==
  ASSUME OneBoard, NEW lab, NEW t \in Threads, Control(lab), TryToLock(t)
  PROVE  Moves(lab, t)
<1> DEFINE s == Head(todo[t])
           p == lab[t]
<1>1. /\ ~Idle(t) /\ s.do = "tryLock"
      /\ UNCHANGED <<objects, chip, fifo, locals, configured>>
  BY DEF TryToLock, Doing
<1>2. PICK q \in Labels : Leads(t, method[t], s, p, q) /\ EndsFrom(t, method[t], Tail(todo[t]), q)
  BY <1>1, NextLabel
<1>3. /\ Fits(t, method[t], q) /\ p.depth = 0 /\ p.phase = "none" /\ p \in Labels
      /\ q = Label(1, p.known, p.phase, "none", p.reg, p.attempt)
  BY <1>1, <1>2 DEF Leads
<1>4. Tail(todo[t]) \in Seq(Steps)
  BY <1>1, NextLabel
<1>5. CASE Open(t, Target(t))
  <2>1. Acquire(t, Target(t))
    BY <1>5 DEF TryToLock
  <2>2. q = Label(p.depth + 1, p.known, p.phase, Kept(p.depth, p.word), p.reg, p.attempt)
    BY <1>3 DEF Kept
  <2> QED
    BY <1>1, <1>2, <1>3, <1>4, <1>5, <2>1, <2>2, AcquireMoves
<1>6. CASE ~Open(t, Target(t))
  <2>1. todo' = [todo EXCEPT ![t] = << >>] /\ UNCHANGED <<fMutex, guards>>
    BY <1>6 DEF TryToLock
  <2>2. UNCHANGED <<fBoardFW, fPrevBoardIdentifier, fMutex, chip, fifo, guards, locals, configured>>
    BY <1>1, <2>1 DEF objects
  <2>3. /\ ThreadOK(t, p) /\ todo \in [Threads -> Seq(Steps)]
        /\ \A i \in Objects : fPrevBoardIdentifier[i] \in Boards => fBoardFW[i] \in Boards
        /\ fBoardFW \in [Objects -> Boards \cup {None}]
        /\ fPrevBoardIdentifier \in [Objects -> Boards \cup {None}]
    BY DEF Control, AccessTypeOK
  <2>4. /\ todo' \in [Threads -> Seq(Steps)] /\ todo'[t] = << >>
        /\ \A u \in Threads : u # t => todo'[u] = todo[u]
    BY <2>1, <2>3
  <2>5. Ended(p)
    BY <1>3 DEF Ended
  <2>6. EndsFrom(t, method[t], todo'[t], p)
    BY <1>3, <2>4, <2>5, RunsNothing DEF EndsFrom
  <2>7. Fits(t, method[t], p)
    BY <2>3 DEF ThreadOK
  <2>8. \A i \in p.known : fBoardFW'[i] \in Boards
    BY <2>2, <2>3 DEF ThreadOK
  <2>9. /\ \A i \in Objects : fPrevBoardIdentifier'[i] \in Boards => fBoardFW'[i] \in Boards
        /\ \A i \in Objects : fBoardFW[i] \in Boards => fBoardFW'[i] \in Boards
        /\ fBoardFW' \in [Objects -> Boards \cup {None}]
        /\ fPrevBoardIdentifier' \in [Objects -> Boards \cup {None}]
    BY <2>2, <2>3
  <2> QED
    BY <1>3, <2>2, <2>4, <2>6, <2>7, <2>8, <2>9, QuietMoves
<1> QED
  BY <1>5, <1>6

\* A guard is let go.
LEMMA ReleaseLockMoves ==
  ASSUME OneBoard, NEW lab, NEW t \in Threads, Control(lab), ReleaseLock(t)
  PROVE  Moves(lab, t)
<1> DEFINE s == Head(todo[t])
           p == lab[t]
           b == Last(guards[t])
<1>1. /\ ~Idle(t) /\ s.do = "unlock" /\ Done(t)
      /\ fMutex' = [fMutex EXCEPT ![b] = Released(@)]
      /\ guards' = [guards EXCEPT ![t] = Front(@)]
      /\ UNCHANGED <<fBoardFW, fPrevBoardIdentifier, chip, fifo, got, saved, method, answer, configured>>
  BY DEF ReleaseLock, Doing, objects, locals
<1>2. PICK q \in Labels : Leads(t, method[t], s, p, q) /\ EndsFrom(t, method[t], Tail(todo[t]), q)
  BY <1>1, NextLabel
<1>3. /\ Fits(t, method[t], q) /\ p \in Labels /\ p.depth > 0 /\ p.word # "waiting"
      /\ q = [p EXCEPT !.depth = @ - 1]
  BY <1>1, <1>2 DEF Leads
<1>4. /\ ThreadOK(t, p) /\ AccessTypeOK /\ todo \in [Threads -> Seq(Steps)]
      /\ \A i \in Objects : fPrevBoardIdentifier[i] \in Boards => fBoardFW[i] \in Boards
  BY DEF Control
<1>5. /\ q.depth = p.depth - 1 /\ q.known = p.known /\ q.phase = p.phase
      /\ q.word = p.word /\ q.reg = p.reg /\ q.attempt = p.attempt
  BY <1>3 DEF Labels
<1>6. p.depth \in 1 .. 4 /\ q.depth \in 0 .. 3
  BY <1>3, <1>5, LabelTypes
<1>7. /\ guards \in [Threads -> Seq(Boards)] /\ Len(guards[t]) = p.depth /\ guards[t] # << >>
      /\ Front(guards[t]) \in Seq(Boards) /\ Len(Front(guards[t])) = p.depth - 1 /\ b \in Boards
  <2>1. guards[t] \in Seq(Boards) /\ guards \in [Threads -> Seq(Boards)] /\ Len(guards[t]) = p.depth
    BY <1>4 DEF AccessTypeOK, ThreadOK
  <2>2. guards[t] # << >>
    BY <1>6, <2>1
  <2>3. /\ Front(guards[t]) = SubSeq(guards[t], 1, Len(guards[t]) - 1)
        /\ Last(guards[t]) = guards[t][Len(guards[t])]
    BY DEF Front, Last
  <2>4. SubSeq(guards[t], 1, Len(guards[t]) - 1) \in Seq(Boards)
        /\ Len(SubSeq(guards[t], 1, Len(guards[t]) - 1)) = p.depth - 1
    BY <1>6, <2>1
  <2>5. guards[t][Len(guards[t])] \in Boards
    BY <1>6, <2>1
  <2> QED
    BY <2>1, <2>2, <2>3, <2>4, <2>5
<1> HIDE DEF b, s
<1>8. \A c \in Boards : c = b
  BY <1>7 DEF OneBoard
<1>9. fMutex[b] = [owner |-> t, count |-> p.depth] /\ Apart(lab, t)
  BY <1>3, <1>7, GuardApart DEF Control
<1> HIDE DEF p
<1>10. Released(fMutex[b]) = [owner |-> IF p.depth = 1 THEN None ELSE t, count |-> q.depth]
  BY <1>5, <1>9 DEF Released
<1>11. /\ fMutex' \in [Boards -> [owner : Threads \cup {None}, count : 0 .. 4]]
       /\ \A c \in Boards : fMutex'[c] = [owner |-> IF p.depth = 1 THEN None ELSE t, count |-> q.depth]
  <2> DEFINE r == [owner |-> IF p.depth = 1 THEN None ELSE t, count |-> q.depth]
  <2>1. r \in [owner : Threads \cup {None}, count : 0 .. 4]
    BY <1>6
  <2>2. fMutex' = [fMutex EXCEPT ![b] = r]
    BY <1>1, <1>10
  <2> HIDE DEF r
  <2>3. fMutex \in [Boards -> [owner : Threads \cup {None}, count : 0 .. 4]]
    BY <1>4 DEF AccessTypeOK
  <2>4. fMutex' \in [Boards -> [owner : Threads \cup {None}, count : 0 .. 4]] /\ fMutex'[b] = r
    BY <1>7, <2>1, <2>2, <2>3
  <2> QED
    BY <1>8, <2>4 DEF r
<1>12. \A c \in Boards : fMutex'[c].owner = (IF p.depth = 1 THEN None ELSE t) /\ fMutex'[c].count = q.depth
  BY <1>11
<1>13. \A c \in Boards : fMutex'[c].count = 0 <=> fMutex'[c].owner = None
  <2>1. t # None
    BY AccessAssumption
  <2> QED
    BY <1>5, <1>6, <1>12, <2>1
<1>14. guards' \in [Threads -> Seq(Boards)] /\ Len(guards'[t]) = q.depth
       /\ \A u \in Threads : u # t => guards'[u] = guards[u]
  BY <1>1, <1>5, <1>7
<1>15. AccessTypeOK'
  BY <1>1, <1>4, <1>11, <1>13, <1>14 DEF AccessTypeOK
<1>16. /\ todo' \in [Threads -> Seq(Steps)] /\ todo'[t] = Tail(todo[t])
       /\ \A u \in Threads : u # t => todo'[u] = todo[u]
  <2>1. Tail(todo[t]) \in Seq(Steps)
    BY <1>1, NextLabel
  <2> QED
    BY <1>1, <1>4, <2>1, DoneLeft
<1>17. OthersKeep(t)
  BY <1>1, <1>14, <1>16 DEF OthersKeep
<1>18. ThreadOK(t, q)'
  BY <1>1, <1>2, <1>3, <1>4, <1>5, <1>14, <1>16 DEF ThreadOK
<1>19. Control([lab EXCEPT ![t] = q])'
  <2>1. /\ \A i \in Objects : fPrevBoardIdentifier'[i] \in Boards => fBoardFW'[i] \in Boards
        /\ \A i \in Objects : fBoardFW[i] \in Boards => fBoardFW'[i] \in Boards
    BY <1>1, <1>4
  <2>2. q.depth > 0 => \A c \in Boards : fMutex'[c] = [owner |-> t, count |-> q.depth]
    BY <1>5, <1>6, <1>11
  <2>3. /\ q.depth = 0 => \A c \in Boards : fMutex'[c].owner = None
        /\ \A c \in Boards : fMutex'[c].owner \in {None, t}
    BY <1>5, <1>6, <1>12
  <2>4. fifo' = fifo /\ (lab[t].word = "waiting" => q.word = "waiting")
    BY <1>1, <1>5 DEF p
  <2> QED
    BY <1>9, <1>15, <1>16, <1>17, <1>18, <2>1, <2>2, <2>3, <2>4, ControlMoves
<1>20. Quiet(t, lab[t], q)
  BY <1>1, <1>3, <1>5 DEF Quiet, locals, p
<1> QED
  BY <1>17, <1>19, <1>20 DEF Moves, Turn

\* A step that leaves the objects and the mutexes.
LEMMA StepMoves ==
  ASSUME NEW lab, NEW t \in Threads, NEW q \in Labels, Control(lab),
         Fits(t, method[t], q), EndsFrom(t, method[t], todo'[t], q),
         todo' \in [Threads -> Seq(Steps)],
         chip' \in [Boards -> [Registers -> Values]], fifo' \in [Boards -> Seq(Values)],
         got' \in [Threads -> Values \cup {NoWord}], saved' \in [Threads -> Values],
         answer' \in [Threads -> Values \cup {NoWord}], configured' \in [Boards -> Routes],
         \A u \in Threads : u # t => /\ todo'[u] = todo[u] /\ got'[u] = got[u]
                                     /\ saved'[u] = saved[u] /\ answer'[u] = answer[u],
         q.depth = lab[t].depth, q.known \subseteq lab[t].known,
         q.word = "read" => got'[t] \in Values,
         \/ fifo' = fifo /\ (lab[t].word = "waiting" => q.word = "waiting")
         \/ q.word = "waiting"
         \/ \A b \in Boards : fifo'[b] = << >>,
         UNCHANGED <<objects, fMutex, guards, method>>
  PROVE  Control([lab EXCEPT ![t] = q])' /\ OthersKeep(t)
<1>1. UNCHANGED <<fBoardFW, fPrevBoardIdentifier, fMutex, guards, method>>
  BY DEF objects
<1>2. AccessTypeOK'
  BY <1>1 DEF Control, AccessTypeOK
<1>3. OthersKeep(t)
  BY <1>1 DEF OthersKeep
<1>4. ThreadOK(t, q)'
  <2>1. ThreadOK(t, lab[t])
    BY DEF Control
  <2> QED
    BY <1>1, <2>1 DEF ThreadOK
<1>5. /\ \A i \in Objects : fPrevBoardIdentifier'[i] \in Boards => fBoardFW'[i] \in Boards
      /\ \A i \in Objects : fBoardFW[i] \in Boards => fBoardFW'[i] \in Boards
  BY <1>1 DEF Control
<1>6. fMutex' = fMutex /\ q.depth = lab[t].depth
  BY <1>1
<1> QED
  BY <1>2, <1>3, <1>4, <1>5, <1>6, ControlMoves

\* What the steps on a chip have in common.
LEMMA StepBasics ==
  ASSUME NEW lab, NEW t \in Threads, Control(lab), ~Idle(t)
  PROVE  /\ lab[t] \in Labels /\ ThreadOK(t, lab[t]) /\ todo \in [Threads -> Seq(Steps)]
         /\ Tail(todo[t]) \in Seq(Steps)
         /\ chip \in [Boards -> [Registers -> Values]] /\ fifo \in [Boards -> Seq(Values)]
         /\ got \in [Threads -> Values \cup {NoWord}] /\ saved \in [Threads -> Values]
         /\ answer \in [Threads -> Values \cup {NoWord}] /\ configured \in [Boards -> Routes]
         /\ Done(t) => /\ todo' \in [Threads -> Seq(Steps)] /\ todo'[t] = Tail(todo[t])
                       /\ \A u \in Threads : u # t => todo'[u] = todo[u]
<1>1. Tail(todo[t]) \in Seq(Steps) /\ todo \in [Threads -> Seq(Steps)]
  BY NextLabel DEF Control
<1>2. Done(t) => /\ todo' \in [Threads -> Seq(Steps)] /\ todo'[t] = Tail(todo[t])
                 /\ \A u \in Threads : u # t => todo'[u] = todo[u]
  BY <1>1, DoneLeft
<1> QED
  BY <1>1, <1>2 DEF Control, AccessTypeOK

\* The chip is asked for a register: its reply comes, or is lost.
LEMMA RequestMoves ==
  ASSUME OneBoard, NEW lab, NEW t \in Threads, Control(lab), Request(t)
  PROVE  Moves(lab, t)
<1> DEFINE s == Head(todo[t])
           p == lab[t]
           b == Target(t)
<1>1. /\ ~Idle(t) /\ s.do = "request" /\ Open(t, b) /\ Done(t)
      /\ \/ fifo' = [fifo EXCEPT ![b] = Append(@, chip[b][s.reg])]
         \/ s.attempt <= MaxLosses /\ UNCHANGED fifo
      /\ UNCHANGED <<objects, fMutex, chip, guards, locals, configured>>
  BY DEF Request, Access, Doing
<1>2. PICK q \in Labels : Leads(t, method[t], s, p, q) /\ EndsFrom(t, method[t], Tail(todo[t]), q)
  BY <1>1, NextLabel
<1>3. /\ s \in Steps /\ p \in Labels /\ Fits(t, method[t], q) /\ p.word # "waiting"
      /\ q = Label(p.depth, p.known, p.phase, "waiting", s.reg, s.attempt)
  BY <1>1, <1>2 DEF Leads
<1>4. s.reg \in Registers
  BY <1>1, <1>3 DEF Steps
<1>5. /\ todo' \in [Threads -> Seq(Steps)] /\ todo'[t] = Tail(todo[t])
      /\ \A u \in Threads : u # t => todo'[u] = todo[u]
      /\ chip \in [Boards -> [Registers -> Values]] /\ fifo \in [Boards -> Seq(Values)]
      /\ got \in [Threads -> Values \cup {NoWord}] /\ saved \in [Threads -> Values]
      /\ answer \in [Threads -> Values \cup {NoWord}] /\ configured \in [Boards -> Routes]
  BY <1>1, StepBasics
<1>6. UNCHANGED <<chip, got, saved, method, answer, configured>>
      /\ UNCHANGED <<objects, fMutex, guards, method>>
  BY <1>1 DEF locals
<1>7. b \in Boards /\ Apart(lab, t) /\ \A c \in Boards : c = b
  BY <1>1, OpenApart DEF Open, OneBoard
<1>8. /\ q.depth = p.depth /\ q.known = p.known /\ q.phase = p.phase
      /\ q.word = "waiting" /\ q.reg = s.reg /\ q.attempt = s.attempt
  BY <1>3 DEF Label
<1> HIDE DEF b, p, s
<1>9. Append(fifo[b], chip[b][s.reg]) \in Seq(Values)
  <2>1. chip[b][s.reg] \in Values /\ fifo[b] \in Seq(Values)
    BY <1>4, <1>5, <1>7
  <2> QED
    BY <2>1
<1>10. fifo' \in [Boards -> Seq(Values)]
  BY <1>1, <1>5, <1>9
<1>11. \A c \in Boards : \/ fifo'[c] = Append(fifo[c], chip[c][q.reg])
                         \/ q.attempt <= MaxLosses /\ fifo'[c] = fifo[c]
  <2>1. CASE fifo' = [fifo EXCEPT ![b] = Append(@, chip[b][s.reg])]
    <3>1. fifo'[b] = Append(fifo[b], chip[b][s.reg])
      BY <1>5, <1>7, <2>1
    <3> QED
      BY <1>7, <1>8, <3>1
  <2>2. CASE s.attempt <= MaxLosses /\ UNCHANGED fifo
    BY <1>8, <2>2
  <2> QED
    BY <1>1, <2>1, <2>2
<1>12. EndsFrom(t, method[t], todo'[t], q)
  BY <1>2, <1>5
<1>13. Control([lab EXCEPT ![t] = q])' /\ OthersKeep(t)
  <2>1. /\ chip' \in [Boards -> [Registers -> Values]]
        /\ got' \in [Threads -> Values \cup {NoWord}] /\ saved' \in [Threads -> Values]
        /\ answer' \in [Threads -> Values \cup {NoWord}] /\ configured' \in [Boards -> Routes]
    BY <1>5, <1>6
  <2>2. \A u \in Threads : u # t => /\ todo'[u] = todo[u] /\ got'[u] = got[u]
                                    /\ saved'[u] = saved[u] /\ answer'[u] = answer[u]
    BY <1>5, <1>6
  <2>3. q.word = "read" => got'[t] \in Values
    BY <1>8
  <2> QED
    BY <1>3, <1>5, <1>6, <1>8, <1>10, <1>12, <2>1, <2>2, <2>3, StepMoves DEF p
<1>14. Asked(t, lab[t], q)
  BY <1>3, <1>6, <1>8, <1>11 DEF Asked, p, locals
<1> QED
  BY <1>7, <1>13, <1>14 DEF Moves, Turn

\* The reply is read back.
LEMMA DrainMoves ==
  ASSUME OneBoard, NEW lab, NEW t \in Threads, Control(lab), Drain(t)
  PROVE  Moves(lab, t)
<1> DEFINE s == Head(todo[t])
           p == lab[t]
           b == Target(t)
<1>1. /\ ~Idle(t) /\ s.do = "drain" /\ Open(t, b) /\ Done(t)
      /\ got' = [got EXCEPT ![t] = IF fifo[b] = << >> THEN NoWord ELSE Head(fifo[b])]
      /\ fifo' = [fifo EXCEPT ![b] = << >>]
      /\ UNCHANGED <<objects, fMutex, chip, guards, saved, method, answer, configured>>
  BY DEF Drain, Access, Doing
<1>2. PICK q \in Labels : Leads(t, method[t], s, p, q) /\ EndsFrom(t, method[t], Tail(todo[t]), q)
  BY <1>1, NextLabel
<1>3. /\ p \in Labels /\ Fits(t, method[t], q) /\ p.word = "waiting"
      /\ q = [p EXCEPT !.word = "replied"]
  BY <1>1, <1>2 DEF Leads
<1>4. /\ todo' \in [Threads -> Seq(Steps)] /\ todo'[t] = Tail(todo[t])
      /\ \A u \in Threads : u # t => todo'[u] = todo[u]
      /\ chip \in [Boards -> [Registers -> Values]] /\ fifo \in [Boards -> Seq(Values)]
      /\ got \in [Threads -> Values \cup {NoWord}] /\ saved \in [Threads -> Values]
      /\ answer \in [Threads -> Values \cup {NoWord}] /\ configured \in [Boards -> Routes]
  BY <1>1, StepBasics
<1>5. b \in Boards /\ Apart(lab, t) /\ \A c \in Boards : c = b
  BY <1>1, OpenApart DEF Open, OneBoard
<1>6. /\ q.depth = p.depth /\ q.known = p.known /\ q.phase = p.phase
      /\ q.word = "replied" /\ q.reg = p.reg /\ q.attempt = p.attempt
  BY <1>3 DEF Labels
<1> HIDE DEF b, p, s
<1> DEFINE word == IF fifo[b] = << >> THEN NoWord ELSE Head(fifo[b])
<1>7. word \in Values \cup {NoWord}
  <2>1. fifo[b] \in Seq(Values)
    BY <1>4, <1>5
  <2> QED
    BY <2>1
<1>8. got' = [got EXCEPT ![t] = word]
  BY <1>1
<1> HIDE DEF word
<1>9. got' \in [Threads -> Values \cup {NoWord}] /\ got'[t] = word
      /\ \A u \in Threads : u # t => got'[u] = got[u]
  BY <1>4, <1>7, <1>8
<1>10. fifo' \in [Boards -> Seq(Values)] /\ \A c \in Boards : fifo'[c] = << >>
  <2>1. << >> \in Seq(Values)
    OBVIOUS
  <2> QED
    BY <1>1, <1>4, <1>5, <2>1
<1>11. EndsFrom(t, method[t], todo'[t], q)
  BY <1>2, <1>4
<1>12. Control([lab EXCEPT ![t] = q])' /\ OthersKeep(t)
  <2>1. /\ chip' \in [Boards -> [Registers -> Values]]
        /\ saved' \in [Threads -> Values]
        /\ answer' \in [Threads -> Values \cup {NoWord}] /\ configured' \in [Boards -> Routes]
    BY <1>1, <1>4
  <2>2. \A u \in Threads : u # t => /\ todo'[u] = todo[u] /\ got'[u] = got[u]
                                    /\ saved'[u] = saved[u] /\ answer'[u] = answer[u]
    BY <1>1, <1>4, <1>9
  <2>3. q.word = "read" => got'[t] \in Values
    BY <1>6
  <2>4. UNCHANGED <<objects, fMutex, guards, method>>
    BY <1>1
  <2> QED
    BY <1>3, <1>4, <1>6, <1>9, <1>10, <1>11, <2>1, <2>2, <2>3, <2>4, StepMoves DEF p
<1>13. Heard(t, lab[t], q)
  <2>1. \A c \in Boards : got'[t] = IF fifo[c] = << >> THEN NoWord ELSE Head(fifo[c])
    BY <1>5, <1>9 DEF word
  <2> QED
    BY <1>1, <1>3, <1>6, <2>1 DEF Heard, p
<1> QED
  BY <1>5, <1>12, <1>13 DEF Moves, Turn

\* The readback is judged: it is done, or tried again.
LEMMA RetryMoves ==
  ASSUME OneBoard, NEW lab, NEW t \in Threads, Control(lab), Retry(t)
  PROVE  Moves(lab, t)
<1> DEFINE s == Head(todo[t])
           p == lab[t]
           b == Target(t)
<1>1. /\ ~Idle(t) /\ s.do = "retry"
      /\ Then(t, IF got[t] = NoWord /\ s.attempt < MaxAttempts
                 THEN Attempt(s.board, s.reg, s.attempt + 1) ELSE << >>)
      /\ got' = [got EXCEPT ![t] = IF got[t] = NoWord /\ s.attempt = MaxAttempts
                                   THEN Garbage ELSE @]
      /\ fifo' = IF got[t] = NoWord THEN [fifo EXCEPT ![b] = << >>] ELSE fifo
      /\ UNCHANGED <<objects, fMutex, chip, guards, saved, method, answer, configured>>
  BY DEF Retry, Access, Doing
<1>2. got[t] = NoWord => Open(t, b)
  BY DEF Retry, Access
<1>3. PICK q \in Labels : Leads(t, method[t], s, p, q) /\ EndsFrom(t, method[t], Tail(todo[t]), q)
  BY <1>1, NextLabel
<1>4. /\ s \in Steps /\ p \in Labels /\ Fits(t, method[t], p) /\ Fits(t, method[t], q)
      /\ s.on \in p.known /\ p.depth \in 1 .. 3 /\ p.word = "replied"
      /\ s.reg = p.reg /\ s.attempt = p.attempt
      /\ q = Label(p.depth, {"chip"}, p.phase, "read", p.reg, 1)
  BY <1>1, <1>3 DEF Leads
<1>5. s.reg \in Registers /\ s.attempt \in 1 .. MaxAttempts /\ s.board \in Boards /\ s.on = "chip"
  BY <1>1, <1>4 DEF Steps
<1>6. /\ todo \in [Threads -> Seq(Steps)] /\ Tail(todo[t]) \in Seq(Steps)
      /\ chip \in [Boards -> [Registers -> Values]] /\ fifo \in [Boards -> Seq(Values)]
      /\ got \in [Threads -> Values \cup {NoWord}] /\ saved \in [Threads -> Values]
      /\ answer \in [Threads -> Values \cup {NoWord}] /\ configured \in [Boards -> Routes]
  BY <1>1, StepBasics
<1>7. /\ q.depth = p.depth /\ q.known = {"chip"} /\ q.phase = p.phase
      /\ q.word = "read" /\ q.reg = p.reg
  BY <1>4 DEF Label
<1>8. got[t] = NoWord => b \in Boards /\ Apart(lab, t) /\ \A c \in Boards : c = b
  BY <1>2, OpenApart DEF Open, OneBoard
<1>9. /\ chip' \in [Boards -> [Registers -> Values]]
      /\ saved' \in [Threads -> Values]
      /\ answer' \in [Threads -> Values \cup {NoWord}] /\ configured' \in [Boards -> Routes]
  BY <1>1, <1>6
<1>10. UNCHANGED <<objects, fMutex, guards, method>>
  BY <1>1
<1> HIDE DEF b, p, s
<1>11. got' \in [Threads -> Values \cup {NoWord}] /\ \A u \in Threads : u # t => got'[u] = got[u]
  <2>1. Garbage \in Values
    BY DEF Values
  <2> QED
    BY <1>1, <1>6, <2>1
<1>12. \/ fifo' = fifo /\ got[t] # NoWord
       \/ \A c \in Boards : fifo'[c] = << >>
  BY <1>1, <1>6, <1>8
<1>13. fifo' \in [Boards -> Seq(Values)]
  <2>1. << >> \in Seq(Values)
    OBVIOUS
  <2> QED
    BY <1>1, <1>6, <2>1
<1>14. CASE got[t] = NoWord /\ s.attempt < MaxAttempts
  <2> DEFINE a == Attempt(s.board, s.reg, s.attempt + 1)
             o == [p EXCEPT !.word = "none"]
             n == s.attempt + 1
  <2>1. /\ o \in Labels /\ o.depth = p.depth /\ o.known = p.known /\ o.phase = p.phase
        /\ o.word = "none" /\ o.reg = p.reg /\ o.attempt = p.attempt
    BY <1>4 DEF Labels
  <2>2. Fits(t, method[t], o)
    BY <1>4, <2>1 DEF Fits
  <2> HIDE DEF o
  <2>3. o = Label(o.depth, o.known, o.phase, o.word, o.reg, o.attempt)
    BY <2>1, PartsLabel
  <2>4. Sound(t, method[t], o.depth, o.known, o.phase, o.word, o.reg, o.attempt)
    BY <2>1, <2>2, <2>3 DEF Sound
  <2>5. n \in 1 .. MaxAttempts
    BY <1>5, <1>14, AccessAssumption
  <2> HIDE DEF n
  <2>6. Runs(t, method[t], Attempt(s.board, s.reg, n),
             Label(o.depth, o.known, o.phase, o.word, o.reg, o.attempt),
             Label(o.depth, {"chip"}, o.phase, "read", s.reg, 1))
    <3>1. o.depth \in 1 .. 3 /\ o.word # "waiting"
      BY <1>4, <2>1
    <3> QED
      BY <1>5, <2>4, <2>5, <3>1, AttemptRuns
  <2>7. Runs(t, method[t], a, o, q)
    BY <1>4, <2>1, <2>3, <2>6 DEF n
  <2>8. a \in Seq(Steps)
    BY <2>7 DEF Runs
  <2>9. Then(t, a)
    BY <1>1, <1>14
  <2> HIDE DEF a
  <2>10. /\ todo' \in [Threads -> Seq(Steps)] /\ todo'[t] = a \o Tail(todo[t])
         /\ \A u \in Threads : u # t => todo'[u] = todo[u]
    BY <1>6, <2>8, <2>9, ThenLeft
  <2>11. EndsFrom(t, method[t], todo'[t], o)
    BY <1>3, <2>7, <2>10, RunsBoth DEF EndsFrom
  <2>12. got' = got
    BY <1>1, <1>5, <1>6, <1>14
  <2>13. \A u \in Threads : u # t => /\ todo'[u] = todo[u] /\ got'[u] = got[u]
                                     /\ saved'[u] = saved[u] /\ answer'[u] = answer[u]
    BY <1>1, <1>11, <2>10
  <2>14. \A c \in Boards : fifo'[c] = << >>
    BY <1>12, <1>14
  <2>15. o.word # "read"
    BY <2>1
  <2>16. Control([lab EXCEPT ![t] = o])' /\ OthersKeep(t)
    BY <1>9, <1>10, <1>11, <1>13, <2>1, <2>2, <2>10, <2>11, <2>13, <2>14, <2>15, StepMoves DEF p
  <2>17. AskedAgain(t, lab[t], o)
    BY <1>1, <2>1, <2>12 DEF AskedAgain, p
  <2> QED
    BY <1>8, <1>14, <2>1, <2>16, <2>17 DEF Moves, Turn
<1>15. CASE ~(got[t] = NoWord /\ s.attempt < MaxAttempts)
  <2>1. Done(t)
    BY <1>1, <1>15 DEF Done
  <2>2. /\ todo' \in [Threads -> Seq(Steps)] /\ todo'[t] = Tail(todo[t])
        /\ \A u \in Threads : u # t => todo'[u] = todo[u]
    BY <1>6, <2>1, DoneLeft
  <2>3. got[t] = NoWord => s.attempt = MaxAttempts
    BY <1>5, <1>15, AccessAssumption
  <2>4. got'[t] \in Values /\ (got[t] # NoWord => got' = got)
    <3>1. CASE got[t] = NoWord
      <4>1. got'[t] = Garbage
        BY <1>1, <1>6, <2>3, <3>1
      <4> QED
        BY <3>1, <4>1 DEF Values
    <3>2. CASE got[t] # NoWord
      <4>1. got' = got
        BY <1>1, <1>6, <3>2
      <4> QED
        BY <1>6, <3>2, <4>1
    <3> QED
      BY <3>1, <3>2
  <2>5. \A u \in Threads : u # t => /\ todo'[u] = todo[u] /\ got'[u] = got[u]
                                    /\ saved'[u] = saved[u] /\ answer'[u] = answer[u]
    BY <1>1, <1>11, <2>2
  <2>6. \/ fifo' = fifo /\ (lab[t].word = "waiting" => q.word = "waiting")
        \/ \A c \in Boards : fifo'[c] = << >>
    BY <1>4, <1>12 DEF p
  <2>7. EndsFrom(t, method[t], todo'[t], q)
    BY <1>3, <2>2
  <2>8. q.known \subseteq p.known
    BY <1>4, <1>5, <1>7
  <2>9. Control([lab EXCEPT ![t] = q])' /\ OthersKeep(t)
    BY <1>4, <1>7, <1>9, <1>10, <1>11, <1>13, <2>2, <2>4, <2>5, <2>6, <2>7, <2>8, StepMoves DEF p
  <2>10. Took(lab, t, lab[t], q)
    <3>1. got[t] = NoWord => p.attempt = MaxAttempts /\ Apart(lab, t)
      BY <1>4, <1>8, <2>3
    <3>2. got[t] # NoWord => UNCHANGED <<got, fifo>>
      BY <1>1, <2>4
    <3> QED
      BY <1>1, <1>4, <1>7, <3>1, <3>2 DEF Took, p
  <2> QED
    BY <2>9, <2>10 DEF Moves, Turn
<1> QED
  BY <1>14, <1>15

\* A register of the chip is written.
LEMMA WriteMoves ==
  ASSUME OneBoard, NEW lab, NEW t \in Threads, Control(lab), Write(t)
  PROVE  Moves(lab, t)
<1> DEFINE s == Head(todo[t])
           p == lab[t]
           b == Target(t)
           value == IF s.value = Saved THEN saved[t] ELSE s.value
<1>1. /\ ~Idle(t) /\ s.do = "write" /\ Open(t, b) /\ Done(t)
      /\ chip' = [chip EXCEPT ![b][s.reg] = value]
      /\ configured' = IF method[t].name = "write" THEN [configured EXCEPT ![b] = value]
                       ELSE configured
      /\ UNCHANGED <<objects, fMutex, fifo, guards, locals>>
  BY DEF Write, Access, Doing
<1>2. PICK q \in Labels : Leads(t, method[t], s, p, q) /\ EndsFrom(t, method[t], Tail(todo[t]), q)
  BY <1>1, NextLabel
<1>3. /\ s \in Steps /\ p \in Labels /\ Fits(t, method[t], p) /\ Fits(t, method[t], q)
      /\ p.depth > 0 /\ p.word # "waiting" /\ Writes(method[t], s.reg, s.value, p.phase, q.phase)
      /\ q = Label(p.depth, p.known, q.phase, "none", p.reg, p.attempt)
  BY <1>1, <1>2 DEF Leads
<1>4. s.reg \in Registers /\ s.value \in Observables \cup Routes \cup {Off, Saved}
  BY <1>1, <1>3 DEF Steps
<1>5. /\ todo' \in [Threads -> Seq(Steps)] /\ todo'[t] = Tail(todo[t])
      /\ \A u \in Threads : u # t => todo'[u] = todo[u]
      /\ chip \in [Boards -> [Registers -> Values]] /\ fifo \in [Boards -> Seq(Values)]
      /\ got \in [Threads -> Values \cup {NoWord}] /\ saved \in [Threads -> Values]
      /\ answer \in [Threads -> Values \cup {NoWord}] /\ configured \in [Boards -> Routes]
  BY <1>1, StepBasics
<1>6. b \in Boards /\ Apart(lab, t) /\ \A c \in Boards : c = b
  BY <1>1, OpenApart DEF Open, OneBoard
<1>7. /\ q.depth = p.depth /\ q.known = p.known /\ q.word = "none" /\ q.reg = p.reg
  BY <1>3 DEF Label
<1>8. value \in Values
  BY <1>4, <1>5 DEF Values
<1>9. Legal(t, method[t])
  BY DEF Control, ThreadOK
<1>10. method[t].name = "write" => value \in Routes
  <2> SUFFICES ASSUME method[t].name = "write" PROVE value \in Routes
    OBVIOUS
  <2>1. s.value = method[t].wanted /\ method[t].wanted \in Routes
    BY <1>3, <1>9 DEF Writes, Fits, Legal, Methods
  <2>2. s.value # Saved
    BY <2>1, AccessAssumption
  <2> QED
    BY <2>1, <2>2
<1> HIDE DEF value, b, p
<1>11. /\ chip' \in [Boards -> [Registers -> Values]]
       /\ \A c \in Boards : chip'[c] = [chip[c] EXCEPT ![s.reg] = value]
  <2> DEFINE r == s.reg
  <2>1. chip' = [chip EXCEPT ![b] = [chip[b] EXCEPT ![r] = value]]
    BY <1>1
  <2>2. chip[b] \in [Registers -> Values] /\ r \in Registers
    BY <1>4, <1>5, <1>6
  <2> HIDE DEF r
  <2>3. [chip[b] EXCEPT ![r] = value] \in [Registers -> Values]
    BY <1>8, <2>2
  <2>4. chip' \in [Boards -> [Registers -> Values]] /\ chip'[b] = [chip[b] EXCEPT ![r] = value]
    BY <1>5, <1>6, <2>1, <2>3
  <2> QED
    BY <1>6, <2>4 DEF r
<1>12. /\ configured' \in [Boards -> Routes]
       /\ IF method[t].name = "write" THEN \A c \in Boards : configured'[c] = value
          ELSE UNCHANGED configured
  <2>1. CASE method[t].name = "write"
    <3>1. configured' = [configured EXCEPT ![b] = value] /\ value \in Routes
      BY <1>1, <1>10, <2>1
    <3>2. configured' \in [Boards -> Routes] /\ configured'[b] = value
      BY <1>5, <1>6, <3>1
    <3> QED
      BY <1>6, <2>1, <3>2
  <2>2. CASE method[t].name # "write"
    BY <1>1, <1>5, <2>2
  <2> QED
    BY <2>1, <2>2
<1>13. UNCHANGED <<got, saved, method, answer>> /\ UNCHANGED <<objects, fMutex, guards, method>>
       /\ fifo' = fifo
  BY <1>1 DEF locals
<1>14. Control([lab EXCEPT ![t] = q])' /\ OthersKeep(t)
  <2>1. /\ fifo' \in [Boards -> Seq(Values)]
        /\ got' \in [Threads -> Values \cup {NoWord}] /\ saved' \in [Threads -> Values]
        /\ answer' \in [Threads -> Values \cup {NoWord}]
    BY <1>5, <1>13
  <2>2. \A u \in Threads : u # t => /\ todo'[u] = todo[u] /\ got'[u] = got[u]
                                    /\ saved'[u] = saved[u] /\ answer'[u] = answer[u]
    BY <1>5, <1>13
  <2>3. fifo' = fifo /\ (lab[t].word = "waiting" => q.word = "waiting")
    BY <1>3, <1>13 DEF p
  <2>4. q.word # "read"
    BY <1>7
  <2>5. EndsFrom(t, method[t], todo'[t], q)
    BY <1>2, <1>5
  <2> QED
    BY <1>3, <1>5, <1>7, <1>11, <1>12, <1>13, <2>1, <2>2, <2>3, <2>4, <2>5, StepMoves DEF p
<1>15. Wrote(t, lab[t], q)
  <2>1. UNCHANGED <<fifo, locals>>
    BY <1>1
  <2>2. \E r \in Registers, v \in Observables \cup Routes \cup {Off, Saved} :
          LET val == IF v = Saved THEN saved[t] ELSE v
          IN /\ Writes(method[t], r, v, p.phase, q.phase)
             /\ \A c \in Boards : chip'[c] = [chip[c] EXCEPT ![r] = val]
             /\ IF method[t].name = "write" THEN \A c \in Boards : configured'[c] = val
                ELSE UNCHANGED configured
    <3> s.reg \in Registers /\ s.value \in Observables \cup Routes \cup {Off, Saved}
      BY <1>4
    <3> WITNESS s.reg \in Registers, s.value \in Observables \cup Routes \cup {Off, Saved}
    <3>1. value = IF s.value = Saved THEN saved[t] ELSE s.value
      BY DEF value
    <3> QED
      BY <1>3, <1>11, <1>12, <3>1
  <2> QED
    BY <1>3, <1>7, <2>1, <2>2 DEF Wrote, p
<1> QED
  BY <1>6, <1>14, <1>15 DEF Moves, Turn

\* The pulses of SendGlobalPulse are sent.
LEMMA ConvertMoves ==
  ASSUME OneBoard, NEW lab, NEW t \in Threads, Control(lab), ConvertADC(t)
  PROVE  Moves(lab, t)
<1> DEFINE s == Head(todo[t])
           p == lab[t]
           b == Target(t)
<1>1. /\ ~Idle(t) /\ s.do = "convert" /\ Open(t, b) /\ Done(t)
      /\ chip' = [chip EXCEPT ![b].MonitoringDataADC = chip[b].MonitorConfig,
                              ![b].GlobalPulseConf = Convert]
      /\ UNCHANGED <<objects, fMutex, fifo, guards, locals, configured>>
  BY DEF ConvertADC, Access, Doing
<1>2. PICK q \in Labels : Leads(t, method[t], s, p, q) /\ EndsFrom(t, method[t], Tail(todo[t]), q)
  BY <1>1, NextLabel
<1>3. /\ p \in Labels /\ Fits(t, method[t], q)
      /\ p.phase = "selected" /\ p.word # "waiting"
      /\ q = Label(p.depth, p.known, "converted", "none", p.reg, p.attempt)
  BY <1>1, <1>2 DEF Leads
<1>4. /\ todo' \in [Threads -> Seq(Steps)] /\ todo'[t] = Tail(todo[t])
      /\ \A u \in Threads : u # t => todo'[u] = todo[u]
      /\ chip \in [Boards -> [Registers -> Values]] /\ fifo \in [Boards -> Seq(Values)]
      /\ got \in [Threads -> Values \cup {NoWord}] /\ saved \in [Threads -> Values]
      /\ answer \in [Threads -> Values \cup {NoWord}] /\ configured \in [Boards -> Routes]
  BY <1>1, StepBasics
<1>5. b \in Boards /\ Apart(lab, t) /\ \A c \in Boards : c = b
  BY <1>1, OpenApart DEF Open, OneBoard
<1>6. /\ q.depth = p.depth /\ q.known = p.known /\ q.phase = "converted" /\ q.word = "none"
      /\ q.reg = p.reg
  BY <1>3 DEF Label
<1> HIDE DEF s, b, p
<1>7. /\ chip' \in [Boards -> [Registers -> Values]]
      /\ \A c \in Boards : /\ chip'[c].MonitoringDataADC = chip[c].MonitorConfig
                           /\ chip'[c].GlobalPulseConf = Convert
  <2> DEFINE c0 == chip[b]
             v0 == chip[b].MonitorConfig
             c1 == [c0 EXCEPT !["MonitoringDataADC"] = v0]
             c2 == [c1 EXCEPT !["GlobalPulseConf"] = Convert]
  <2>1. c0 \in [Registers -> Values] /\ v0 \in Values /\ Convert \in Values
    BY <1>4, <1>5 DEF Registers, Values
  <2>2. chip' = [[chip EXCEPT ![b] = c1] EXCEPT ![b] = [[chip EXCEPT ![b] = c1][b] EXCEPT !["GlobalPulseConf"] = Convert]]
    BY <1>1
  <2> HIDE DEF c0, v0
  <2>3. c1 \in [Registers -> Values] /\ c1["MonitoringDataADC"] = v0
    BY <2>1 DEF Registers
  <2> HIDE DEF c1
  <2>4. c2 \in [Registers -> Values] /\ c2["MonitoringDataADC"] = v0 /\ c2["GlobalPulseConf"] = Convert
    BY <2>1, <2>3 DEF Registers
  <2>5. chip' = [chip EXCEPT ![b] = c2]
    <3> DEFINE d == [chip EXCEPT ![b] = c1]
    <3>1. d \in [Boards -> [Registers -> Values]] /\ d[b] = c1
      BY <1>4, <1>5, <2>3
    <3>2. chip' = [d EXCEPT ![b] = c2]
      BY <2>2, <3>1
    <3> HIDE DEF c2
    <3>3. [d EXCEPT ![b] = c2] = [chip EXCEPT ![b] = c2]
      BY <1>4
    <3> QED
      BY <3>2, <3>3
  <2> HIDE DEF c2
  <2>6. chip' \in [Boards -> [Registers -> Values]] /\ chip'[b] = c2
    BY <1>4, <1>5, <2>4, <2>5
  <2> QED
    BY <1>5, <2>4, <2>6 DEF v0
<1>8. UNCHANGED <<got, saved, method, answer, configured, fifo>>
      /\ UNCHANGED <<objects, fMutex, guards, method>>
  BY <1>1 DEF locals
<1>9. Control([lab EXCEPT ![t] = q])' /\ OthersKeep(t)
  <2>1. /\ fifo' \in [Boards -> Seq(Values)]
        /\ got' \in [Threads -> Values \cup {NoWord}] /\ saved' \in [Threads -> Values]
        /\ answer' \in [Threads -> Values \cup {NoWord}] /\ configured' \in [Boards -> Routes]
    BY <1>4, <1>8
  <2>2. \A u \in Threads : u # t => /\ todo'[u] = todo[u] /\ got'[u] = got[u]
                                    /\ saved'[u] = saved[u] /\ answer'[u] = answer[u]
    BY <1>4, <1>8
  <2>3. fifo' = fifo /\ (lab[t].word = "waiting" => q.word = "waiting")
    BY <1>3, <1>8 DEF p
  <2>4. q.word # "read"
    BY <1>6
  <2>5. EndsFrom(t, method[t], todo'[t], q)
    BY <1>2, <1>4
  <2> QED
    BY <1>3, <1>4, <1>6, <1>7, <1>8, <2>1, <2>2, <2>3, <2>4, <2>5, StepMoves DEF p
<1>10. Converted(t, lab[t], q)
  BY <1>1, <1>3, <1>6, <1>7 DEF Converted, p
<1> QED
  BY <1>5, <1>9, <1>10 DEF Moves, Turn

\* A measurement puts the route aside.
LEMMA SaveMoves ==
  ASSUME NEW lab, NEW t \in Threads, Control(lab), Save(t)
  PROVE  Moves(lab, t)
<1> DEFINE s == Head(todo[t])
           p == lab[t]
<1>1. /\ ~Idle(t) /\ s.do = "save" /\ Done(t)
      /\ saved' = [saved EXCEPT ![t] = got[t]]
      /\ UNCHANGED <<objects, fMutex, chip, fifo, guards, got, method, answer, configured>>
  BY DEF Save, Doing
<1>2. PICK q \in Labels : Leads(t, method[t], s, p, q) /\ EndsFrom(t, method[t], Tail(todo[t]), q)
  BY <1>1, NextLabel
<1>3. /\ p \in Labels /\ Fits(t, method[t], q)
      /\ p.phase = "none" /\ p.word = "read" /\ p.reg = "GlobalPulseConf"
      /\ q = [p EXCEPT !.phase = "saved"]
  BY <1>1, <1>2 DEF Leads
<1>4. /\ todo' \in [Threads -> Seq(Steps)] /\ todo'[t] = Tail(todo[t])
      /\ \A u \in Threads : u # t => todo'[u] = todo[u]
      /\ chip \in [Boards -> [Registers -> Values]] /\ fifo \in [Boards -> Seq(Values)]
      /\ got \in [Threads -> Values \cup {NoWord}] /\ saved \in [Threads -> Values]
      /\ answer \in [Threads -> Values \cup {NoWord}] /\ configured \in [Boards -> Routes]
      /\ ThreadOK(t, p)
  BY <1>1, StepBasics
<1>5. /\ q.depth = p.depth /\ q.known = p.known /\ q.word = p.word
  BY <1>3 DEF Labels
<1>6. got[t] \in Values
  BY <1>3, <1>4 DEF ThreadOK
<1>7. /\ saved' \in [Threads -> Values] /\ saved'[t] = got[t]
      /\ \A u \in Threads : u # t => saved'[u] = saved[u]
  BY <1>1, <1>4, <1>6
<1> HIDE DEF s, p
<1>8. Control([lab EXCEPT ![t] = q])' /\ OthersKeep(t)
  <2>1. /\ fifo' \in [Boards -> Seq(Values)] /\ chip' \in [Boards -> [Registers -> Values]]
        /\ got' \in [Threads -> Values \cup {NoWord}]
        /\ answer' \in [Threads -> Values \cup {NoWord}] /\ configured' \in [Boards -> Routes]
    BY <1>1, <1>4
  <2>2. \A u \in Threads : u # t => /\ todo'[u] = todo[u] /\ got'[u] = got[u]
                                    /\ saved'[u] = saved[u] /\ answer'[u] = answer[u]
    BY <1>1, <1>4, <1>7
  <2>3. fifo' = fifo /\ (lab[t].word = "waiting" => q.word = "waiting")
    BY <1>1, <1>5 DEF p
  <2>4. got'[t] \in Values
    BY <1>1, <1>6
  <2>5. EndsFrom(t, method[t], todo'[t], q)
    BY <1>2, <1>4
  <2>6. UNCHANGED <<objects, fMutex, guards, method>>
    BY <1>1
  <2> QED
    BY <1>3, <1>4, <1>5, <1>7, <2>1, <2>2, <2>3, <2>4, <2>5, <2>6, StepMoves DEF p
<1>9. PutAside(t, lab[t], q)
  BY <1>1, <1>3, <1>7 DEF PutAside, p
<1> QED
  BY <1>8, <1>9 DEF Moves, Turn

\* A method keeps what it has read.
LEMMA AnswerMoves ==
  ASSUME NEW lab, NEW t \in Threads, Control(lab), Answer(t)
  PROVE  Moves(lab, t)
<1> DEFINE s == Head(todo[t])
           p == lab[t]
<1>1. /\ ~Idle(t) /\ s.do = "answer" /\ Done(t)
      /\ answer' = [answer EXCEPT ![t] = got[t]]
      /\ UNCHANGED <<objects, fMutex, chip, fifo, guards, got, saved, method, configured>>
  BY DEF Answer, Doing
<1>2. PICK q \in Labels : Leads(t, method[t], s, p, q) /\ EndsFrom(t, method[t], Tail(todo[t]), q)
  BY <1>1, NextLabel
<1>3. p \in Labels /\ Fits(t, method[t], q) /\ Answers(method[t], p) /\ q = p
  BY <1>1, <1>2 DEF Leads
<1>4. /\ todo' \in [Threads -> Seq(Steps)] /\ todo'[t] = Tail(todo[t])
      /\ \A u \in Threads : u # t => todo'[u] = todo[u]
      /\ chip \in [Boards -> [Registers -> Values]] /\ fifo \in [Boards -> Seq(Values)]
      /\ got \in [Threads -> Values \cup {NoWord}] /\ saved \in [Threads -> Values]
      /\ answer \in [Threads -> Values \cup {NoWord}] /\ configured \in [Boards -> Routes]
      /\ ThreadOK(t, p)
  BY <1>1, StepBasics
<1>5. got[t] \in Values
  BY <1>3, <1>4 DEF ThreadOK, Answers
<1>6. /\ answer' \in [Threads -> Values \cup {NoWord}] /\ answer'[t] = got[t]
      /\ \A u \in Threads : u # t => answer'[u] = answer[u]
  BY <1>1, <1>4, <1>5
<1> HIDE DEF s, p
<1>7. Control([lab EXCEPT ![t] = q])' /\ OthersKeep(t)
  <2>1. /\ fifo' \in [Boards -> Seq(Values)] /\ chip' \in [Boards -> [Registers -> Values]]
        /\ got' \in [Threads -> Values \cup {NoWord}]
        /\ saved' \in [Threads -> Values] /\ configured' \in [Boards -> Routes]
    BY <1>1, <1>4
  <2>2. \A u \in Threads : u # t => /\ todo'[u] = todo[u] /\ got'[u] = got[u]
                                    /\ saved'[u] = saved[u] /\ answer'[u] = answer[u]
    BY <1>1, <1>4, <1>6
  <2>3. fifo' = fifo /\ (lab[t].word = "waiting" => q.word = "waiting")
    BY <1>1, <1>3 DEF p
  <2>4. got'[t] \in Values /\ q.depth = lab[t].depth /\ q.known \subseteq lab[t].known
    BY <1>1, <1>3, <1>5 DEF p
  <2>5. EndsFrom(t, method[t], todo'[t], q)
    BY <1>2, <1>4
  <2>6. UNCHANGED <<objects, fMutex, guards, method>>
    BY <1>1
  <2> QED
    BY <1>3, <1>4, <1>6, <2>1, <2>2, <2>3, <2>4, <2>5, <2>6, StepMoves
<1>8. Answered(t, lab[t], q)
  BY <1>1, <1>3, <1>6 DEF Answered, p
<1> QED
  BY <1>7, <1>8 DEF Moves, Turn

\* Every step of the system moves one thread on.
LEMMA NextMoves ==
  ASSUME OneBoard, NEW lab, Control(lab), AccessNext
  PROVE  \E t \in Threads : Moves(lab, t)
<1>1. PICK t \in Threads : BeginMethod(t) \/ Step(t)
  BY DEF AccessNext
<1> QED
  BY <1>1, BeginMoves, TestMoves, AssignMoves, RememberMoves, TakeLockMoves, TryToLockMoves,
     ReleaseLockMoves, CallMoves, RequestMoves, DrainMoves, RetryMoves, WriteMoves,
     ConvertMoves, SaveMoves, AnswerMoves DEF Step

\* At the start every thread is between two methods.
LEMMA InitControl ==
  ASSUME AccessInit
  PROVE  Control([t \in Threads |-> Fresh])
<1> DEFINE lab == [t \in Threads |-> Fresh]
<1>1. /\ Fresh \in Labels /\ Fresh.depth = 0 /\ Fresh.known = {} /\ Fresh.word = "none"
      /\ Fresh.phase = "none"
  BY FreshSound DEF Fresh, Label
<1>2. lab \in [Threads -> Labels] /\ \A t \in Threads : lab[t] = Fresh
  BY <1>1
<1> HIDE DEF lab
<1>3. AccessTypeOK
  <2>1. chip \in [Boards -> [Registers -> Values]]
    BY DEF AccessInit, Values
  <2>2. << >> \in Seq(Values) /\ << >> \in Seq(Boards)
    OBVIOUS
  <2>3. fMutex \in [Boards -> [owner : Threads \cup {None}, count : 0 .. 4]]
        /\ \A b \in Boards : fMutex[b].count = 0 <=> fMutex[b].owner = None
    BY DEF AccessInit
  <2>4. method \in [Threads -> Methods]
    BY DEF AccessInit, Methods
  <2> QED
    BY <2>1, <2>2, <2>3, <2>4 DEF AccessInit, AccessTypeOK, Values
<1>4. todo \in [Threads -> Seq(Steps)] /\ \A t \in Threads : todo[t] = << >>
  BY DEF AccessInit
<1>5. ASSUME NEW t \in Threads PROVE ThreadOK(t, lab[t])
  <2>1. Legal(t, method[t]) /\ Len(guards[t]) = 0
    BY DEF AccessInit, Legal, Methods
  <2>2. Fits(t, method[t], Fresh)
    BY FreshSound DEF Sound, Fresh
  <2>3. EndsFrom(t, method[t], todo[t], Fresh)
    BY <1>1, <1>4, RunsNothing DEF EndsFrom, Ended
  <2> QED
    BY <1>1, <1>2, <2>1, <2>2, <2>3 DEF ThreadOK
<1>6. /\ \A i \in Objects : fPrevBoardIdentifier[i] \in Boards => fBoardFW[i] \in Boards
      /\ \A b \in Boards : fMutex[b].owner = None /\ fifo[b] = << >>
  BY AccessAssumption DEF AccessInit
<1>7. \A t \in Threads : ~(lab[t].depth > 0)
  BY <1>1, <1>2
<1>8. Control(lab)
  BY <1>2, <1>3, <1>4, <1>5, <1>6, <1>7 DEF Control
<1> QED
  BY <1>8 DEF lab

\* Nothing happens.
LEMMA ControlStutters ==
  ASSUME NEW lab, Control(lab), UNCHANGED accessVars
  PROVE  Control(lab)'
<1>1. UNCHANGED <<fBoardFW, fPrevBoardIdentifier, fMutex, chip, fifo, todo, guards, got, saved,
                  method, answer, configured>>
  BY DEF accessVars, objects, locals
<1>2. AccessTypeOK'
  BY <1>1 DEF Control, AccessTypeOK
<1>3. \A t \in Threads : ThreadOK(t, lab[t])'
  BY <1>1 DEF Control, ThreadOK
<1> QED
  BY <1>1, <1>2, <1>3 DEF Control

\* Some labelling is right in every state.
Controlled == \E lab \in [Threads -> Labels] : Control(lab)

\* With one board there is a labelling in every state.
LEMMA AlwaysControlled == OneBoard => (AccessSpec => []Controlled)
<1> SUFFICES ASSUME OneBoard PROVE AccessSpec => []Controlled
  OBVIOUS
<1>1. AccessInit => Controlled
  BY InitControl DEF Controlled, Control
<1>2. Controlled /\ [AccessNext]_accessVars => Controlled'
  <2> SUFFICES ASSUME Controlled, [AccessNext]_accessVars PROVE Controlled'
    OBVIOUS
  <2>1. PICK lab \in [Threads -> Labels] : Control(lab)
    BY DEF Controlled
  <2>2. CASE AccessNext
    <3>1. PICK t \in Threads : Moves(lab, t)
      BY <2>1, <2>2, NextMoves
    <3>2. PICK q \in Labels : Control([lab EXCEPT ![t] = q])'
      BY <3>1 DEF Moves
    <3>3. [lab EXCEPT ![t] = q] \in [Threads -> Labels]
      BY <3>2
    <3> QED
      BY <3>2, <3>3 DEF Controlled
  <2>3. CASE UNCHANGED accessVars
    BY <2>1, <2>3, ControlStutters DEF Controlled
  <2> QED
    BY <2>2, <2>3
<1> QED
  BY <1>1, <1>2, PTL DEF AccessSpec

\* With one board, however the threads interleave, the mutex of the board counts
\* the guards of the one thread that owns it, and every value has its type.
THEOREM AccessTypeCorrect == OneBoard => (AccessSpec => []AccessTypeOK)
<1> SUFFICES ASSUME OneBoard PROVE AccessSpec => []AccessTypeOK
  OBVIOUS
<1>1. Controlled => AccessTypeOK
  BY DEF Controlled, Control
<1> QED
  BY <1>1, AlwaysControlled, PTL

-----------------------------------------------------------------------------
(* What the monitoring thread measures.                                    *)

\* The read under way of thread t at label p brings v, or nothing yet.
Knows(t, p, b, v) ==
  /\ p.word = "waiting" =>
       \/ fifo[b] = << >> /\ p.attempt <= MaxLosses
       \/ fifo[b] = <<v>>
  /\ p.word = "replied" =>
       \/ got[t] = NoWord /\ p.attempt <= MaxLosses
       \/ got[t] = v
  /\ p.word = "read" => got[t] = v

\* From the selection to the answer, the monitoring thread's observable.
MonitorOK(t, p, b) ==
  /\ p.phase = "selected" => chip[b].MonitorConfig = method[t].wanted
  /\ p.phase = "converted" => chip[b].MonitoringDataADC = method[t].wanted
  /\ p.phase = "converted" /\ p.reg = "MonitoringDataADC" => Knows(t, p, b, method[t].wanted)
  /\ method[t].name = "monitor" /\ answer[t] # NoWord => answer[t] = method[t].wanted

Measured(lab) == \A t \in MonitorThreads, b \in Boards : MonitorOK(t, lab[t], b)

\* While a thread has a guard, the turns of the others leave its chip.
LEMMA Elsewhere ==
  ASSUME NEW lab, NEW t \in Threads, NEW q \in Labels, NEW u \in Threads, Control(lab),
         Turn(lab, t, q), u # t, lab[u].depth > 0
  PROVE  UNCHANGED <<chip, fifo, configured>>
<1>1. ~Apart(lab, t)
  BY DEF Apart
<1> QED
  BY <1>1 DEF Turn, Quiet, Began, Took, PutAside, Answered

\* What the others know they go on knowing.
LEMMA OthersKnow ==
  ASSUME NEW lab, NEW t \in Threads, NEW q \in Labels, NEW u \in Threads, Control(lab),
         Turn(lab, t, q), u # t, NEW b \in Boards, NEW v, Knows(u, lab[u], b, v)
  PROVE  Knows(u, lab[u], b, v)'
<1>1. got'[u] = got[u]
  BY DEF Turn, OthersKeep
<1>2. lab[u].word = "waiting" => lab[u].depth > 0
  BY DEF Control, ThreadOK, Fits
<1>3. lab[u].word = "waiting" => fifo' = fifo
  BY <1>2, Elsewhere
<1> QED
  BY <1>1, <1>3 DEF Knows

\* A reply is none of the values of a register.
LEMMA NoWordIsNoValue == NoWord \notin Values
BY AccessAssumption DEF Values, NoWord, Off, Convert, Garbage

\* Who asks gets what the register holds: the FIFO was empty.
LEMMA AskedKnows ==
  ASSUME NEW lab, NEW t \in Threads, NEW q \in Labels, NEW b \in Boards, Control(lab),
         Apart(lab, t), Asked(t, lab[t], q), NEW v, v = chip[b][q.reg]
  PROVE  Knows(t, q, b, v)'
<1>1. lab[t].word # "waiting" /\ q.word = "waiting"
  BY DEF Asked
<1>2. \A u \in Threads : lab[u].word # "waiting"
  BY <1>1 DEF Apart, Control, ThreadOK, Fits
<1>3. fifo[b] = << >>
  BY <1>2 DEF Control
<1>4. \/ fifo'[b] = Append(fifo[b], v)
      \/ q.attempt <= MaxLosses /\ fifo'[b] = fifo[b]
  BY DEF Asked
<1>5. Append(<< >>, v) = <<v>>
  OBVIOUS
<1>6. fifo'[b] = <<v>> \/ (fifo'[b] = << >> /\ q.attempt <= MaxLosses)
  BY <1>3, <1>4, <1>5
<1> QED
  BY <1>1, <1>6 DEF Knows

\* What a thread knows it goes on knowing until it asks again, because there are
\* more attempts than losses.
LEMMA KnowsOn ==
  ASSUME ReplyInTime, NEW lab, NEW t \in Threads, NEW q \in Labels, NEW b \in Boards,
         Control(lab), Turn(lab, t, q), ~Asked(t, lab[t], q), NEW v \in Values,
         Knows(t, lab[t], b, v)
  PROVE  Knows(t, q, b, v)'
<1> DEFINE p == lab[t]
<1>1. CASE Quiet(t, p, q)
  BY <1>1 DEF Quiet, Knows, locals
<1>2. CASE q.word = "none"
  BY <1>2 DEF Knows
<1>3. CASE Took(lab, t, p, q)
  <2>1. got[t] # NoWord
    BY <1>3, NoWordIsNoValue, AccessAssumption DEF Took, Knows, ReplyInTime
  <2>2. got' = got
    BY <1>3, <2>1 DEF Took
  <2> QED
    BY <1>3, <2>1, <2>2 DEF Took, Knows
<1>4. CASE PutAside(t, p, q)
  <2>1. q.word = p.word /\ p.word = "read" /\ got' = got
    BY <1>4 DEF PutAside, Control, Labels
  <2> QED
    BY <2>1 DEF Knows
<1>5. CASE Answered(t, p, q)
  BY <1>5 DEF Answered, Knows
<1>6. CASE Heard(t, p, q)
  <2>1. p.word = "waiting" /\ q.word = "replied" /\ q.attempt = p.attempt
    BY <1>6 DEF Heard
  <2>2. got'[t] = IF fifo[b] = << >> THEN NoWord ELSE Head(fifo[b])
    BY <1>6 DEF Heard
  <2>3. (fifo[b] = << >> /\ p.attempt <= MaxLosses) \/ fifo[b] = <<v>>
    BY <2>1 DEF Knows
  <2>4. <<v>> # << >> /\ Head(<<v>>) = v
    OBVIOUS
  <2>5. (got'[t] = NoWord /\ q.attempt <= MaxLosses) \/ got'[t] = v
    BY <2>1, <2>2, <2>3, <2>4
  <2> QED
    BY <2>1, <2>5 DEF Knows
<1>7. Began(t, p, q) => q.word = "none"
  BY DEF Began, Fresh, Label
<1>8. AskedAgain(t, p, q) \/ Wrote(t, p, q) \/ Converted(t, p, q) => q.word = "none"
  BY DEF AskedAgain, Wrote, Converted
<1> QED
  BY <1>1, <1>2, <1>3, <1>4, <1>5, <1>6, <1>7, <1>8 DEF Turn

\* The method of a thread changes only when it begins one.
LEMMA MethodStays ==
  ASSUME NEW lab, NEW t \in Threads, NEW q \in Labels, Turn(lab, t, q), ~Began(t, lab[t], q)
  PROVE  method'[t] = method[t]
BY DEF Turn, Quiet, Took, PutAside, Answered, Asked, Heard, AskedAgain, Wrote, Converted, locals

\* A turn of the monitoring thread.
LEMMA MonitorTurn ==
  ASSUME ReplyInTime, NEW lab, NEW t \in MonitorThreads, NEW q \in Labels, NEW b \in Boards,
         Control(lab), Turn(lab, t, q), MonitorOK(t, lab[t], b)
  PROVE  MonitorOK(t, q, b)'
<1> DEFINE p == lab[t]
           m == method[t]
           o == m.wanted
<1>1. t \in Threads /\ t \notin RunThreads
  BY AccessAssumption DEF Threads
<1>2. p \in Labels /\ Legal(t, m) /\ Fits(t, m, p) /\ chip[b] \in [Registers -> Values]
  BY <1>1 DEF Control, ThreadOK, AccessTypeOK
<1>3. p.phase \in {"saved", "selected", "converted"} =>
        m.name = "monitor" /\ o \in Observables /\ o \in Values
  BY <1>1, <1>2 DEF Legal, Fits, Methods, Values
<1>4. CASE Began(t, p, q)
  <2>1. q.phase = "none" /\ answer'[t] = NoWord
    BY <1>4 DEF Began, Fresh, Label
  <2> QED
    BY <2>1 DEF MonitorOK
<1>5. CASE Wrote(t, p, q)
  <2>1. answer' = answer /\ method' = method /\ q.word = "none"
    BY <1>5 DEF Wrote, locals
  <2>2. PICK r \in Registers, v \in Observables \cup Routes \cup {Off, Saved} :
          LET value == IF v = Saved THEN saved[t] ELSE v
          IN /\ Writes(m, r, v, p.phase, q.phase)
             /\ \A c \in Boards : chip'[c] = [chip[c] EXCEPT ![r] = value]
    BY <1>5 DEF Wrote
  <2>3. q.phase = "selected" => r = "MonitorConfig" /\ v = o /\ p.phase = "saved"
    BY <2>2 DEF Writes
  <2>4. q.phase = "selected" => v # Saved
    BY <1>3, <2>3, AccessAssumption
  <2>5. q.phase = "selected" => chip'[b].MonitorConfig = o
    BY <1>2, <2>2, <2>3, <2>4 DEF Registers
  <2>6. q.phase = "converted" => r = "MonitorConfig" /\ p.phase = "converted"
    BY <2>2 DEF Writes
  <2>7. q.phase = "converted" => chip'[b].MonitoringDataADC = o
    <3>1. p.phase = "converted" => chip[b].MonitoringDataADC = o
      BY DEF MonitorOK
    <3> QED
      BY <1>2, <2>2, <2>6, <3>1 DEF Registers
  <2>8. Knows(t, q, b, o)'
    BY <2>1 DEF Knows
  <2> QED
    BY <2>1, <2>5, <2>7, <2>8 DEF MonitorOK
<1>6. CASE Converted(t, p, q)
  <2>1. /\ p.phase = "selected" /\ answer' = answer /\ method' = method /\ q.word = "none"
        /\ q.phase = "converted" /\ chip'[b].MonitoringDataADC = chip[b].MonitorConfig
    BY <1>6 DEF Converted, locals
  <2>2. Knows(t, q, b, o)'
    BY <2>1 DEF Knows
  <2> QED
    BY <2>1, <2>2 DEF MonitorOK
<1>7. CASE ~Began(t, p, q) /\ ~Wrote(t, p, q) /\ ~Converted(t, p, q)
  <2>1. chip' = chip /\ method'[t] = m
    BY <1>1, <1>7, MethodStays
       DEF Turn, Quiet, Took, PutAside, Answered, Asked, Heard, AskedAgain
  <2>2. q.phase \in {"selected", "converted"} => p.phase = q.phase
    BY <1>2, <1>7 DEF Turn, Quiet, Took, PutAside, Answered, Asked, Heard, AskedAgain, Labels
  <2>3. q.phase = "converted" /\ q.reg = "MonitoringDataADC" => Knows(t, q, b, o)'
    <3> PICK w : w = o
      OBVIOUS
    <3>0. o' = w
      BY <2>1
    <3>1. CASE Asked(t, p, q)
      <4>1. Apart(lab, t)
        <5>1. q.word = "waiting" /\ p.word # "waiting"
          BY <3>1 DEF Asked
        <5> QED
          BY <1>2, <1>7, <5>1 DEF Turn, Quiet, Took, PutAside, Answered, Labels
      <4>2. q.phase = "converted" /\ q.reg = "MonitoringDataADC" => w = chip[b][q.reg]
        BY <2>2 DEF MonitorOK
      <4>3. q.phase = "converted" /\ q.reg = "MonitoringDataADC" => Knows(t, q, b, w)'
        BY <1>1, <3>1, <4>1, <4>2, AskedKnows
      <4> QED
        BY <3>0, <4>3 DEF Knows
    <3>2. CASE ~Asked(t, p, q)
      <4>1. q.phase = "converted" => q.reg = p.reg
        BY <1>2, <1>7, <3>2 DEF Turn, Quiet, Took, PutAside, Answered, Heard, AskedAgain, Labels
      <4>2. q.phase = "converted" /\ q.reg = "MonitoringDataADC" => Knows(t, p, b, w) /\ w \in Values
        BY <1>3, <2>2, <4>1 DEF MonitorOK
      <4>3. q.phase = "converted" /\ q.reg = "MonitoringDataADC" => Knows(t, q, b, w)'
        BY <1>1, <3>2, <4>2, KnowsOn
      <4> QED
        BY <3>0, <4>3 DEF Knows
    <3> QED
      BY <3>1, <3>2
  <2>4. m.name = "monitor" /\ answer'[t] # NoWord => answer'[t] = o
    <3>1. CASE Answered(t, p, q)
      <4>1. answer'[t] = got[t] /\ Answers(m, p)
        BY <3>1 DEF Answered
      <4> QED
        BY <4>1 DEF Answers, MonitorOK, Knows
    <3>2. CASE ~Answered(t, p, q)
      <4>1. answer' = answer
        BY <1>7, <3>2 DEF Turn, Quiet, Took, PutAside, Asked, Heard, AskedAgain, locals
      <4> QED
        BY <4>1 DEF MonitorOK
    <3> QED
      BY <3>1, <3>2
  <2> QED
    BY <2>1, <2>2, <2>3, <2>4 DEF MonitorOK
<1> QED
  BY <1>4, <1>5, <1>6, <1>7

\* Whoever moves, the monitoring reads what it has selected.
LEMMA MeasuredMoves ==
  ASSUME ReplyInTime, NEW lab, NEW t \in Threads, NEW q \in Labels, Control(lab),
         Turn(lab, t, q), Measured(lab)
  PROVE  Measured([lab EXCEPT ![t] = q])'
<1> DEFINE next == [lab EXCEPT ![t] = q]
<1>1. next[t] = q /\ \A u \in Threads : u # t => next[u] = lab[u]
  BY DEF Control
<1> HIDE DEF next
<1> SUFFICES ASSUME NEW u \in MonitorThreads, NEW b \in Boards PROVE MonitorOK(u, next[u], b)'
  BY DEF Measured, next
<1>2. u \in Threads /\ MonitorOK(u, lab[u], b)
  BY DEF Threads, Measured
<1>3. CASE u = t
  BY <1>1, <1>2, <1>3, MonitorTurn
<1>4. CASE u # t
  <2>1. method'[u] = method[u] /\ answer'[u] = answer[u] /\ next[u] = lab[u]
    BY <1>1, <1>2, <1>4 DEF Turn, OthersKeep
  <2>2. lab[u].phase # "none" => lab[u].depth > 0
    BY <1>2 DEF Control, ThreadOK, Fits
  <2>3. lab[u].phase # "none" => chip' = chip
    BY <1>2, <1>4, <2>2, Elsewhere
  <2>4. Knows(u, lab[u], b, method[u].wanted) => Knows(u, lab[u], b, method[u].wanted)'
    <3> DEFINE v == method[u].wanted
    <3>1. v' = v
      BY <2>1
    <3>2. Knows(u, lab[u], b, v) => Knows(u, lab[u], b, v)'
      <4>1. PICK w : w = v
        OBVIOUS
      <4>2. Knows(u, lab[u], b, w) => Knows(u, lab[u], b, w)'
        BY <1>2, <1>4, OthersKnow
      <4> QED
        BY <3>1, <4>1, <4>2 DEF Knows
    <3> QED
      BY <3>2
  <2> QED
    BY <1>2, <2>1, <2>3, <2>4 DEF MonitorOK
<1> QED
  BY <1>3, <1>4

-----------------------------------------------------------------------------
(* The route of the global pulse.                                          *)

\* A measurement has overwritten the route: one of a calibration, one of the
\* monitoring thread.
Dirty(lab) == \E r \in RunThreads : lab[r].phase = "converted"
Busy(lab)  == \E t \in MonitorThreads : lab[t].phase = "converted"

\* A calibration knows the configured route, from whatever it reads or has put
\* aside while no measurement of its own is under way.
RunOK(t, p, b) ==
  /\ p.phase \in {"saved", "selected", "converted"} => saved[t] = configured[b]
  /\ p.phase \in {"none", "written"} /\ p.reg = "GlobalPulseConf" => Knows(t, p, b, configured[b])
  /\ p.phase = "written" => method[t].wanted = configured[b]
  /\ method[t].name = "write" /\ answer[t] # NoWord => answer[t] = method[t].wanted

\* The monitoring thread knows the route it has found, which is the configured
\* one unless it has come in the middle of a measurement of a calibration.
MonitorRoute(lab, t, p, b) ==
  /\ p.phase = "none" /\ p.depth > 0 /\ p.reg = "GlobalPulseConf" =>
       Knows(t, p, b, chip[b].GlobalPulseConf)
  /\ ~Dirty(lab) /\ p.phase \in {"saved", "selected", "converted"} => saved[t] = configured[b]

RouteOK(lab, b) == ~Dirty(lab) /\ ~Busy(lab) => chip[b].GlobalPulseConf = configured[b]

Routed(lab) ==
  \A b \in Boards : /\ RouteOK(lab, b)
                    /\ \A t \in RunThreads : RunOK(t, lab[t], b)
                    /\ \A t \in MonitorThreads : MonitorRoute(lab, t, lab[t], b)

\* Writing by t to the chip changes these.
LEMMA RouteWritten ==
  ASSUME NEW lab, NEW t \in Threads, NEW q \in Labels, NEW b \in Boards, Control(lab),
         Wrote(t, lab[t], q),
         t \in RunThreads => RunOK(t, lab[t], b),
         t \in MonitorThreads => MonitorRoute(lab, t, lab[t], b)
  PROVE  \* a measurement selects, or switches off
         \/ /\ chip'[b].GlobalPulseConf = chip[b].GlobalPulseConf /\ configured'[b] = configured[b]
            /\ \/ lab[t].phase = "saved" /\ q.phase = "selected"
               \/ lab[t].phase = "converted" /\ q.phase = "converted"
         \* a route is written
         \/ /\ t \in RunThreads /\ lab[t].phase = "none" /\ q.phase = "written"
            /\ chip'[b].GlobalPulseConf = method[t].wanted /\ configured'[b] = method[t].wanted
         \* a measurement restores the route
         \/ /\ lab[t].phase = "converted" /\ q.phase = "none" /\ configured'[b] = configured[b]
            /\ t \in RunThreads \/ ~Dirty(lab) => chip'[b].GlobalPulseConf = configured[b]
<1> DEFINE p == lab[t]
           m == method[t]
<1>1. PICK r \in Registers, v \in Observables \cup Routes \cup {Off, Saved} :
        LET value == IF v = Saved THEN saved[t] ELSE v
        IN /\ Writes(m, r, v, p.phase, q.phase)
           /\ \A c \in Boards : chip'[c] = [chip[c] EXCEPT ![r] = value]
           /\ IF m.name = "write" THEN \A c \in Boards : configured'[c] = value
              ELSE UNCHANGED configured
  BY DEF Wrote
<1> DEFINE value == IF v = Saved THEN saved[t] ELSE v
<1>2. p \in Labels /\ Legal(t, m) /\ Fits(t, m, p) /\ chip[b] \in [Registers -> Values]
  BY DEF Control, ThreadOK, AccessTypeOK
<1>3. chip'[b] = [chip[b] EXCEPT ![r] = value]
  BY <1>1
<1> HIDE DEF value
<1>4. /\ chip'[b]["GlobalPulseConf"] = IF r = "GlobalPulseConf" THEN value
                                       ELSE chip[b]["GlobalPulseConf"]
  BY <1>2, <1>3 DEF Registers
<1>5. p.phase \in {"saved", "selected", "converted"} => m.name # "write" /\ configured' = configured
  BY <1>1, <1>2 DEF Fits
<1>6. CASE r = "MonitorConfig"
  <2>1. \/ p.phase = "saved" /\ q.phase = "selected"
        \/ p.phase = "converted" /\ q.phase = "converted"
    BY <1>1, <1>6 DEF Writes
  <2>2. configured' = configured
    BY <1>5, <2>1
  <2> QED
    BY <1>4, <1>6, <2>1, <2>2
<1>7. CASE r = "GlobalPulseConf" /\ m.name = "write" /\ v = m.wanted
           /\ p.phase = "none" /\ q.phase = "written"
  <2>1. t \in RunThreads /\ m.wanted \in Routes
    BY <1>2, <1>7 DEF Legal, Methods
  <2>2. value = m.wanted
    BY <1>7, <2>1, AccessAssumption DEF value
  <2>3. configured'[b] = value
    BY <1>1, <1>7 DEF value
  <2> QED
    BY <1>4, <1>7, <2>1, <2>2, <2>3
<1>8. CASE r = "GlobalPulseConf" /\ v = Saved /\ p.phase = "converted" /\ q.phase = "none"
  <2>1. configured' = configured
    BY <1>5, <1>8
  <2>2. value = saved[t]
    BY <1>8 DEF value
  <2>3. t \in RunThreads => saved[t] = configured[b]
    BY <1>8 DEF RunOK
  <2>4. t \in MonitorThreads /\ ~Dirty(lab) => saved[t] = configured[b]
    BY <1>8 DEF MonitorRoute
  <2>5. t \in RunThreads \/ t \in MonitorThreads
    BY DEF Threads
  <2> QED
    BY <1>4, <1>8, <2>1, <2>2, <2>3, <2>4, <2>5
<1> QED
  BY <1>1, <1>6, <1>7, <1>8 DEF Writes

\* A turn that neither writes nor converts leaves the chip and the route.
LEMMA SteadyTurn ==
  ASSUME NEW lab, NEW t \in Threads, NEW q \in Labels, Control(lab), Turn(lab, t, q),
         ~Wrote(t, lab[t], q), ~Converted(t, lab[t], q)
  PROVE  /\ chip' = chip /\ configured' = configured
         /\ q.phase = "converted" <=> lab[t].phase = "converted"
         /\ q.phase \in {"selected", "converted", "written"} => lab[t].phase = q.phase
         /\ q.phase = "saved" =>
              \/ lab[t].phase = "saved" /\ saved' = saved
              \/ PutAside(t, lab[t], q)
         /\ q.phase # "saved" => saved' = saved
         /\ q.phase = "none" => lab[t].phase = "none" \/ Began(t, lab[t], q)
<1> DEFINE p == lab[t]
<1>1. p \in Labels
  BY DEF Control
<1>2. CASE Quiet(t, p, q)
  BY <1>2 DEF Quiet, locals
<1>3. CASE Began(t, p, q)
  <2>1. q.phase = "none"
    BY <1>3 DEF Began, Fresh, Label
  <2> QED
    BY <1>3, <2>1 DEF Began
<1>4. CASE PutAside(t, p, q)
  <2>1. q.phase = "saved"
    BY <1>1, <1>4 DEF PutAside, Labels
  <2> QED
    BY <1>4, <2>1 DEF PutAside
<1>5. CASE Took(lab, t, p, q)
  BY <1>5 DEF Took
<1>6. CASE Answered(t, p, q)
  BY <1>6 DEF Answered
<1>7. CASE Asked(t, p, q)
  BY <1>7 DEF Asked, locals
<1>8. CASE Heard(t, p, q)
  BY <1>8 DEF Heard
<1>9. CASE AskedAgain(t, p, q)
  BY <1>9 DEF AskedAgain
<1> QED
  BY <1>2, <1>3, <1>4, <1>5, <1>6, <1>7, <1>8, <1>9 DEF Turn

\* Who reads a register of the chip alone.
LEMMA AskedApart ==
  ASSUME NEW lab, NEW t \in Threads, NEW q \in Labels, Control(lab), Turn(lab, t, q),
         Asked(t, lab[t], q)
  PROVE  Apart(lab, t)
<1>1. q.word = "waiting" /\ lab[t].word # "waiting" /\ lab[t] \in Labels
  BY DEF Asked, Control
<1>2. ~Quiet(t, lab[t], q) /\ ~Took(lab, t, lab[t], q) /\ ~Answered(t, lab[t], q)
  BY <1>1 DEF Quiet, Took, Answered
<1>3. ~Began(t, lab[t], q)
  BY <1>1 DEF Began, Fresh, Label
<1>4. ~PutAside(t, lab[t], q)
  BY <1>1 DEF PutAside, Labels
<1> QED
  BY <1>2, <1>3, <1>4 DEF Turn

\* Who writes or converts is alone too.
LEMMA WritesApart ==
  ASSUME NEW lab, NEW t \in Threads, NEW q \in Labels, NEW b \in Boards, Control(lab),
         Turn(lab, t, q), Wrote(t, lab[t], q) \/ Converted(t, lab[t], q)
  PROVE  Apart(lab, t)
<1> DEFINE p == lab[t]
<1>1. CASE Wrote(t, p, q)
  BY <1>1, GuardApart DEF Wrote
<1>2. CASE Converted(t, p, q)
  <2>1. p \in Labels /\ p.phase = "selected" /\ q.phase = "converted"
    BY <1>2 DEF Converted, Control
  <2>2. ~Quiet(t, p, q) /\ ~Took(lab, t, p, q) /\ ~Answered(t, p, q)
    BY <2>1 DEF Quiet, Took, Answered
  <2>3. ~Began(t, p, q)
    BY <2>1 DEF Began, Fresh, Label
  <2>4. ~PutAside(t, p, q)
    BY <2>1 DEF PutAside, Labels
  <2> QED
    BY <2>2, <2>3, <2>4 DEF Turn
<1> QED
  BY <1>1, <1>2

\* With one calibration, what a turn of it, one of a monitoring thread, and one
\* that neither ends nor begins a measurement say of the measurements.
LEMMA CalibrationMeasures ==
  ASSUME OneRun, NEW lab \in [Threads -> Labels], NEW t \in RunThreads, NEW q \in Labels,
         NEW next, next = [lab EXCEPT ![t] = q]
  PROVE  /\ Dirty(lab) <=> lab[t].phase = "converted"
         /\ Dirty(next) <=> q.phase = "converted"
         /\ Busy(next) <=> Busy(lab)
<1>1. t \in Threads /\ t \notin MonitorThreads /\ MonitorThreads \subseteq Threads
  BY AccessAssumption DEF Threads
<1>2. next[t] = q /\ \A u \in Threads : u # t => next[u] = lab[u]
  BY <1>1
<1>3. \A u \in MonitorThreads : next[u] = lab[u]
  BY <1>1, <1>2
<1>4. \A r \in RunThreads : r = t
  BY DEF OneRun
<1>5. Dirty(lab) <=> lab[t].phase = "converted"
  BY <1>4 DEF Dirty
<1>6. Dirty(next) <=> q.phase = "converted"
  BY <1>2, <1>4 DEF Dirty
<1>7. Busy(next) <=> Busy(lab)
  BY <1>3 DEF Busy
<1> QED
  BY <1>5, <1>6, <1>7

LEMMA MonitorMeasures ==
  ASSUME NEW lab \in [Threads -> Labels], NEW t \in MonitorThreads, NEW q \in Labels,
         NEW next, next = [lab EXCEPT ![t] = q]
  PROVE  /\ Dirty(next) <=> Dirty(lab)
         /\ ~Busy(next) => q.phase # "converted"
<1>1. t \in Threads /\ t \notin RunThreads /\ RunThreads \subseteq Threads
  BY AccessAssumption DEF Threads
<1>2. next[t] = q /\ \A u \in Threads : u # t => next[u] = lab[u]
  BY <1>1
<1>3. \A u \in RunThreads : next[u] = lab[u]
  BY <1>1, <1>2
<1> QED
  BY <1>2, <1>3 DEF Dirty, Busy

LEMMA SameMeasures ==
  ASSUME NEW lab \in [Threads -> Labels], NEW t \in Threads, NEW q \in Labels,
         NEW next, next = [lab EXCEPT ![t] = q],
         q.phase = "converted" <=> lab[t].phase = "converted"
  PROVE  /\ Busy(next) <=> Busy(lab)
         /\ Dirty(next) <=> Dirty(lab)
<1>1. RunThreads \subseteq Threads /\ MonitorThreads \subseteq Threads
  BY DEF Threads
<1>2. \A u \in Threads : next[u].phase = "converted" <=> lab[u].phase = "converted"
  <2> SUFFICES ASSUME NEW u \in Threads
               PROVE  next[u].phase = "converted" <=> lab[u].phase = "converted"
    OBVIOUS
  <2>1. CASE u = t
    BY <2>1
  <2>2. CASE u # t
    BY <2>2
  <2> QED
    BY <2>1, <2>2
<1> QED
  BY <1>1, <1>2 DEF Dirty, Busy

\* When nobody else has a guard, the monitoring threads but t measure nothing.
LEMMA ApartMonitors ==
  ASSUME NEW lab, NEW t \in Threads, Control(lab), Apart(lab, t)
  PROVE  \A u \in MonitorThreads : u # t => lab[u].phase = "none" /\ lab[u].depth = 0
<1> SUFFICES ASSUME NEW u \in MonitorThreads, u # t
             PROVE  lab[u].phase = "none" /\ lab[u].depth = 0
  OBVIOUS
<1>1. u \in Threads
  BY DEF Threads
<1>2. lab[u].depth = 0 /\ Fits(u, method[u], lab[u])
  BY <1>1 DEF Apart, Control, ThreadOK
<1> QED
  BY <1>2 DEF Fits

\* The route after a turn.
LEMMA RouteTurn ==
  ASSUME OneRun, NEW lab \in [Threads -> Labels], NEW t \in Threads, NEW q \in Labels,
         NEW b \in Boards, NEW next, next = [lab EXCEPT ![t] = q],
         Control(lab), Turn(lab, t, q), Routed(lab)
  PROVE  RouteOK(next, b)'
<1> DEFINE p == lab[t]
<1>1. /\ t \in RunThreads => /\ Dirty(lab) <=> p.phase = "converted"
                             /\ Dirty(next) <=> q.phase = "converted"
                             /\ Busy(next) <=> Busy(lab)
      /\ t \in MonitorThreads => /\ Dirty(next) <=> Dirty(lab)
                                 /\ ~Busy(next) => q.phase # "converted"
  <2>1. ASSUME t \in RunThreads PROVE /\ Dirty(lab) <=> p.phase = "converted"
                                      /\ Dirty(next) <=> q.phase = "converted"
                                      /\ Busy(next) <=> Busy(lab)
    BY <2>1, CalibrationMeasures
  <2>2. ASSUME t \in MonitorThreads PROVE /\ Dirty(next) <=> Dirty(lab)
                                          /\ ~Busy(next) => q.phase # "converted"
    BY <2>2, MonitorMeasures
  <2> QED
    BY <2>1, <2>2
<1>2. t \in RunThreads \/ t \in MonitorThreads
  BY DEF Threads
<1>3. /\ RouteOK(lab, b)
      /\ t \in RunThreads => RunOK(t, lab[t], b)
      /\ t \in MonitorThreads => MonitorRoute(lab, t, lab[t], b)
  BY DEF Routed
<1> SUFFICES ASSUME ~Dirty(next), ~Busy(next)
             PROVE  chip'[b].GlobalPulseConf = configured'[b]
  BY DEF RouteOK
<1>4. q.phase # "converted"
  BY <1>1, <1>2
<1>5. CASE Wrote(t, p, q)
  <2>1. \/ /\ chip'[b].GlobalPulseConf = chip[b].GlobalPulseConf /\ configured'[b] = configured[b]
           /\ p.phase = "saved" /\ q.phase = "selected"
        \/ chip'[b].GlobalPulseConf = method[t].wanted /\ configured'[b] = method[t].wanted
        \/ /\ configured'[b] = configured[b]
           /\ t \in RunThreads \/ ~Dirty(lab) => chip'[b].GlobalPulseConf = configured[b]
    BY <1>3, <1>4, <1>5, RouteWritten
  <2>2. CASE p.phase = "saved" /\ q.phase = "selected"
               /\ chip'[b].GlobalPulseConf = chip[b].GlobalPulseConf /\ configured'[b] = configured[b]
    <3>1. (Busy(next) <=> Busy(lab)) /\ (Dirty(next) <=> Dirty(lab))
      BY <2>2, SameMeasures
    <3> QED
      BY <1>3, <2>2, <3>1 DEF RouteOK
  <2>3. t \in RunThreads \/ ~Dirty(lab)
    BY <1>1, <1>2
  <2> QED
    BY <2>1, <2>2, <2>3
<1>6. CASE Converted(t, p, q)
  BY <1>4, <1>6 DEF Converted
<1>7. CASE ~Wrote(t, p, q) /\ ~Converted(t, p, q)
  <2>1. /\ chip' = chip /\ configured' = configured
        /\ q.phase = "converted" <=> p.phase = "converted"
    BY <1>7, SteadyTurn
  <2>2. (Busy(next) <=> Busy(lab)) /\ (Dirty(next) <=> Dirty(lab))
    BY <2>1, SameMeasures
  <2> QED
    BY <1>3, <2>1, <2>2 DEF RouteOK
<1> QED
  BY <1>5, <1>6, <1>7

\* A turn of the thread that runs calibrations.
LEMMA RunTurn ==
  ASSUME OneRun, ReplyInTime, NEW lab \in [Threads -> Labels], NEW t \in RunThreads,
         NEW q \in Labels, NEW b \in Boards, Control(lab), Turn(lab, t, q), Routed(lab)
  PROVE  RunOK(t, q, b)'
<1> DEFINE p == lab[t]
           m == method[t]
<1>1. t \in Threads /\ RouteOK(lab, b) /\ RunOK(t, p, b)
  BY DEF Threads, Routed
<1>2. p \in Labels /\ Legal(t, m) /\ Fits(t, m, p) /\ configured[b] \in Values
  BY <1>1 DEF Control, ThreadOK, AccessTypeOK, Values
<1>3. Dirty(lab) <=> p.phase = "converted"
  BY <1>1 DEF Dirty, OneRun
<1>4. Apart(lab, t) => ~Busy(lab)
  <2>1. t \notin MonitorThreads
    BY AccessAssumption
  <2> QED
    BY <1>1, <2>1, ApartMonitors DEF Busy
<1>5. CASE Began(t, p, q)
  <2>1. q.phase = "none" /\ q.reg = "MonitorConfig" /\ answer'[t] = NoWord
    BY <1>5 DEF Began, Fresh, Label
  <2> QED
    BY <2>1 DEF RunOK
<1>6. CASE Wrote(t, p, q)
  <2>1. answer' = answer /\ method' = method /\ saved' = saved /\ q.word = "none"
    BY <1>6 DEF Wrote, locals
  <2>2. Knows(t, q, b, configured[b])'
    BY <2>1 DEF Knows
  <2>3. \/ /\ configured'[b] = configured[b]
           /\ p.phase \in {"saved", "converted"} /\ q.phase \in {"selected", "converted"}
        \/ q.phase = "written" /\ configured'[b] = m.wanted
        \/ q.phase = "none"
    <3>1. t \in MonitorThreads => MonitorRoute(lab, t, lab[t], b)
      BY AccessAssumption
    <3> QED
      BY <1>1, <1>6, <3>1, RouteWritten
  <2> QED
    BY <1>1, <2>1, <2>2, <2>3 DEF RunOK
<1>7. CASE Converted(t, p, q)
  <2>1. /\ p.phase = "selected" /\ q.phase = "converted"
        /\ saved' = saved /\ answer' = answer /\ method' = method /\ configured' = configured
    BY <1>7 DEF Converted, locals
  <2> QED
    BY <1>1, <2>1 DEF RunOK
<1>8. CASE ~Began(t, p, q) /\ ~Wrote(t, p, q) /\ ~Converted(t, p, q)
  <2>1. /\ chip' = chip /\ configured' = configured /\ method'[t] = m
        /\ q.phase \in {"selected", "converted", "written", "none"} => p.phase = q.phase /\ saved' = saved
        /\ q.phase = "saved" => \/ p.phase = "saved" /\ saved' = saved
                                \/ PutAside(t, p, q)
    BY <1>1, <1>8, SteadyTurn, MethodStays
  <2>2. q.phase \in {"saved", "selected", "converted"} => saved'[t] = configured[b]
    <3>1. PutAside(t, p, q) => saved'[t] = configured[b]
      BY <1>1 DEF PutAside, RunOK, Knows
    <3> QED
      BY <1>1, <2>1, <3>1 DEF RunOK
  <2>3. q.phase \in {"none", "written"} /\ q.reg = "GlobalPulseConf" => Knows(t, q, b, configured[b])'
    <3> SUFFICES ASSUME q.phase \in {"none", "written"}, q.reg = "GlobalPulseConf"
                 PROVE  Knows(t, q, b, configured[b])'
      OBVIOUS
    <3> PICK w \in Values : w = configured[b]
      BY <1>2
    <3>1. configured'[b] = w /\ p.phase = q.phase
      BY <2>1
    <3>2. CASE Asked(t, p, q)
      <4>1. Apart(lab, t)
        BY <1>1, <3>2, AskedApart
      <4>2. w = chip[b][q.reg]
        BY <1>1, <1>3, <1>4, <3>1, <4>1 DEF RouteOK
      <4>3. Knows(t, q, b, w)'
        BY <1>1, <3>2, <4>1, <4>2, AskedKnows
      <4> QED
        BY <3>1, <4>3 DEF Knows
    <3>3. CASE ~Asked(t, p, q)
      <4>1. q.reg = p.reg
        BY <1>2, <1>8, <3>3 DEF Turn, Quiet, Took, PutAside, Answered, Heard, AskedAgain, Labels
      <4>2. Knows(t, p, b, w)
        BY <1>1, <3>1, <4>1 DEF RunOK
      <4>3. Knows(t, q, b, w)'
        BY <1>1, <3>3, <4>2, KnowsOn
      <4> QED
        BY <3>1, <4>3 DEF Knows
    <3> QED
      BY <3>2, <3>3
  <2>4. m.name = "write" /\ answer'[t] # NoWord => answer'[t] = m.wanted
    <3>1. CASE Answered(t, p, q)
      <4>1. answer'[t] = got[t] /\ Answers(m, p)
        BY <3>1 DEF Answered
      <4> QED
        BY <1>1, <4>1 DEF Answers, RunOK, Knows
    <3>2. CASE ~Answered(t, p, q)
      <4>1. answer' = answer
        BY <1>8, <3>2 DEF Turn, Quiet, Took, PutAside, Asked, Heard, AskedAgain, locals
      <4> QED
        BY <1>1, <4>1 DEF RunOK
    <3> QED
      BY <3>1, <3>2
  <2> QED
    BY <1>1, <2>1, <2>2, <2>3, <2>4 DEF RunOK
<1> QED
  BY <1>5, <1>6, <1>7, <1>8

\* A turn of the monitoring thread, and the route it has found.
LEMMA MonitorRouteTurn ==
  ASSUME OneRun, ReplyInTime, NEW lab \in [Threads -> Labels], NEW t \in MonitorThreads,
         NEW q \in Labels, NEW b \in Boards, NEW next, next = [lab EXCEPT ![t] = q],
         Control(lab), Turn(lab, t, q), Routed(lab), Fits(t, method'[t], q)
  PROVE  MonitorRoute(next, t, q, b)'
<1> DEFINE p == lab[t]
           m == method[t]
<1>1. t \in Threads /\ t \notin RunThreads /\ RouteOK(lab, b) /\ MonitorRoute(lab, t, p, b)
  BY AccessAssumption DEF Threads, Routed
<1>2. p \in Labels /\ chip[b] \in [Registers -> Values] /\ chip[b].GlobalPulseConf \in Values
  BY <1>1 DEF Control, AccessTypeOK, Registers
<1>3. Dirty(next) <=> Dirty(lab)
  BY MonitorMeasures
<1>4. CASE Began(t, p, q)
  <2>1. q.phase = "none" /\ q.depth = 0
    BY <1>4 DEF Began, Fresh, Label
  <2> QED
    BY <2>1 DEF MonitorRoute
<1>5. CASE Wrote(t, p, q)
  <2>1. saved' = saved /\ q.word = "none"
    BY <1>5 DEF Wrote, locals
  <2>2. Knows(t, q, b, chip[b].GlobalPulseConf)'
    BY <2>1 DEF Knows
  <2>3. \/ /\ configured'[b] = configured[b]
           /\ p.phase \in {"saved", "converted"} /\ q.phase \in {"selected", "converted"}
        \/ q.phase = "none"
    BY <1>1, <1>5, RouteWritten
  <2> QED
    BY <1>1, <1>3, <2>1, <2>2, <2>3 DEF MonitorRoute
<1>6. CASE Converted(t, p, q)
  <2>1. /\ p.phase = "selected" /\ q.phase = "converted"
        /\ saved' = saved /\ configured' = configured
    BY <1>6 DEF Converted, locals
  <2> QED
    BY <1>1, <1>3, <2>1 DEF MonitorRoute
<1>7. CASE ~Began(t, p, q) /\ ~Wrote(t, p, q) /\ ~Converted(t, p, q)
  <2>1. /\ chip' = chip /\ configured' = configured
        /\ q.phase \in {"selected", "converted", "none"} => p.phase = q.phase /\ saved' = saved
        /\ q.phase = "saved" => \/ p.phase = "saved" /\ saved' = saved
                                \/ PutAside(t, p, q)
    BY <1>1, <1>7, SteadyTurn
  <2>2. ~Dirty(next) /\ q.phase \in {"saved", "selected", "converted"} => saved'[t] = configured[b]
    <3>1. ASSUME PutAside(t, p, q), ~Dirty(lab) PROVE saved'[t] = configured[b]
      <4>1. /\ p.phase = "none" /\ p.word = "read" /\ p.reg = "GlobalPulseConf"
            /\ saved'[t] = got[t] /\ q.phase = "saved" /\ q.depth = p.depth
        BY <1>2, <3>1 DEF PutAside, Labels
      <4>2. p.depth > 0
        BY <4>1 DEF Fits
      <4>3. got[t] = chip[b].GlobalPulseConf
        BY <1>1, <4>1, <4>2 DEF MonitorRoute, Knows
      <4>4. Apart(lab, t)
        BY <1>1, <4>2, GuardApart
      <4>5. ~Busy(lab)
        BY <1>1, <4>1, <4>4, ApartMonitors DEF Busy
      <4> QED
        BY <1>1, <3>1, <4>1, <4>3, <4>5 DEF RouteOK
    <3> QED
      BY <1>1, <1>3, <2>1, <3>1 DEF MonitorRoute
  <2>3. q.phase = "none" /\ q.depth > 0 /\ q.reg = "GlobalPulseConf" =>
          Knows(t, q, b, chip[b].GlobalPulseConf)'
    <3> SUFFICES ASSUME q.phase = "none", q.depth > 0, q.reg = "GlobalPulseConf"
                 PROVE  Knows(t, q, b, chip[b].GlobalPulseConf)'
      OBVIOUS
    <3> PICK w \in Values : w = chip[b].GlobalPulseConf
      BY <1>2
    <3>1. chip'[b].GlobalPulseConf = w /\ p.phase = "none"
      BY <2>1
    <3>2. CASE Asked(t, p, q)
      <4>1. Apart(lab, t)
        BY <1>1, <3>2, AskedApart
      <4>2. Knows(t, q, b, w)'
        BY <1>1, <3>2, <4>1, AskedKnows
      <4> QED
        BY <3>1, <4>2 DEF Knows
    <3>3. CASE q.word = "none"
      BY <3>3 DEF Knows
    <3>4. CASE ~Asked(t, p, q) /\ q.word # "none"
      <4>1. q.reg = p.reg /\ p.depth > 0
        BY <1>2, <1>7, <3>4 DEF Turn, Quiet, Took, PutAside, Answered, Heard, AskedAgain, Labels
      <4>2. Knows(t, p, b, w)
        BY <1>1, <3>1, <4>1 DEF MonitorRoute
      <4>3. Knows(t, q, b, w)'
        BY <1>1, <3>4, <4>2, KnowsOn
      <4> QED
        BY <3>1, <4>3 DEF Knows
    <3> QED
      BY <3>2, <3>3, <3>4
  <2> QED
    BY <2>2, <2>3, <2>1 DEF MonitorRoute
<1> QED
  BY <1>4, <1>5, <1>6, <1>7

\* Whoever moves, the routes are known to those that will write them.
LEMMA RoutedMoves ==
  ASSUME OneRun, ReplyInTime, NEW lab \in [Threads -> Labels], NEW t \in Threads,
         NEW q \in Labels, NEW next, next = [lab EXCEPT ![t] = q],
         Control(lab), Control(next)', Turn(lab, t, q), Routed(lab)
  PROVE  Routed(next)'
<1> SUFFICES ASSUME NEW b \in Boards
             PROVE  /\ RouteOK(next, b)'
                    /\ \A u \in RunThreads : RunOK(u, next[u], b)'
                    /\ \A u \in MonitorThreads : MonitorRoute(next, u, next[u], b)'
  BY DEF Routed
<1>1. next[t] = q /\ \A u \in Threads : u # t => next[u] = lab[u]
  OBVIOUS
<1>2. RouteOK(next, b)'
  BY RouteTurn
<1>3. ASSUME NEW u \in RunThreads PROVE RunOK(u, next[u], b)'
  <2>1. u \in Threads /\ RunOK(u, lab[u], b)
    BY DEF Threads, Routed
  <2>2. CASE u = t
    BY <1>1, <2>2, RunTurn
  <2>3. CASE u # t
    <3>1. t \in MonitorThreads /\ t \notin RunThreads
      BY <2>3 DEF Threads, OneRun
    <3>2. /\ method'[u] = method[u] /\ answer'[u] = answer[u] /\ saved'[u] = saved[u]
          /\ next[u] = lab[u]
      BY <1>1, <2>1, <2>3 DEF Turn, OthersKeep
    <3>3. configured'[b] = configured[b]
      <4>1. CASE Wrote(t, lab[t], q)
        <5>1. MonitorRoute(lab, t, lab[t], b)
          BY <3>1 DEF Routed
        <5> QED
          BY <3>1, <4>1, <5>1, RouteWritten
      <4>2. CASE Converted(t, lab[t], q)
        BY <4>2 DEF Converted
      <4>3. CASE ~Wrote(t, lab[t], q) /\ ~Converted(t, lab[t], q)
        BY <4>3, SteadyTurn
      <4> QED
        BY <4>1, <4>2, <4>3
    <3>4. Knows(u, lab[u], b, configured[b]) => Knows(u, lab[u], b, configured[b])'
      <4>1. PICK w : w = configured[b]
        OBVIOUS
      <4>2. Knows(u, lab[u], b, w) => Knows(u, lab[u], b, w)'
        BY <2>1, <2>3, OthersKnow
      <4> QED
        BY <3>3, <4>1, <4>2 DEF Knows
    <3> QED
      BY <2>1, <3>2, <3>3, <3>4 DEF RunOK
  <2> QED
    BY <2>2, <2>3
<1>4. ASSUME NEW u \in MonitorThreads PROVE MonitorRoute(next, u, next[u], b)'
  <2>1. u \in Threads /\ MonitorRoute(lab, u, lab[u], b)
    BY DEF Threads, Routed
  <2>2. CASE u = t
    <3>1. Fits(t, method'[t], q)
      BY <1>1 DEF Control, ThreadOK
    <3> QED
      BY <1>1, <2>2, <3>1, MonitorRouteTurn
  <2>3. CASE u # t
    <3>1. saved'[u] = saved[u] /\ next[u] = lab[u]
      BY <1>1, <2>1, <2>3 DEF Turn, OthersKeep
    <3>2. CASE lab[u].depth > 0
      <4>1. chip' = chip /\ configured' = configured
        BY <2>1, <2>3, <3>2, Elsewhere
      <4>2. ~Apart(lab, t)
        BY <2>1, <2>3, <3>2 DEF Apart
      <4>3. ~Wrote(t, lab[t], q) /\ ~Converted(t, lab[t], q)
        BY <4>2, WritesApart
      <4>4. Dirty(next) <=> Dirty(lab)
        <5>1. q.phase = "converted" <=> lab[t].phase = "converted"
          BY <4>3, SteadyTurn
        <5> QED
          BY <5>1, SameMeasures
      <4>5. Knows(u, lab[u], b, chip[b].GlobalPulseConf) => Knows(u, lab[u], b, chip[b].GlobalPulseConf)'
        <5>1. PICK w : w = chip[b].GlobalPulseConf
          OBVIOUS
        <5>2. Knows(u, lab[u], b, w) => Knows(u, lab[u], b, w)'
          BY <2>1, <2>3, OthersKnow
        <5> QED
          BY <4>1, <5>1, <5>2 DEF Knows
      <4> QED
        BY <2>1, <3>1, <4>1, <4>4, <4>5 DEF MonitorRoute
    <3>3. CASE ~(lab[u].depth > 0)
      <4>1. lab[u].phase = "none"
        BY <2>1, <3>3 DEF Control, ThreadOK, Fits
      <4> QED
        BY <3>1, <3>3, <4>1 DEF MonitorRoute
    <3> QED
      BY <3>2, <3>3
  <2> QED
    BY <2>2, <2>3
<1> QED
  BY <1>2, <1>3, <1>4

-----------------------------------------------------------------------------
(* Reads and routes in every state.                                        *)

\* A thread between two methods is not in the middle of a measurement.
LEMMA IdleMeasuresNothing ==
  ASSUME NEW lab, NEW t \in Threads, Control(lab), Idle(t)
  PROVE  lab[t].phase # "converted"
<1>1. PICK e \in Labels : Ended(e) /\ Runs(t, method[t], todo[t], lab[t], e)
  BY DEF Control, ThreadOK, EndsFrom
<1>2. lab[t] = e
  <2>1. lab[t] \in Labels
    BY DEF Control
  <2> QED
    BY <1>1, <2>1, RunsNothing DEF Idle
<1> QED
  BY <1>1, <1>2 DEF Ended

\* At the start nothing is measured and the routes are the configured ones.
LEMMA InitMeasured ==
  ASSUME AccessInit, NEW lab, lab = [t \in Threads |-> Fresh]
  PROVE  Measured(lab) /\ Routed(lab)
<1>1. /\ Fresh.depth = 0 /\ Fresh.phase = "none" /\ Fresh.reg = "MonitorConfig"
  BY DEF Fresh, Label
<1>2. /\ RunThreads \subseteq Threads /\ MonitorThreads \subseteq Threads
      /\ \A t \in Threads : lab[t] = Fresh /\ answer[t] = NoWord
  BY DEF Threads, AccessInit
<1>3. \A b \in Boards : chip[b].GlobalPulseConf = configured[b]
  BY DEF AccessInit, Registers
<1>4. Measured(lab)
  BY <1>1, <1>2 DEF Measured, MonitorOK
<1>5. Routed(lab)
  <2> SUFFICES ASSUME NEW b \in Boards
               PROVE  /\ RouteOK(lab, b)
                      /\ \A t \in RunThreads : RunOK(t, lab[t], b)
                      /\ \A t \in MonitorThreads : MonitorRoute(lab, t, lab[t], b)
    BY DEF Routed
  <2>1. RouteOK(lab, b)
    BY <1>3 DEF RouteOK
  <2>2. ASSUME NEW t \in RunThreads PROVE RunOK(t, lab[t], b)
    BY <1>1, <1>2 DEF RunOK
  <2>3. ASSUME NEW t \in MonitorThreads PROVE MonitorRoute(lab, t, lab[t], b)
    BY <1>1, <1>2 DEF MonitorRoute
  <2> QED
    BY <2>1, <2>2, <2>3
<1> QED
  BY <1>4, <1>5

\* Nothing happens.
LEMMA MeasuredStutters ==
  ASSUME NEW lab, UNCHANGED accessVars
  PROVE  /\ Measured(lab) => Measured(lab)'
         /\ Routed(lab) => Routed(lab)'
<1>1. UNCHANGED <<chip, fifo, got, saved, method, answer, configured>>
  BY DEF accessVars, objects, locals
<1>2. Measured(lab) => Measured(lab)'
  BY <1>1 DEF Measured, MonitorOK, Knows
<1>3. Routed(lab) => Routed(lab)'
  <2> SUFFICES ASSUME Routed(lab), NEW b \in Boards
               PROVE  /\ RouteOK(lab, b)'
                      /\ \A t \in RunThreads : RunOK(t, lab[t], b)'
                      /\ \A t \in MonitorThreads : MonitorRoute(lab, t, lab[t], b)'
    BY DEF Routed
  <2>1. RouteOK(lab, b)'
    BY <1>1 DEF Routed, RouteOK
  <2>2. ASSUME NEW t \in RunThreads PROVE RunOK(t, lab[t], b)'
    <3>1. RunOK(t, lab[t], b)
      BY DEF Routed
    <3> QED
      BY <1>1, <3>1 DEF RunOK, Knows
  <2>3. ASSUME NEW t \in MonitorThreads PROVE MonitorRoute(lab, t, lab[t], b)'
    <3>1. MonitorRoute(lab, t, lab[t], b)
      BY DEF Routed
    <3> QED
      BY <1>1, <3>1 DEF MonitorRoute, Knows
  <2> QED
    BY <2>1, <2>2, <2>3
<1> QED
  BY <1>2, <1>3

\* Some labelling is right, and the reads of the monitoring are.
MonitorReads == \E lab \in [Threads -> Labels] : Control(lab) /\ Measured(lab)

\* With replies in time there is such a labelling in every state.
LEMMA AlwaysMeasured == OneBoard /\ ReplyInTime => (AccessSpec => []MonitorReads)
<1> SUFFICES ASSUME OneBoard, ReplyInTime PROVE AccessSpec => []MonitorReads
  OBVIOUS
<1>1. AccessInit => MonitorReads
  <2> SUFFICES ASSUME AccessInit PROVE MonitorReads
    OBVIOUS
  <2>1. PICK lab : lab = [t \in Threads |-> Fresh]
    OBVIOUS
  <2>2. Control(lab) /\ Measured(lab)
    BY <2>1, InitControl, InitMeasured
  <2> QED
    BY <2>2 DEF MonitorReads, Control
<1>2. MonitorReads /\ [AccessNext]_accessVars => MonitorReads'
  <2> SUFFICES ASSUME MonitorReads, [AccessNext]_accessVars PROVE MonitorReads'
    OBVIOUS
  <2>1. PICK lab \in [Threads -> Labels] : Control(lab) /\ Measured(lab)
    BY DEF MonitorReads
  <2>2. CASE AccessNext
    <3>1. PICK t \in Threads : Moves(lab, t)
      BY <2>1, <2>2, NextMoves
    <3>2. PICK q \in Labels : Control([lab EXCEPT ![t] = q])' /\ Turn(lab, t, q)
      BY <3>1 DEF Moves
    <3>3. Measured([lab EXCEPT ![t] = q])'
      BY <2>1, <3>2, MeasuredMoves
    <3>4. [lab EXCEPT ![t] = q] \in [Threads -> Labels]
      BY <3>2
    <3> QED
      BY <3>2, <3>3, <3>4 DEF MonitorReads
  <2>3. CASE UNCHANGED accessVars
    <3>1. Control(lab)' /\ Measured(lab)'
      BY <2>1, <2>3, ControlStutters, MeasuredStutters
    <3> QED
      BY <3>1 DEF MonitorReads
  <2> QED
    BY <2>2, <2>3
<1> QED
  BY <1>1, <1>2, PTL DEF AccessSpec

\* Some labelling is right, and the routes are.
RoutesKnown == \E lab \in [Threads -> Labels] : Control(lab) /\ Routed(lab)

\* With one calibration there is such a labelling in every state.
LEMMA AlwaysRouted == OneBoard /\ ReplyInTime /\ OneRun => (AccessSpec => []RoutesKnown)
<1> SUFFICES ASSUME OneBoard, ReplyInTime, OneRun PROVE AccessSpec => []RoutesKnown
  OBVIOUS
<1>1. AccessInit => RoutesKnown
  <2> SUFFICES ASSUME AccessInit PROVE RoutesKnown
    OBVIOUS
  <2>1. PICK lab : lab = [t \in Threads |-> Fresh]
    OBVIOUS
  <2>2. Control(lab) /\ Routed(lab)
    BY <2>1, InitControl, InitMeasured
  <2> QED
    BY <2>2 DEF RoutesKnown, Control
<1>2. RoutesKnown /\ [AccessNext]_accessVars => RoutesKnown'
  <2> SUFFICES ASSUME RoutesKnown, [AccessNext]_accessVars PROVE RoutesKnown'
    OBVIOUS
  <2>1. PICK lab \in [Threads -> Labels] : Control(lab) /\ Routed(lab)
    BY DEF RoutesKnown
  <2>2. CASE AccessNext
    <3>1. PICK t \in Threads : Moves(lab, t)
      BY <2>1, <2>2, NextMoves
    <3>2. PICK q \in Labels : Control([lab EXCEPT ![t] = q])' /\ Turn(lab, t, q)
      BY <3>1 DEF Moves
    <3>3. PICK next : next = [lab EXCEPT ![t] = q]
      OBVIOUS
    <3>4. Control(next)'
      BY <3>2, <3>3
    <3>5. Routed(next)'
      BY <2>1, <3>2, <3>3, <3>4, RoutedMoves
    <3>6. next \in [Threads -> Labels]
      BY <3>3
    <3> QED
      BY <3>4, <3>5, <3>6 DEF RoutesKnown
  <2>3. CASE UNCHANGED accessVars
    <3>1. Control(lab)' /\ Routed(lab)'
      BY <2>1, <2>3, ControlStutters, MeasuredStutters
    <3> QED
      BY <3>1 DEF RoutesKnown
  <2> QED
    BY <2>2, <2>3
<1> QED
  BY <1>1, <1>2, PTL DEF AccessSpec

\* ReadChipMonitor returns the observable it was asked for: from the selection
\* to the reading of the ADC no other thread touches the chip, whose mutex the
\* two guards of RD53Interface.cc hold; a lost reply is asked for again before
\* ReadChipReg gives up, and finds the FIFO emptied.
THEOREM MonitorReadsWhatItSelected ==
  OneBoard /\ ReplyInTime => (AccessSpec => []MonitorReadsItsObservable)
<1> SUFFICES ASSUME OneBoard, ReplyInTime PROVE AccessSpec => []MonitorReadsItsObservable
  OBVIOUS
<1>1. MonitorReads => MonitorReadsItsObservable
  <2> SUFFICES ASSUME MonitorReads, NEW t \in MonitorThreads,
                      method[t].name = "monitor" /\ answer[t] # NoWord
               PROVE  answer[t] = method[t].wanted
    BY DEF MonitorReadsItsObservable
  <2>1. PICK lab \in [Threads -> Labels] : Measured(lab)
    BY DEF MonitorReads
  <2>2. PICK b \in Boards : TRUE
    BY DEF OneBoard
  <2>3. MonitorOK(t, lab[t], b)
    BY <2>1 DEF Measured
  <2> QED
    BY <2>3 DEF MonitorOK
<1> QED
  BY <1>1, AlwaysMeasured, PTL

\* WriteChipReg reads back what it has written, although it lets go of the mutex
\* in between: a measurement that comes in restores the route it has found.
THEOREM CalibrationReadsBack ==
  OneBoard /\ ReplyInTime /\ OneRun => (AccessSpec => []VerifySucceeds)
<1> SUFFICES ASSUME OneBoard, ReplyInTime, OneRun PROVE AccessSpec => []VerifySucceeds
  OBVIOUS
<1>1. RoutesKnown => VerifySucceeds
  <2> SUFFICES ASSUME RoutesKnown, NEW t \in RunThreads,
                      method[t].name = "write" /\ answer[t] # NoWord
               PROVE  answer[t] = method[t].wanted
    BY DEF VerifySucceeds
  <2>1. PICK lab \in [Threads -> Labels] : Routed(lab)
    BY DEF RoutesKnown
  <2>2. PICK b \in Boards : TRUE
    BY DEF OneBoard
  <2>3. RunOK(t, lab[t], b)
    BY <2>1 DEF Routed
  <2> QED
    BY <2>3 DEF RunOK
<1> QED
  BY <1>1, AlwaysRouted, PTL

\* However the measurements of the monitoring and of a calibration interleave,
\* each puts back the route it has found, so that once they have all ended the
\* chip has the configured one.
THEOREM RouteIsPutBack ==
  OneBoard /\ ReplyInTime /\ OneRun => (AccessSpec => []RouteRestored)
<1> SUFFICES ASSUME OneBoard, ReplyInTime, OneRun PROVE AccessSpec => []RouteRestored
  OBVIOUS
<1>1. RoutesKnown => RouteRestored
  <2> SUFFICES ASSUME RoutesKnown, NEW b \in Boards,
                      \A t \in Threads : method[t].name \in {"adc", "monitor"} => Idle(t)
               PROVE  chip[b].GlobalPulseConf = configured[b]
    BY DEF RouteRestored
  <2>1. PICK lab \in [Threads -> Labels] : Control(lab) /\ Routed(lab)
    BY DEF RoutesKnown
  <2>2. ASSUME NEW t \in Threads PROVE lab[t].phase # "converted"
    <3>1. CASE Idle(t)
      BY <2>1, <3>1, IdleMeasuresNothing
    <3>2. CASE ~Idle(t)
      <4>1. method[t].name \notin {"adc", "monitor"} /\ Fits(t, method[t], lab[t])
        BY <2>1, <3>2 DEF Control, ThreadOK
      <4> QED
        BY <4>1 DEF Fits
    <3> QED
      BY <3>1, <3>2
  <2>3. ~Dirty(lab) /\ ~Busy(lab)
    BY <2>2 DEF Dirty, Busy, Threads
  <2> QED
    BY <2>1, <2>3 DEF Routed, RouteOK
<1> QED
  BY <1>1, AlwaysRouted, PTL
=============================================================================
