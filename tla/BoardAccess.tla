----------------------------- MODULE BoardAccess -----------------------------
(***************************************************************************)
(* How the run thread and the monitoring thread share the boards.  All     *)
(* accesses go through two interface objects, BeBoardInterface ("board")   *)
(* and RD53Interface ("chip"); each remembers in fBoardFW the board it     *)
(* last talked to, and every board has one recursive mutex, the fMutex of  *)
(* its RegManager, which the interfaces take and every register access of  *)
(* the firmware interface takes again.                                     *)
(*                                                                         *)
(* A method is written as the sequence of the steps it makes on the shared *)
(* state; todo[t] is what thread t has still to do of the one it is in.    *)
(* setBoard is three steps: the test of fPrevBoardIdentifier and the two   *)
(* assignments, none of them under a lock.  Each board has one chip, of    *)
(* which three registers and the readback FIFO of the firmware are kept.   *)
(* Handing a packet of commands to the chip is one step.                   *)
(***************************************************************************)
EXTENDS Integers, SequencesExt

CONSTANTS
  Boards,
  RunThreads, MonitorThreads,
  Observables,    \* values of MonitorConfig that select something to measure
  Routes,         \* values of GlobalPulseConf a calibration writes
  MaxAttempts,    \* RD53Shared::MAXATTEMPTS
  MaxLosses,      \* the link may lose the replies of that many first attempts
  None

Threads == RunThreads \cup MonitorThreads
Objects == {"board", "chip"}

Off      == "off"        \* MonitorConfig zero
Convert  == "convert"    \* the route SendGlobalPulse leaves in GlobalPulseConf
Garbage  == "garbage"    \* 65535, the -1 of a failed ReadChipReg as uint16_t
NoWord   == "noWord"     \* the FIFO was empty
Saved    == "saved"      \* stands for the value a measurement has put aside
Registers == {"MonitorConfig", "GlobalPulseConf", "MonitoringDataADC"}
Values   == Observables \cup Routes \cup {Off, Convert, Garbage}

ASSUME AccessAssumption ==
  /\ MaxAttempts \in Nat \ {0} /\ MaxLosses \in Nat
  /\ None \notin Boards \cup Threads
  /\ RunThreads \cap MonitorThreads = {}
  /\ (Observables \cup Routes) \cap {Off, Convert, Garbage, NoWord, Saved} = {}

VARIABLES
  fBoardFW, fPrevBoardIdentifier,   \* of each interface object
  fMutex,       \* of each board: its owner and recursion count
  chip,         \* of each board: the registers of its chip
  fifo,         \* of each board: Register_Rdback_fifo, the register values read
  todo,         \* of each thread: the steps left of its method
  guards,       \* of each thread: the boards whose mutex its guards hold
  got,          \* of each thread: the last value read back
  saved,        \* of each thread: GlbPulseVal of measureADC
  method,       \* of each thread: the method it is in, or was in last
  answer,       \* history: what that method read back, if it has ended
  configured    \* history: the last route written by a calibration

objects    == <<fBoardFW, fPrevBoardIdentifier>>
locals     == <<got, saved, method, answer>>
accessVars == <<objects, fMutex, chip, fifo, todo, guards, locals, configured>>

-----------------------------------------------------------------------------
(* The methods.                                                            *)

Assignments(i, b) == <<[do |-> "assign", on |-> i, board |-> b],
                       [do |-> "remember", on |-> i, board |-> b]>>

SetBoard(i, b) == <<[do |-> "test", on |-> i, board |-> b]>>
Lock(i, b)     == <<[do |-> "lock", on |-> i, board |-> b]>>
TryLock(i, b)  == <<[do |-> "tryLock", on |-> i, board |-> b]>>
Call(i, b)     == <<[do |-> "call", on |-> i, board |-> b]>>
Unlock         == <<[do |-> "unlock"]>>
Enter(i, b)    == SetBoard(i, b) \o Lock(i, b)

\* BeBoardInterface: most methods, ReadData, and those that take no lock.
BoardMethod(b)    == Enter("board", b) \o Call("board", b) \o Unlock
ReadData(b)       == SetBoard("board", b) \o TryLock("board", b) \o Call("board", b) \o Unlock
SetFileHandler(b) == SetBoard("board", b) \o Call("board", b)

\* One attempt of ReadChipReg: ReadRD53Reg with ReadChipRegisters.
Attempt(b, r, n) ==
  Enter("chip", b)
    \o <<[do |-> "request", on |-> "chip", board |-> b, reg |-> r, attempt |-> n],
         [do |-> "drain", on |-> "chip", board |-> b]>>
    \o Unlock
    \o <<[do |-> "retry", on |-> "chip", board |-> b, reg |-> r, attempt |-> n]>>

ReadChipReg(b, r) == Enter("chip", b) \o Attempt(b, r, 1) \o Unlock

\* WriteChipReg lets go of the mutex before it reads back.
WriteChipReg(b, r, v, verify) ==
  Enter("chip", b)
    \o <<[do |-> "write", on |-> "chip", board |-> b, reg |-> r, value |-> v]>>
    \o Unlock
    \o (IF verify THEN ReadChipReg(b, r) ELSE << >>)

\* Fault: the route is not restored.
FaultyMeasureADC(b, o) ==
  SetBoard("chip", b)
    \o WriteChipReg(b, "MonitorConfig", o, FALSE)
    \o SetBoard("chip", b) \o <<[do |-> "convert", on |-> "chip", board |-> b]>>
    \o ReadChipReg(b, "MonitoringDataADC")
    \o <<[do |-> "answer"]>>
    \o WriteChipReg(b, "MonitorConfig", Off, FALSE)

\* RD53BInterface::measureADC, with one sample.  SendGlobalPulse takes no guard.
MeasureADC(b, o) ==
  SetBoard("chip", b)
    \o ReadChipReg(b, "GlobalPulseConf")
    \o <<[do |-> "save"]>>
    \o WriteChipReg(b, "MonitorConfig", o, FALSE)
    \o SetBoard("chip", b) \o <<[do |-> "convert", on |-> "chip", board |-> b]>>
    \o ReadChipReg(b, "MonitoringDataADC")
    \o <<[do |-> "answer"]>>
    \o WriteChipReg(b, "MonitorConfig", Off, FALSE)
    \o WriteChipReg(b, "GlobalPulseConf", Saved, TRUE)

\* RD53Interface::ReadChipADC
ReadChipADC(b, o) == MeasureADC(b, o)

\* Fault: no guard, as in ReadChipADC.
FaultyReadChipMonitor(b, o) == SetBoard("board", b) \o SetBoard("chip", b) \o MeasureADC(b, o)

\* ReadChipMonitor of BeBoardInterface, which calls that of RD53Interface.
ReadChipMonitor(b, o) ==
  Enter("board", b) \o Enter("chip", b) \o MeasureADC(b, o) \o Unlock \o Unlock

Verified(b, v) ==
  WriteChipReg(b, "GlobalPulseConf", v, TRUE) \o <<[do |-> "answer"]>>

-----------------------------------------------------------------------------
Methods ==
  [name : {"none", "boardMethod", "readData", "setFileHandler"}]
    \cup [name : {"monitor", "adc"}, wanted : Observables]
    \cup [name : {"write"}, wanted : Routes]

AccessTypeOK ==
  /\ fBoardFW \in [Objects -> Boards \cup {None}]
  /\ fPrevBoardIdentifier \in [Objects -> Boards \cup {None}]
  /\ fMutex \in [Boards -> [owner : Threads \cup {None}, count : 0..4]]
  /\ \A b \in Boards : fMutex[b].count = 0 <=> fMutex[b].owner = None
  /\ chip \in [Boards -> [Registers -> Values]]
  /\ fifo \in [Boards -> Seq(Values)]
  /\ guards \in [Threads -> Seq(Boards)]
  /\ got \in [Threads -> Values \cup {NoWord}]
  /\ saved \in [Threads -> Values]
  /\ method \in [Threads -> Methods]
  /\ answer \in [Threads -> Values \cup {NoWord}]
  /\ configured \in [Boards -> Routes]

AccessInit ==
  /\ fBoardFW = [i \in Objects |-> None]
  /\ fPrevBoardIdentifier = [i \in Objects |-> None]
  /\ fMutex = [b \in Boards |-> [owner |-> None, count |-> 0]]
  /\ configured \in [Boards -> Routes]
  /\ chip = [b \in Boards |-> [r \in Registers |->
               IF r = "GlobalPulseConf" THEN configured[b] ELSE Off]]
  /\ fifo = [b \in Boards |-> << >>]
  /\ todo = [t \in Threads |-> << >>]
  /\ guards = [t \in Threads |-> << >>]
  /\ got = [t \in Threads |-> NoWord]
  /\ saved = [t \in Threads |-> Off]
  /\ method = [t \in Threads |-> [name |-> "none"]]
  /\ answer = [t \in Threads |-> NoWord]

Idle(t) == todo[t] = << >>

Begin(t, m, steps) ==
  /\ Idle(t)
  /\ todo' = [todo EXCEPT ![t] = steps]
  /\ method' = [method EXCEPT ![t] = m]
  /\ answer' = [answer EXCEPT ![t] = NoWord]
  /\ UNCHANGED <<objects, fMutex, chip, fifo, guards, got, saved, configured>>

\* Any thread may use the plain board methods; measuring for the monitor is the
\* monitoring thread's, writing the chip and ReadChipADC a calibration's.
BeginMethod(t) ==
  \E b \in Boards :
    \/ Begin(t, [name |-> "boardMethod"], BoardMethod(b))
    \/ t \in RunThreads /\ Begin(t, [name |-> "readData"], ReadData(b))
    \/ t \in RunThreads /\ Begin(t, [name |-> "setFileHandler"], SetFileHandler(b))
    \/ t \in RunThreads /\ \E v \in Routes :
         Begin(t, [name |-> "write", wanted |-> v], Verified(b, v))
    \/ t \in RunThreads /\ \E o \in Observables :
         Begin(t, [name |-> "adc", wanted |-> o], ReadChipADC(b, o))
    \/ t \in MonitorThreads /\ \E o \in Observables :
         Begin(t, [name |-> "monitor", wanted |-> o], ReadChipMonitor(b, o))

-----------------------------------------------------------------------------
(* The steps.                                                              *)

Doing(t, what) == ~Idle(t) /\ Head(todo[t]).do = what

\* The step is done, and others come before what was left.
Then(t, steps) == todo' = [todo EXCEPT ![t] = steps \o Tail(@)]
Done(t)        == Then(t, << >>)

Test(t) ==
  LET step == Head(todo[t])
  IN /\ Doing(t, "test")
     /\ Then(t, IF fPrevBoardIdentifier[step.on] = step.board
                THEN << >> ELSE Assignments(step.on, step.board))
     /\ UNCHANGED <<objects, fMutex, chip, fifo, guards, locals, configured>>

Assign(t) ==
  /\ Doing(t, "assign")
  /\ fBoardFW' = [fBoardFW EXCEPT ![Head(todo[t]).on] = Head(todo[t]).board]
  /\ Done(t)
  /\ UNCHANGED <<fPrevBoardIdentifier, fMutex, chip, fifo, guards, locals, configured>>

Remember(t) ==
  /\ Doing(t, "remember")
  /\ fPrevBoardIdentifier' = [fPrevBoardIdentifier EXCEPT ![Head(todo[t]).on] = Head(todo[t]).board]
  /\ Done(t)
  /\ UNCHANGED <<fBoardFW, fMutex, chip, fifo, guards, locals, configured>>

Target(t)     == fBoardFW[Head(todo[t]).on]
Open(t, b)    == b \in Boards /\ fMutex[b].owner \in {None, t}

Acquire(t, b) ==
  /\ fMutex' = [fMutex EXCEPT ![b] = [owner |-> t, count |-> @.count + 1]]
  /\ guards' = [guards EXCEPT ![t] = Append(@, b)]
  /\ Done(t)

TakeLock(t) ==
  /\ Doing(t, "lock") /\ Open(t, Target(t))
  /\ Acquire(t, Target(t))
  /\ UNCHANGED <<objects, chip, fifo, locals, configured>>

\* ReadData gives up, and returns 0, when another thread has the mutex.
TryToLock(t) ==
  /\ Doing(t, "tryLock")
  /\ IF Open(t, Target(t))
     THEN Acquire(t, Target(t))
     ELSE todo' = [todo EXCEPT ![t] = << >>] /\ UNCHANGED <<fMutex, guards>>
  /\ UNCHANGED <<objects, chip, fifo, locals, configured>>

\* Fault: the owner keeps the mutex.
FaultyReleased(m) == [owner |-> m.owner, count |-> m.count - 1]

Released(m) == [owner |-> IF m.count = 1 THEN None ELSE m.owner, count |-> m.count - 1]

ReleaseLock(t) ==
  /\ Doing(t, "unlock")
  /\ fMutex' = [fMutex EXCEPT ![Last(guards[t])] = Released(@)]
  /\ guards' = [guards EXCEPT ![t] = Front(@)]
  /\ Done(t)
  /\ UNCHANGED <<objects, chip, fifo, locals, configured>>

\* What a board method does with the board is left out.
CallBoard(t) ==
  /\ Doing(t, "call")
  /\ Done(t)
  /\ UNCHANGED <<objects, fMutex, chip, fifo, guards, locals, configured>>

\* The firmware takes the mutex of its board for each register access, which
\* keeps a thread without a guard out while another one holds it.
Access(t, what) == Doing(t, what) /\ Open(t, Target(t))

\* The chip answers with the register, unless the reply is lost.
Request(t) ==
  LET step == Head(todo[t])
      b    == Target(t)
  IN /\ Access(t, "request")
     /\ \/ fifo' = [fifo EXCEPT ![b] = Append(@, chip[b][step.reg])]
        \/ step.attempt <= MaxLosses /\ UNCHANGED fifo
     /\ Done(t)
     /\ UNCHANGED <<objects, fMutex, chip, guards, locals, configured>>

\* ReadChipRegisters empties the FIFO; the first word counts.
Drain(t) ==
  LET b == Target(t)
  IN /\ Access(t, "drain")
     /\ got' = [got EXCEPT ![t] = IF fifo[b] = << >> THEN NoWord ELSE Head(fifo[b])]
     /\ fifo' = [fifo EXCEPT ![b] = << >>]
     /\ Done(t)
     /\ UNCHANGED <<objects, fMutex, chip, guards, saved, method, answer, configured>>

\* An empty readback resets the FIFO and is tried again; after the last attempt
\* ReadChipReg returns -1.
Retry(t) ==
  LET step  == Head(todo[t])
      empty == got[t] = NoWord
  IN /\ IF empty THEN Access(t, "retry") ELSE Doing(t, "retry")
     /\ fifo' = IF empty THEN [fifo EXCEPT ![Target(t)] = << >>] ELSE fifo
     /\ Then(t, IF empty /\ step.attempt < MaxAttempts
                THEN Attempt(step.board, step.reg, step.attempt + 1) ELSE << >>)
     /\ got' = [got EXCEPT ![t] = IF empty /\ step.attempt = MaxAttempts THEN Garbage ELSE @]
     /\ UNCHANGED <<objects, fMutex, chip, guards, saved, method, answer, configured>>

Write(t) ==
  LET step  == Head(todo[t])
      b     == Target(t)
      value == IF step.value = Saved THEN saved[t] ELSE step.value
  IN /\ Access(t, "write")
     /\ chip' = [chip EXCEPT ![b][step.reg] = value]
     /\ configured' = IF method[t].name = "write" THEN [configured EXCEPT ![b] = value]
                      ELSE configured
     /\ Done(t)
     /\ UNCHANGED <<objects, fMutex, fifo, guards, locals>>

\* The pulses of SendGlobalPulse: what MonitorConfig selects is converted.
ConvertADC(t) ==
  LET b == Target(t)
  IN /\ Access(t, "convert")
     /\ chip' = [chip EXCEPT ![b].MonitoringDataADC = chip[b].MonitorConfig,
                             ![b].GlobalPulseConf = Convert]
     /\ Done(t)
     /\ UNCHANGED <<objects, fMutex, fifo, guards, locals, configured>>

Save(t) ==
  /\ Doing(t, "save")
  /\ saved' = [saved EXCEPT ![t] = got[t]]
  /\ Done(t)
  /\ UNCHANGED <<objects, fMutex, chip, fifo, guards, got, method, answer, configured>>

Answer(t) ==
  /\ Doing(t, "answer")
  /\ answer' = [answer EXCEPT ![t] = got[t]]
  /\ Done(t)
  /\ UNCHANGED <<objects, fMutex, chip, fifo, guards, got, saved, method, configured>>

Step(t) ==
  \/ Test(t) \/ Assign(t) \/ Remember(t)
  \/ TakeLock(t) \/ TryToLock(t) \/ ReleaseLock(t) \/ CallBoard(t)
  \/ Request(t) \/ Drain(t) \/ Retry(t) \/ Write(t) \/ ConvertADC(t)
  \/ Save(t) \/ Answer(t)

AccessNext == \E t \in Threads : BeginMethod(t) \/ Step(t)

AccessSpec == AccessInit /\ [][AccessNext]_accessVars

-----------------------------------------------------------------------------
(* Properties.                                                             *)

\* Whatever a thread does through an interface, lock or access, it does it to
\* the board it has just set.  Another thread may set another board meanwhile,
\* for setBoard is not under a lock: with two boards the code violates this.
RightBoard ==
  \A t \in Threads :
    (~Idle(t) /\ Head(todo[t]).do \notin {"test", "assign", "remember", "unlock", "save", "answer"})
      => Target(t) = Head(todo[t]).board

\* The value ReadChipMonitor returns is the observable it was asked for, even
\* while a calibration measures with ReadChipADC, which takes no guard.
MonitorReadsItsObservable ==
  \A t \in MonitorThreads :
    method[t].name = "monitor" /\ answer[t] # NoWord => answer[t] = method[t].wanted

\* A calibration reads back what it has written, although WriteChipReg lets a
\* measurement in between its write and its readback.
VerifySucceeds ==
  \A t \in RunThreads :
    method[t].name = "write" /\ answer[t] # NoWord => answer[t] = method[t].wanted

\* When no measurement is under way the global pulse route is the one that was
\* configured.
RouteRestored ==
  \A b \in Boards :
    (\A t \in Threads : method[t].name \in {"adc", "monitor"} => Idle(t))
      => chip[b].GlobalPulseConf = configured[b]
=============================================================================
