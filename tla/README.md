# A TLA+ model of the Ph2 ACF data acquisition framework

Ph2 ACF is the acquisition and control framework for the CMS phase-2 tracker:
C++ that configures front-end chips through FC7 boards, runs calibrations and
physics data taking on them, and, in this repository, monitors the detector
into CSV files while it does so.  This directory holds TLA+ models of its
concurrent core, of the readout and of the scans that calibrations are made
of, the TLC runs that check them on small instances, and proofs,
checked by the TLA+ proof system TLAPS, of the properties that hold for every
instance.

Paths are relative to the root of the repository.  `PROJECT.json` maps every
definition to the lines it models.

## 1. The system

### Threads

| thread | started by | does |
|---|---|---|
| main / supervisor | `runCalibration`, `supervisor`, `CMSITminiDAQ` | configures, starts, stops, destroys |
| run thread | `Tool::Start` (`std::async`) | runs the calibration: chip registers, readout |
| monitoring thread | `DetectorMonitor::forkMonitor` | reads the monitored registers every `fSleepTimeMs` |
| file writer | constructor of `FileHandler` | drains the raw-data queue into a file |
| decoding threads | `RD53Event::ForkDecodingThreads` | decode chunks of a readout |
| DQM threads | `DQMInterface::startProcessingData`, `MonitorDQMInterface` | receive the streamed packets and fill histograms |

### Components, their state, and what makes them correct

| component | state | operations | what makes it correct | model |
|---|---|---|---|---|
| DetectorMonitor (`MonitorUtils/DetectorMonitor.*`) | three atomics, a future | fork, start, stop, pause, stopRunning + wait | a wait that returns means the thread has ended; a pause keeps the hardware quiet; an enabled monitor measures | `DetectorMonitor` |
| MonitoringCsvWriter (`MonitorUtils/MonitoringCsvWriter.*`) | metadata, the open file, columns and values of the cycle, under one mutex | start, setRunMetadata, stop, beginCycle, update, endCycle | files describe themselves; rows are whole cycles; rows stand in the file of their run | `MonitoringCsvWriter` |
| FileHandler (`Utils/FileHandler.*`) | queue, open flag, thread | setData, the writer loop, closeFile, destructor | what was handed over is on disk, in order, when the handler is gone; destruction ends | `FileHandler`, `RawDataStore` |
| Decoding threads (`Utils/RD53Event.cc`) | one flag and three vectors per thread, one condition variable | fork, decode, join | the packed events are the readout's, in order and complete; no vector is shared while in use; the call returns | `EventPartition`, `RD53Decoders` |
| Board access (`HWInterface/BeBoardInterface.*`, `ChipInterface`, `RD53Interface`, `RD53BInterface`) | the current board of each interface object, one recursive mutex per board, chip registers, readback FIFO | board methods, ReadData, register read and write, measureADC, ReadChipMonitor, ReadChipADC | a call talks to its board; guards never deadlock; concurrent measurements do not mix up; a measurement restores what it changed | `BoardAccess` |
| Run control (`tools/Tool.cc`, `tools/CombinedCalibration.h`, `miniDAQ/MiddlewareStateMachine.cc`) | tool, future, `fKeepRunning`, result file | configure, start, status, stop, halt, abort, the sub-tools' Stop | no run outlives its system; after stop() the boards are stopped, the results are written, and no exception is lost; stop() ends | `RunControl` |
| Event readout (`HWInterface/RD53FWInterface.cc`, `System/SystemController.cc`, `tools/RD53Physics.cc`, `tools/Tool.cc`) | DDR3 offset, decoded events, attempts, group and burst | ReadData, ReadNEvents, DecodeData, Physics::run, doScanOnAllGroupsBeBoard | every event read, decoded and filled once, in order, for its board and its group; bounded retries | `EventReadout`, `RD53ChannelGroups` |
| Calibration scans (`tools/RD53ThrEqualization.cc`, `RD53ThrMinimization.cc`, `RD53GainOptimization.cc`, `RD53CalibBase.cc`) | an interval, a best value and a register per chip or pixel | bitWiseScanGlobal, bitWiseScanLocal, downloadNewDACvalues | registers stay in range; the nearest value is found, and downloaded | `DacScans` |
| DQM (`DQMUtils/DQMInterface.cc`, `MonitorDQM/MonitorDQMInterface.cc`) | byte buffer, running flag, future, histograms, file | configure, start, stop, destroy, the processing loop | packets are filled once, whole and in order; a stop loses nothing it has, and ends | `DqmInterface`, `HistogramFeed` |
| Monitoring schedule, module identity, register manager, other calibration tools, outer-tracker chip and firmware interfaces, hardware description, parser, histograms, scripts | | | | not modelled: section 6 |

### Who calls whom

`MiddlewareStateMachine` drives a `Tool`.  `Tool::Configure` builds the
hardware description, starts the CSV writer, forks the decoding and monitoring
threads; `Tool::Start` sets the run metadata of the writer and forks the run
thread; `Tool::Stop` waits for the run; `SystemController::Destroy` joins the
monitor, stops the writer, joins the decoders and deletes the interfaces.  The run thread and
the monitoring thread meet in the board interfaces; the monitoring thread and
the other threads meet in the CSV writer; the readout meets the file writer in
the queue and the decoders in their vectors.  Calibrations and `Physics` drive
the readout through `SystemController`, and the containers they fill are
streamed to the DQM, which ends when the run does.

The hard parts are mostly of one kind: unsynchronised reads and writes of shared
flags between the critical sections.  The others are state carried from one
readout to the next (offset, decoded events), packets cut by a stream, and the
rounding of interval halvings.  `PROJECT.json` lists them one by one
("hazards"), each at its line.

## 2. The modules

| module | what it is |
|---|---|
| `DetectorMonitor` | the monitoring thread and its callers |
| `MonitoringCsvWriter` | the CSV writer and `RD53Monitor::runMonitor` |
| `RawDataStore` | abstract: what a raw-data file promises |
| `FileHandler` | the handler in write mode; refines `RawDataStore` |
| `EventPartition` | pure: how events are dealt out to threads |
| `RD53Decoders` | the decoding threads, on top of `EventPartition` |
| `BoardAccess` | the interfaces, their locks, one chip per board |
| `RunControl` | the state machine, the run thread and its sub-tools |
| `RD53ChannelGroups` | pure: the groups of pixels measured together |
| `EventReadout` | the circular memory, the repetitions and the loops that read, on top of `RD53ChannelGroups` |
| `DacScans` | the scans for a register value, and the download of their results |
| `HistogramFeed` | abstract: what the DQM of a run promises |
| `DqmInterface` | one run of the DQM; refines `HistogramFeed` |
| `MC...` | values of the constants for TLC |
| `...Proofs` | theorems and their proofs; `MonitoringProofs` has those of `DetectorMonitor` and `BoardAccess` |

Operators named `Faulty...` are deliberate mistakes, each next to the
definition it would replace: with it in place the property it belongs to is
violated, which shows that the property says something about that code.  No
specification uses them.

### DetectorMonitor

`monPc` is the program point of `operator()`: each test and each store of an
atomic is a step, because callers write the atomics in between.  Only
`StaysAsleep` reads three atomics at once; `fIsMonitorRunning` is written by
this thread alone, so nothing is lost.  Each caller may call any method at any
moment it is not blocked in one; `pause` and `wait` are loops with a budget of
`fMaximumStopTentatives * SleepTicks` ticks, and *both throw when the budget is
used up even if the condition has come true*, as the code does.  Time is in
units of `fLoopWaitTimeMs` and asynchronous: the monitor's ticks and a
caller's ticks are not tied together, so a measurement may outlast any budget.
`paused` and `stray` are history variables.

Constructor and destructor only open and close the ROOT file.  The empty
future before `forkMonitor` is excluded: `forkMonitor` follows the constructor.

### MonitoringCsvWriter

Every public method locks `fMutex` for its whole body, so a method is an
action.  The monitoring thread's calls are ordered (`BeginCycle`, one `Update`
per chip and register in any order, one of three ends of `endCycle`); `Start`,
`SetRunMetadata` and `Stop` interleave with them everywhere.  Values are
cycle numbers: all the properties ask of a value is when it was read.  The
disk is a function from file names (calibration, run, second, part) to the lines appended,
because files are opened for appending and a name may be used again.  An
`Update` may be lost with its cycle (`CycleThrows`), a virtual register may
have no finite result (`failing`).  An expression of module scope names its inputs
in two ways (`InputsPresent`): `REGISTER[*]` needs every chip of the module
(`Inputs`), `REGISTER[id]` the one chip with that number (`IndexedInputs`), as in
`VINA[0] + VINA[1]` (`settings/virtual_registers.conf:7`), and then has a value
whatever the other chips lack.  `start` may throw after it has cleared
everything, and opening a file may fail (`EndCycleThrows`).

Left out: parsing of the settings; `shouldMonitorNow` (a cycle that is not due
simply does not begin); identities, correction factors and error columns of
the rows.  `RD53Monitor` visits the boards once for every board, so the model
is exact for one board and reads each register once where the code, with
several boards, reads it more often.

### FileHandler and RawDataStore

The writer's loop is four steps (test, dequeue or find nothing, write) because
the owner changes `fFileIsOpened` without a lock.  The two ways in which the
code takes a handler down are separate actions: `CloseFileHandler` is
`SystemController::closeFileHandler` (close, then delete); `Delete` is the
destructor of the firmware interfaces (delete only).  `RawDataStore` says what
matters to a user of the file: it holds a prefix of what was handed over, in
order, and all of it once the handler is gone.  The refinement maps `stored`
to the file and `released` to "the owner is gone".

### EventPartition and RD53Decoders

`EventPartition` is the arithmetic of `DecodeEventsMultiThreads`: the rounded
quotient, the early exit, the last chunk that takes the rest.  `RD53Decoders`
keeps the mutex implicit: it is held by a thread in `falling` (it has found no
work and is about to block), and `CheckWork` needs it free.  `PostWork` and
`NotifyWork` are separate and take no mutex, as in the code.  A status is a set
of bits, GOOD the empty one.  The decoding of a chunk ends in one of three
ways: the events are kept and the status is good; they are kept and their error
bits, one `"FLAGGED"` here for those of trigger, tag and chips, are ORed into the
status; or the decoder throws, and the `catch` drops the chunk's events and the
bits collected so far and leaves `CORRUPTED`.  `RefuseData` is a call that
returns before any thread gets work.  Fork and join alternate with readouts.

`PackedInOrder` says what the status of the whole call promises: `CORRUPTED`
stands exactly if events are missing, the error bits of events exactly if one
of the events *returned* has some, and GOOD only of a complete readout without
errors.  A readout may well be complete and not GOOD, and a corrupted chunk hides
the bits of its events but not those of the other chunks.

### BoardAccess

A method is a sequence of steps on shared state (`todo`), written down once
per method, and one action per kind of step.  `setBoard` is three steps
outside any lock.  Locks are taken through whatever board the shared object
points to by then.  The readback FIFO belongs to the board, so a thread may
read another one's answer if nothing prevents it.  Replies may be lost up to
`MaxLosses` attempts of each read; `ReadChipReg` retries `MaxAttempts` times and
then answers 65535 as its callers store it.  Of the chip, three registers are
kept: the multiplexer, the global pulse route and the ADC result.

### RunControl

A client configures a combination of sub-tools, starts it, asks for its status
until it is done (or stops an open-ended one), and halts.  `Tool::Stop` is
taken apart at its accesses to `fKeepRunning`, because the same code on the
same static flag runs in the client (for the combined tool) and in the run
thread (for the last sub-tool): `StopTests`, `StopClears`, the wait
(`StopsHardware`, `StopThrows`) and `StopCloses` for the one, `SubStopTests`,
`SubStopClears`, `SubStopsHardware` and `SubCloses` for the other, which has
no future to wait for.  The tools are seven kinds that differ in what they do to
the flag, the boards and the file.  One of them, MonitorOnly, loops on its own
`fKeepMonitoring` (`tools/MonitorOnly.cc:216`), which its `Running` sets and which
a command over its pipe or a signal clears (`MonitoringStopped`).  Of the result file only its existence and
three pointers count; using a pointer whose file a sub-tool has deleted either
goes on or crashes (`GoesTo`).  Any use of the interfaces after `Destroy` may
crash (`RunCrashes`); a run may throw at every point (`RunThrows`).

The properties except, by name, what the code does not promise.  `endedItself`:
an OTPhysics that has taken enough data clears the flag itself
(`tools/OTPhysics.cc:209`), whereupon every Stop skips its body: nobody waits
for the run, stops the boards or writes the results.  Physics for
`ResultsWritten`: stopped by its client, it closes the file through its own
pointer without having written it.  `Aborted` for `RunHasItsSystem`: the
Ctrl-C thread of `runCalibration` destroys everything under the run (which it
cannot do once MonitorOnly has installed its own signal handler).
`MonitorsForEver` for `StopCompletes`: a client's stop() clears `fKeepRunning`, which
MonitorOnly does not read, so stop() waits until somebody stops the monitoring
(section 4, 9).  Each of
these was met as a counterexample; the properties say that there is no other.

Left out: clients that call out of order (start twice, ask for the status
after the answer; none in the repository does), pause and resume, the DQM
messages, the pipes and threads of MonitorOnly but for the order to stop, an
exception while the result file is opened, the moment between
start() and the loop in which Ctrl-C stops OTPhysics, and `CMSITminiDAQ`,
which drives tools without the state machine.  A run thread that a halt has
left behind is assumed to end before the next configure.

### RD53ChannelGroups and EventReadout

An event is one word: its board, its number and whether it decodes.  The board
(external) accepts triggers, of which some yield no event, and writes events
into `FIFOsize` slots as long as there is room; both interleave with every step
of the reading thread.  The thread is taken apart where it talks to the
board: the sampling of `words_to_read` until two samples agree, each block
read, the polling of the trigger counter.  `mode` chooses who drives it,
`Physics` (boards in turn, free running) or a calibration
(`doScanOnAllGroupsBeBoard`: groups, bursts, `ReadNEvents`); `silentRunning` is
a setting.  `CallReadData` may find the board locked by the monitoring thread
and skip it.  `written`, `taken`, `saved`, `filled` and `exposure` are history
variables: what the board has written since its last `Start`, what has been
read, what went to the raw file, the events filled for a board, and with how
many good events each pixel was measured.

`RD53ChannelGroups` is the layout of the groups as the handler computes it,
with its quotient and its moduli; the whole matrix is the constant.

Left out: the extra bunch crossings of a trigger (`trigger_duration` 0), the
autozero commands, reading from a binary file, a `Stop` between bursts, and
the decoding itself, which is `RD53Decoders`: here it returns what it was
given.

### DacScans

One module for four scans, because they are one algorithm in four copies that
differ in the comparison, in the start of the interval and in who is compared
with what: `settings.scan` says which, and the operators name the differences
(`Register`, `Beyond`, `Better`, `NextMiddle`).  The chips are external: a
response gives the outcomes each chip may have at each register value, and
`Measure` picks one for every chip.  `DownloadNewDACvalues` keeps the register
in the software apart from the one in the chip, because the first chip without
a value makes the function return with commands packed and not sent.  For the
local scan the chips stand for pixels, of which some take no part.  Values are
integers; what counts is their order and their distance from the target.

Left out: the charge that `GainOptimization` sets before its scan, the several
registers `ThrMinimization` moves together (one stands for all), the local
register's write retries, the masks' reset after the scan.

### HistogramFeed and DqmInterface

Bytes are counted, not kept: the stream is the packets one behind the other,
each with its place in it, and the buffer is the bytes from `erased` to
`received`.  A header read anywhere but at the start of a packet gives
`Misread`, and a section of the stream that is no packet is `garbled`.
`Receive` delivers any number of bytes of what has been sent.  The socket
classes are in a git submodule that is not part of the tree; they are modelled
from their use: a disconnected listener throws.  The client is the sequence of
`src/supervisor.cc`, with `abort()` where the code calls it.  The stop is
taken apart at the waits, because the thread goes on meanwhile.
`MonitorDQMInterface` is the same code, with one more second of patience, and is
not modelled twice; its stop comes after the system has been destroyed (`run = "closed"`).

## 3. Runs

| run | checks | result |
|---|---|---|
| `DetectorMonitor` | two callers, two ticks of sleep, two tentatives; `CompletedMeansDone`, `AtMostOneStrayCycle`, `DeadMonitorNeverPauses`, and, under fairness, `EnabledKeepsMeasuring`, `StopRunningEndsThread`; no deadlock | hold |
| `MonitoringCsvWriter` | two chips of one module, two registers of which one is listed, a register of chip scope and two of module scope (over all chips, and over named ones), two runs, three cycles, rotation after 3 lines or 1 second; six properties | hold |
| `FileHandler` | three vectors of two kinds; `ImplementsStore`, `DeleteCompletes` | hold |
| `RD53Decoders` | three threads, several readout sizes, two events that may carry error bits; `PackedInOrder`, `NoSharedAccess`, `TypeOK`, and, under fairness, `ParkedThreadsFinish` | hold |
| `RD53DecodersReturn` | `DecodingReturns` | violated: section 4 |
| `BoardAccess` | one board, two threads, two observables, two routes, one lost reply, two attempts; `MonitorReadsItsObservable`, `VerifySucceeds`, `RouteRestored`, `AccessTypeOK`; no deadlock | hold |
| `RunControl` | seven combinations; `RunHasItsSystem`, `HardwareStopped`, `FailuresReported`, `ResultsWritten`, and, under fairness, `StopCompletes`; no deadlock | hold |
| `EventReadout` | one board, a memory of three words, two groups, two bursts, two attempts, both modes, silent or not; five safety properties and, under fairness, `MeasurementEnds`; no deadlock | hold |
| `EventReadoutTwoBoards` | `EventsOfTheBoard` | violated: section 4 |
| `DacScans` | eight settings of four scans, three chips in two optical groups; four safety properties | hold |
| `DacScansMasking` | `MaskedWithinLimit` | violated: section 4 |
| `DqmInterface` | three data packets of two sizes, headers of two bytes; `OnlyCutsLose`, `ImplementsFeed` and, under fairness, `StopEnds` | hold |

Of the type invariants, which are all proved, the runs check two: those of
`RD53Decoders` (`TypeOK`) and `BoardAccess` (`AccessTypeOK`) say something that
a fault would break, that no chunk begins before the readout and that the recursive
mutex counts guards.

### Bounds

*DetectorMonitor*: two callers are enough for every pair of calls to overlap;
two ticks and two tentatives let a wait run out at every program point of the
thread.  The model has no other bound: the state space is finite, and runs are
infinite.  *MonitoringCsvWriter*: `MaxCycles` 3 gives a file, its rotation, and
a third cycle after either; `MaxSecond` 1 makes names collide within a second
and differ across seconds.  The column set changes when `HEADROOM` has no finite result in a cycle; of
the module registers avg(HEADROOM[*]) then goes with it, and HEADROOM[0] + VINA[1] stands
or falls with the chips it names.  About 620,000 states.
*FileHandler*: `MaxData` 3 has one vector written, one taken and one queued.
*RD53Decoders*: `EventCounts` = {1, 4, 5} with three threads: readouts that leave two
threads without a chunk (1), one (4) and none (5); `FlaggedEvents` = {1, 5}, in the
first chunk and in the last, so that the bits of one thread, of another, of both or
of none are merged; `MaxBatches` = 2 readouts, so that
leftovers of one would be seen by the next.
*BoardAccess*: `MaxAttempts` 2 (10 in the code) has a first attempt, a retry and a last
one.  Calls repeat without bound.
*EventReadout*: three slots for bursts of two, and the free-running reads, make
the memory wrap around at every offset, and be read exactly to its end; three
events in bursts of two give a full and a shorter last burst; two attempts are
a first and a last one; chips of 4 x 2 pixels in two groups of two rows, shifted
from column to column.  `MaxTriggers` 5 bounds a physics run only.  About
750,000 states.
*DacScans*: registers 0 to 7 and measurements 0 to 3; the first chip rises or
falls at any three registers or alternates, the second never answers near some of
the targets, the third is noisy or masked below a threshold; ranges of 4, 5 and
7 values, so that the logarithm is rounded both ways; negative starts for
`ThrMinimization`, with one range that leaves the register at its upper end.
About 270,000 states.
*DqmInterface*: headers of two bytes arrive in halves; `Patience` 2 (10 in the
code) has the wait counted and given up; `MaxPackets` 3.  About 50,000 states.
*RunControl*: the seven combinations are the shapes that
`miniDAQ/CombinedCalibrationFactory.cc` registers: no sub-tool that stops the
run, one that stops it last after others that do not, alone, each of the
three that loop on `fKeepRunning`, and `monitoronly`, which loops on a flag of
its own.  Runs follow one another without bound.

### Fairness

Weak fairness of a thread's actions stands for the operating system running
it.  `FinishCycle` and `ThrowInCycle` are among the monitor's actions, so a
measurement is assumed to end.  Callers of the monitor, `CloseFileHandler`,
`Delete`, `SetData`, new readouts and joins are never assumed to happen.
`CheckWork` has strong fairness: it waits for
a mutex that is free time and again, and each owner sleeps or works elsewhere
between two uses.  A spurious wake-up is possible but never assumed.  In
`RunControl` the run thread is run, so a finite tool ends, and a client that
has called stop() executes it; that OTPhysics ends itself, that anything
throws, that a client asks for anything and that anybody tells `monitoronly`
to stop are not assumed.  In
`EventReadout` the reading thread goes on, a board that may trigger triggers
and writes what it has while there is room: without it nothing ends
`ReadNEvents`, which polls the trigger counter without a limit.  That triggers
yield events or that events are good is not assumed.  In `DqmInterface` only
the steps of a stop that has begun are fair; nothing is assumed of the
processing thread, of the network or of the run.  `BoardAccess` has
no fairness, and no liveness property: the recursive mutex is not fair.

## 4. Where code and documentation disagree

Three runs expect a violation (`PROJECT.json`, "findings"):

1. **A wake-up can be lost** (`Utils/RD53Event.cc:515-516`): `RD53DecodersReturn`.
2. **With two boards the second is filled with the events of the first**
   (`System/SystemController.cc:1149`): `EventReadoutTwoBoards`.
3. **The limit on masked pixels does not limit** (`tools/RD53ThrMinimization.cc:281`,
   `:288`): `DacScansMasking`.  `MCDacScans` gives it a chip of four pixels of
   which two are masked at every threshold but the two highest.

Six more counterexamples are a change of a configuration away, the last one a
change of a property; each was found with the definitions as they stand:

4. **A pause may let a cycle begin** (`MonitorUtils/DetectorMonitor.cc:65-67`,
   `tools/RD53VoltageTuning.cc:106`): add the invariant `PausedMeansQuiet` to
   `DetectorMonitor.cfg`.  `AtMostOneStrayCycle` is what holds.
   `tools/MonitorOnly.cc:653` claims as much of `stopMonitoring`, which does not
   even wait.
5. **A cycle read in one run is filed under the next**
   (`MonitorUtils/MonitoringCsvWriter.cc:507`, `docs/innerTracker/Monitoring.md:74`):
   the property `RowsReadInTheirRun` in `MonitoringCsvWriter.cfg`.
6. **`closeFileHandler` hangs on queued data** (`System/SystemController.cc:203`,
   `Utils/FileHandler.cc:29`): the property `CloseCompletes` in `FileHandler.cfg`.
7. **With two boards a call may go to the wrong one**
   (`HWInterface/BeBoardInterface.cc:22`): `setBoard` is under no lock, so another
   thread may set another board before the lock is taken through `fBoardFW`.
   With one board this cannot happen, so `RightBoard` is in no configuration: add
   the invariant to `BoardAccess.cfg` with `Boards = {board0, board1}`.
8. **A failed read is restored as a register value**
   (`HWInterface/RD53BInterface.cc:978`, `:1007`): as many losses as attempts
   (`MaxLosses = 2`) in `BoardAccess.cfg` break `RouteRestored`.
9. **stop() does not stop MonitorOnly** (`tools/Tool.cc:230-237`,
   `tools/MonitorOnly.cc:216`): `StopCompletes` without its first disjunct.

## 5. Proofs

| theorem | states | argument |
|---|---|---|
| `MonitoringProofs!TypeCorrect` | `Spec => []TypeOK` | one step per action |
| `!CompletedWaits` | `[]CompletedMeansDone` | the outcome is set when the future is ready, and `ReadyIsStable` |
| `!OneStrayCycle` | `[]AtMostOneStrayCycle` | `AtMostOneStrayCycle` is not inductive: `PauseInv` adds that while a pause is in force the flag is clear, and that a thread about to enter has not used its stray cycle yet |
| `!DeadMonitorFailsPauses` | `DeadMonitorNeverPauses` | `CycleInv`: `fIsMonitorRunning` is set from the beginning of a cycle to its end, an exception included |
| `MonitoringProofs!AccessTypeCorrect`, `!MonitorReadsWhatItSelected`, `!CalibrationReadsBack`, `!RouteIsPutBack` | with one board `[]AccessTypeOK`; with replies in time `[]MonitorReadsItsObservable`; and with one calibration `[]VerifySucceeds`, `[]RouteRestored` | labels: see below |
| `RunControlProofs!TypeCorrect`, `!RunKeepsItsSystem`, `!BoardsAreStopped`, `!NoFailureIsLost`, `!ResultsAreWritten` | `[]TypeOK`, `[]RunHasItsSystem`, `[]HardwareStopped`, `[]FailuresReported`, `[]ResultsWritten` | see below |
| `FileHandlerProofs!TypeCorrect`, `!Refinement` | `[]TypeOK`, `Spec => ImplementsStore` | `DataInv`: what was handed over is the file, then what the writer holds, then the queue; `OwnerInv`: an owner that is past the queue test has found it empty, and nothing refills it |
| `RD53DecodersProofs!ChunksAreDisjoint`, `!ChunksCoverEvents` | the chunks partition `1..n` for every number of threads and events | `ChunkSizeCovers`: the quotient rounded up is enough; `LastChunkIsLeast`: before the last chunk none reaches the end |
| `!VectorsAreHandedOver` | `[]NoSharedAccess` | a lowered flag belongs to a thread at work, and the caller touches the vectors only after it has seen all of them raised |
| `!TypeCorrect`, `!EventsArePackedInOrder` | `[]TypeOK`, `[]PackedInOrder` | `DataInv`: a thread with work has its chunk of the readout, one that is done has its events with their bits, or none and `CORRUPTED`; that the vectors one behind the other are then in order, lose nothing (`ConcatenationInOrder`) and carry the bits of all (`ConcatenationHolds`) are inductions over the threads |
| `EventReadoutProofs!TypeCorrect`, `!ReadsOnceInOrder` | `[]TypeOK`, `[]ReadOnceInOrder` | `RingInv`: the unread words of a board stand in its memory from the offset on, numbered in order; a block read there is the next words (`BlockSlots`), also when it is the first of two |
| `!RawFileStaysInOrder`, `!EventsAreFresh` | `[]RawFileInOrder`, `[]NoStaleEvents` | `RawInv`: what `pData` still holds was written after all that was saved; `BurstInv`: a readout of a burst reads behind the board's last `Start`, which is not before the burst, and its events are decoded anew |
| `!EventsAreFilledOnce` | `[]EachEventOnce` | `RunInv`: with one board, the events filled are numbered from 1 on, and those decoded and not yet filled follow |
| `!ChannelsAreExposedOnce` | `GroupsFit => (Spec => []ExposedOnce)` | `ExposureInv`: a channel of a group that is done has been filled `NEvents` times, one of the group under way with the events of the bursts that are done, any other not at all; groups that fit share no pixel |
| `!GroupsAreDisjoint`, `!GroupsCoverRegion` | no pixel is in two groups; the groups cover the region when `HitPerCol` divides the rows | first rows are at least a group's height apart (`FirstRowsApart`); division with remainder |
| `DacScansProofs!TypeCorrect`, `!ScansStayInRange`, `!BestOfTheMeasured`, `!OnlyFailuresLose` | `[]TypeOK`, `[]StaysInRange`, `[]BestWasMeasured`, `[]LostOnlyBehindAFailure` | `RangeInv`: the interval lies in the range, its upper end one above it at most, and what the chip holds is in it |
| `!ScansFindTheNearest` | `[]BestIsNearest` | `NearestInv`: what lies outside of the interval is no nearer than the best, and the interval is at most a power of two that every step halves |
| `!LocalScanFindsTheNearest` | `[]LocalBestIsNearest` | `LocalInv`: see below |
| `DqmInterfaceProofs!TypeCorrect`, `!StopLosesNothing`, `!Refinement` | `[]TypeOK`, `[]OnlyCutsLose`, `Spec => ImplementsFeed` | `erased` is always the end of a packet, the one behind those filled and the one in hand, so every header is read where a packet starts |
| `MonitoringCsvWriterProofs!TypeCorrect` | `[]TypeOK` | lemmas on what a cell update and a write are |
| `!OpenFileBelongsToRun` | `[]OutputBelongsToRun` | `StemInv` and `OpenFileInv`: a stem names the current run, and an open file has the stem in force |
| `!FilesDescribeThemselves` | `[]SelfDescribing` | `LastLineInv`: the open file ends in a line whose columns are `fWrittenColumns` |
| `!LimitsRespected` | `RotationRespected` | a write to the file that stays open has passed the two tests |
| `!NoValueIsLost` | `[]NoValueLost` | `ColumnsInv`: the columns of the cycle under way are the names that have a value in it, physical or virtual |
| `!RowsAreWholeCycles`, `!ModuleValuesAreComplete` | `[]CyclesAreWhole`, `[]ModuleValuesComplete` | `CycleInv`: while the writer has an active cycle, every cell is empty or of this cycle, and what has been read of it is there; `InputsInv`: a module value of the cycle under way has its inputs, and one whose inputs are there and that cannot fail has a value |

The invariant of `RunControl` (`IInv`) has seven parts besides the types.  The
safety properties speak of a client that has stopped; what they need is why
`Tool::Stop` found the flag as it did.  `KeepInv` answers that: a flag that is
clear before the client has cleared it was cleared by OTPhysics itself or, in
a finite run, by the Stop of the last sub-tool, and then the client is past
`status()` and the run is over.  `ToolInv` (a looping tool never finds the
flag set in its Stop) excludes the third possibility, and rests on
`LastToolAssumption`: only the last tool of a combination stops the run or
loops, as in all the combinations registered in
`miniDAQ/CombinedCalibrationFactory.cc`.  `PhaseInv` ties run thread, future
and client, `FailInv` keeps an exception in the future until the client has
it, `HardwareInv` and `WrittenInv` say what a clear flag means for the boards
and the file, and `FileInv` that the pointers are good until the last tool
closes the file.

**Board access.**  In `BoardAccess` a thread carries the steps of its method as a
sequence, so an invariant would have to describe every suffix of every method.
Instead each thread is given a *label*: how many guards it holds, which
interface objects it has set, how far a measurement or a route has come (`phase`),
and the read under way (`word`, `reg`, `attempt`).  `Leads` says which step may
lead from which label to which; `Runs` chains steps.  One lemma per method shows
that its steps run from `Fresh` to a label without guards (`VerifiedRuns`,
`ReadChipMonitorRuns` and the others; a retry of `ReadChipReg` puts more steps in
front of what is left, and still runs).  `Control` says that some labelling
fits the state: what is left of every thread's method runs from its label to
the end, and the mutex belongs to the thread that has guards, with their number
as its count.  One lemma per action shows that it moves one thread to a next
label (`Moves`), and what it changes (`Turn`).  `AccessTypeOK`
follows.  On top of it `Measured` follows the observable of the monitoring from
the multiplexer to the ADC, the FIFO and the answer, and `Routed` the route:
a calibration has put the configured route aside; the monitoring, which may come
in the middle of a calibration's `measureADC`, the one it found, which is the
configured one unless the calibration has overwritten it and will restore it.

The hypotheses are those without which the properties fail, as TLC shows.
`OneBoard`: with two, `setBoard` outside of the lock sends a call to the wrong one
(section 4, 7).  `ReplyInTime`, fewer losses than attempts: a read that is given up is
stored as a value (section 4, 8).  `OneRun`, one thread that runs calibrations,
as `Tool::Start` forks: `ReadChipADC` takes no guard, so two of them would
overwrite each other's route.  There may be any number of monitoring threads.

**The scan of the pixels.**  Bit by bit, the local scan starts at the pixel's own
value, which need not halve the interval.  But an end that has moved was
measured, so after that first value the part still to be searched is at most
what the remaining steps can halve to nothing (`LocalInv`); a walk of
`DoNSteps` has searched all that it left behind, until it turns or meets an end
of the range.

**Inductions.**  What a recursive function computes is proved in
`RD53DecodersProofs` by `InductionOnSet`, stated with a set instead of a
predicate: a set of numbers that contains each one whose predecessors it
contains contains all, because the order of the numbers is well founded.

**Assumptions.**  The theorems rest on the named assumptions of the modules,
which TLC evaluates in the runs: sizes and limits are natural numbers, chips
belong to modules and have numbers that differ within one, expressions read known registers, the boards of
`EventReadout` are distinct, the values of `BoardAccess` are, only the last
sub-tool stops the run or loops (`LastToolAssumption`), there is at least one
decoding thread (`ThreadsAssumption`; `Utils/RD53Shared.h:48` can give none),
scans have a range of registers and responses for all of it.
`ChannelsAreExposedOnce` has the hypothesis `GroupsFit` besides: the setting
`DoOnlyNGroups` (`tools/RD53PixelAlive.cc:24`, `:37`) is at most the number of
groups there are.  Nothing in the code checks it; a larger number measures
groups again, and fills their pixels twice.

**Only model-checked**: liveness (`EnabledKeepsMeasuring`, `StopRunningEndsThread`,
`DeleteCompletes`, `ParkedThreadsFinish`, `StopCompletes`, `MeasurementEnds`,
`StopEnds`), which is beyond the prover, the absence of deadlock, and the
violations of section 4.  Every safety property that a passing run checks is
proved.

## 6. Not modelled

- *Monitoring schedule* (`Utils/RD53RunProgress.h`, `shouldMonitorNow`): a fraction
  compared with two limits.  Its three counters are reset one after the other,
  which can misplace one monitoring cycle; a cycle that is not due does not
  begin, and `MonitoringCsvWriter` covers that.
- *Module identity* (`runDcaLookup`, `loadDcaMapping`): text files and the
  answers of an external command that the repository does not describe.
- *Register manager* (`HWInterface/RegManager.cc`): single transactions of an
  external library under the mutex that `BoardAccess` models.
- *Other calibration tools*: sweeps, fits and plots whose correctness is
  numerical and physical; the golden-section search of `RD53ThrAdjustment` and
  the bitwise scans of `tools/Tool.cc` search curves that are properties of the
  chips.
- *Outer tracker* (`OTMonitor`, `Monitor2S`, `D19cFWInterface`, CIC, MPA, SSA,
  CBC, lpGBT interfaces): register sequences for hardware and firmware whose
  other side is not in the repository.
- *Hardware description, parser, settings; histograms, ROOT and web output;
  scripts*: sequential input and output.
- Of the modelled components, what their sections above name as left out.

## 7. Running the checks

    tlc -workers 2 -config DetectorMonitor.cfg MCDetectorMonitor
    tlapm MonitoringProofs.tla

`PROJECT.json` lists the module and the configuration of each run.
