---------------------------- MODULE EventReadout ----------------------------
(***************************************************************************)
(* How the events of the inner-tracker boards reach the histograms.  The   *)
(* firmware of a board writes them into a circular DDR3 memory; one thread *)
(* of the program reads them (RD53FWInterface::ReadData), decodes them     *)
(* into one vector shared by all boards (RD53Event::decodedEvents) and     *)
(* fills them into the containers of a board.  Two loops drive it:         *)
(*   physics   Physics::run, the boards trigger freely and are read in     *)
(*             turn, each cycle what has come until then;                  *)
(*   measure   the calibrations: Tool::measureBeBoardData measures group   *)
(*             after group of channels, in bursts of events, each by       *)
(*             ReadNEvents, which repeats a readout that came out wrong.   *)
(* An event is one word here: its board, its number in the order in which  *)
(* the board has written it, and whether it decodes.                       *)
(* The states of the thread:                                               *)
(*   cycle, call, decode, next       Physics::run and its analyze          *)
(*   group, burst, fill              doScanOnAllGroupsBeBoard              *)
(*   attempt, wait, check            ReadNEvents                           *)
(*   sample, read, second            ReadData                              *)
(***************************************************************************)
EXTENDS RD53ChannelGroups, Integers, Sequences, FiniteSets

CONSTANTS
  Boards,            \* the boards, in the order of the detector container
  FIFOsize,          \* words in the DDR3 memory of a board
  NEvents,           \* events to measure for every channel
  NEventsPerBurst,   \* events of one ReadNEvents; all of them if not positive
  MAXATTEMPTS,       \* readouts ReadNEvents tries
  MaxTriggers        \* bound on the triggers of a physics run

BoardSet == {Boards[i] : i \in DOMAIN Boards}

ASSUME ReadoutAssumption ==
  /\ Boards \in Seq(BoardSet) /\ Boards # << >>
  /\ \A i, j \in DOMAIN Boards : i # j => Boards[i] # Boards[j]
  /\ FIFOsize \in Nat \ {0}
  /\ NEvents \in Nat \ {0}
  /\ NEventsPerBurst \in Int
  /\ MAXATTEMPTS \in Nat \ {0}
  /\ MaxTriggers \in Nat

VARIABLES
  memory, writePointer,      \* the DDR3 memory of each board
  wordsToRead,               \* register words_to_read
  triggering, triggerCounter, triggersToAccept,
  inFlight,                  \* triggered events not yet in the memory
  mode, silentRunning,       \* constant during a behaviour
  pc, boardIndex,            \* the thread and the board it deals with
  ddr3Offset,                \* of each board: where the next word is read
  nWordsInMemory, pData,     \* locals of ReadData and ReadNEvents
  nAttempts,
  decodedEvents, fEventList,
  NtrialsNevents, NcorruptedNevents,
  groupNumber, burstNumbers, \* locals of the measurement
  numberOfEventsPerRun,
  written,    \* history: events each board has written
  resetAt,    \* history: the value of written at the last Start
  taken,      \* history: words read since then
  saved,      \* history: events last handed to the raw file ...
  savedUpTo,  \* history: ... and the last event handed to it before
  filled,     \* history: the events filled for each board (physics)
  since,      \* history: written when the current ReadNEvents began
  exposure    \* history: good events each channel was measured with

firmware == <<memory, writePointer, wordsToRead, triggering, triggerCounter,
              triggersToAccept, inFlight, written>>
readData == <<ddr3Offset, nWordsInMemory, pData, taken, saved, savedUpTo>>
events   == <<decodedEvents, fEventList>>
counters == <<NtrialsNevents, NcorruptedNevents, numberOfEventsPerRun>>
progress == <<boardIndex, groupNumber, burstNumbers, nAttempts, since>>
filling  == <<filled, exposure>>
vars == <<firmware, readData, events, counters, progress, filling, resetAt,
          mode, silentRunning, pc>>

Word  == [board : BoardSet, id : Nat, good : BOOLEAN]
board == Boards[boardIndex]

FirmwareTypeOK ==
  /\ memory \in [BoardSet -> [0 .. FIFOsize - 1 -> Word]]
  /\ writePointer \in [BoardSet -> 0 .. FIFOsize - 1]
  /\ wordsToRead \in [BoardSet -> 0 .. FIFOsize]
  /\ triggering \in [BoardSet -> BOOLEAN]
  /\ triggerCounter \in [BoardSet -> Nat]
  /\ triggersToAccept \in [BoardSet -> Nat]
  /\ inFlight \in [BoardSet -> Nat]
  /\ written \in [BoardSet -> Nat]

ReadDataTypeOK ==
  /\ ddr3Offset \in [BoardSet -> 0 .. FIFOsize - 1]
  /\ nWordsInMemory \in 0 .. FIFOsize
  /\ pData \in Seq(Word)
  /\ taken \in [BoardSet -> Nat] /\ resetAt \in [BoardSet -> Nat]
  /\ saved \in [BoardSet -> Seq(Nat)] /\ savedUpTo \in [BoardSet -> Nat]

ThreadTypeOK ==
  /\ mode \in {"physics", "measure"} /\ silentRunning \in BOOLEAN
  /\ pc \in {"cycle", "call", "decode", "next", "group", "burst", "fill",
             "attempt", "wait", "check", "sample", "read", "second", "done"}
  /\ boardIndex \in DOMAIN Boards
  /\ nAttempts \in 0 .. MAXATTEMPTS
  /\ groupNumber \in Nat /\ burstNumbers \in Nat /\ since \in Nat

EventsTypeOK ==
  /\ decodedEvents \in Seq(Word) /\ fEventList \in Seq(Word)
  /\ NtrialsNevents \in [BoardSet -> Nat] /\ NcorruptedNevents \in [BoardSet -> Nat]
  /\ numberOfEventsPerRun \in Nat
  /\ filled \in [BoardSet -> Seq(Word)]
  /\ exposure \in [BoardSet -> [RegionOfInterest -> Nat]]

TypeOK == FirmwareTypeOK /\ ReadDataTypeOK /\ ThreadTypeOK /\ EventsTypeOK

\* Nothing a readout depends on: what the slots hold before they are written.
EmptyMemory(b) == [slot \in 0 .. FIFOsize - 1 |-> [board |-> b, id |-> 0, good |-> FALSE]]

\* A physics run has started its boards; a calibration starts them itself.
Init ==
  /\ mode \in {"physics", "measure"} /\ silentRunning \in BOOLEAN
  /\ pc = IF mode = "physics" THEN "cycle" ELSE "group"
  /\ memory = [b \in BoardSet |-> EmptyMemory(b)]
  /\ writePointer = [b \in BoardSet |-> 0] /\ wordsToRead = [b \in BoardSet |-> 0]
  /\ triggering = [b \in BoardSet |-> mode = "physics"]
  /\ triggersToAccept = [b \in BoardSet |-> MaxTriggers]
  /\ triggerCounter = [b \in BoardSet |-> 0] /\ inFlight = [b \in BoardSet |-> 0]
  /\ boardIndex = 1 /\ groupNumber = 0 /\ burstNumbers = 0
  /\ ddr3Offset = [b \in BoardSet |-> 0]
  /\ nWordsInMemory = 0 /\ pData = << >> /\ nAttempts = 0
  /\ decodedEvents = << >> /\ fEventList = << >>
  /\ NtrialsNevents = [b \in BoardSet |-> 0] /\ NcorruptedNevents = [b \in BoardSet |-> 0]
  /\ numberOfEventsPerRun = 0
  /\ written = [b \in BoardSet |-> 0] /\ resetAt = [b \in BoardSet |-> 0]
  /\ taken = [b \in BoardSet |-> 0]
  /\ saved = [b \in BoardSet |-> << >>] /\ savedUpTo = [b \in BoardSet |-> 0]
  /\ filled = [b \in BoardSet |-> << >>]
  /\ since = 0 /\ exposure = [b \in BoardSet |-> [channel \in RegionOfInterest |-> 0]]

Wrap(slot) == slot % FIFOsize

-----------------------------------------------------------------------------
(* The board (external): it accepts triggers, a trigger may yield no event, *)
(* and an event may be corrupted.  It does not overwrite what is not read.  *)

Trigger(b) ==
  /\ triggering[b] /\ triggerCounter[b] < triggersToAccept[b]
  /\ triggerCounter' = [triggerCounter EXCEPT ![b] = @ + 1]
  /\ \E n \in {0, 1} : inFlight' = [inFlight EXCEPT ![b] = @ + n]
  /\ UNCHANGED <<memory, writePointer, wordsToRead, triggering, triggersToAccept,
                 written, readData, events, counters, progress, filling, resetAt,
                 mode, silentRunning, pc>>

WriteEvent(b) ==
  /\ inFlight[b] > 0 /\ wordsToRead[b] < FIFOsize
  /\ inFlight' = [inFlight EXCEPT ![b] = @ - 1]
  /\ written' = [written EXCEPT ![b] = @ + 1]
  /\ \E good \in BOOLEAN :
       memory' = [memory EXCEPT ![b][writePointer[b]] =
                    [board |-> b, id |-> written[b] + 1, good |-> good]]
  /\ writePointer' = [writePointer EXCEPT ![b] = Wrap(@ + 1)]
  /\ wordsToRead' = [wordsToRead EXCEPT ![b] = @ + 1]
  /\ UNCHANGED <<triggering, triggerCounter, triggersToAccept, readData, events,
                 counters, progress, filling, resetAt, mode, silentRunning, pc>>

-----------------------------------------------------------------------------
(* RD53FWInterface::Start and ReadData.                                    *)

\* SendBoardClear empties the chips, ResetReadoutBlk the readout block.
Start(b) ==
  /\ ddr3Offset' = [ddr3Offset EXCEPT ![b] = 0]
  /\ memory' = [memory EXCEPT ![b] = EmptyMemory(b)]
  /\ writePointer' = [writePointer EXCEPT ![b] = 0]
  /\ wordsToRead' = [wordsToRead EXCEPT ![b] = 0]
  /\ inFlight' = [inFlight EXCEPT ![b] = 0]
  /\ triggerCounter' = [triggerCounter EXCEPT ![b] = 0]
  /\ triggering' = [triggering EXCEPT ![b] = TRUE]
  /\ resetAt' = [resetAt EXCEPT ![b] = written[b]]
  /\ taken' = [taken EXCEPT ![b] = 0]

\* The number of words is sampled until two samples agree (pWait is true for
\* every inner-tracker caller).
SampleWordsToRead ==
  /\ pc = "sample"
  /\ nWordsInMemory' = wordsToRead[board]
  /\ pc' = IF wordsToRead[board] = nWordsInMemory THEN "read" ELSE "sample"
  /\ UNCHANGED <<firmware, ddr3Offset, pData, taken, saved, savedUpTo, events,
                 counters, progress, filling, resetAt, mode, silentRunning>>

Block(from, size) == [i \in 1 .. size |-> memory[board][from + i - 1]]

\* ReadBlockRegOffset: the words are appended and their slots are free again.
ReadBlock(from, size) ==
  /\ pData' = pData \o Block(from, size)
  /\ wordsToRead' = [wordsToRead EXCEPT ![board] = @ - size]
  /\ taken' = [taken EXCEPT ![board] = @ + size]

ToTheEnd == FIFOsize - ddr3Offset[board]

\* The memory wraps around inside of what is to be read.
ReadFirstBlock ==
  /\ pc = "read" /\ nWordsInMemory > ToTheEnd
  /\ ReadBlock(ddr3Offset[board], ToTheEnd)
  /\ pc' = "second"
  /\ UNCHANGED <<memory, writePointer, triggering, triggerCounter, triggersToAccept,
                 inFlight, written, ddr3Offset, nWordsInMemory, saved, savedUpTo,
                 events, counters, progress, filling, resetAt, mode, silentRunning>>

\* Everything is handed to the raw-data file, what pData held before included.
SaveToFile(data) ==
  IF data = << >> THEN UNCHANGED <<saved, savedUpTo>>
  ELSE /\ saved' = [saved EXCEPT ![board] = [i \in DOMAIN data |-> data[i].id]]
       /\ savedUpTo' = [savedUpTo EXCEPT ![board] =
                          IF saved[board] = << >> THEN @
                          ELSE saved[board][Len(saved[board])]]

\* Fault: the second block continues at the offset.
FaultyReadLastBlock ==
  \/ /\ pc = "read" /\ nWordsInMemory <= ToTheEnd
     /\ ReadBlock(ddr3Offset[board], nWordsInMemory)
  \/ /\ pc = "second"
     /\ ReadBlock(Wrap(ddr3Offset[board] + nWordsInMemory - ToTheEnd),
                  nWordsInMemory - ToTheEnd)

ReadLastBlock ==
  \/ /\ pc = "read" /\ nWordsInMemory <= ToTheEnd
     /\ ReadBlock(ddr3Offset[board], nWordsInMemory)
  \/ /\ pc = "second"
     /\ ReadBlock(0, nWordsInMemory - ToTheEnd)

\* ReadData returns to ReadNEvents or to SystemController::ReadData.
FinishReadData ==
  /\ ReadLastBlock
  /\ ddr3Offset' = [ddr3Offset EXCEPT ![board] = Wrap(@ + nWordsInMemory)]
  /\ SaveToFile(pData')
  /\ nWordsInMemory' = 0
  /\ pc' = IF mode = "measure" THEN "check" ELSE "decode"
  /\ UNCHANGED <<memory, writePointer, triggering, triggerCounter, triggersToAccept,
                 inFlight, written, events, counters, progress,
                 filling, resetAt, mode, silentRunning>>

-----------------------------------------------------------------------------
(* Physics::run.                                                           *)

\* Fault: the events of the last cycle are kept.
FaultyBeginCycle ==
  /\ pc = "cycle"
  /\ boardIndex' = 1
  /\ pc' = "call"
  /\ UNCHANGED <<firmware, readData, events, counters, groupNumber, burstNumbers,
                 nAttempts, since, filling, resetAt, mode, silentRunning>>

BeginCycle ==
  /\ pc = "cycle"
  /\ decodedEvents' = << >>
  /\ boardIndex' = 1
  /\ pc' = "call"
  /\ UNCHANGED <<firmware, readData, fEventList, counters, groupNumber, burstNumbers,
                 nAttempts, since, filling, resetAt, mode, silentRunning>>

\* fKeepRunning has been cleared; Physics::Stop stops the boards.
EndRun ==
  /\ pc = "cycle"
  /\ triggering' = [b \in BoardSet |-> FALSE]
  /\ pc' = "done"
  /\ UNCHANGED <<memory, writePointer, wordsToRead, triggerCounter, triggersToAccept,
                 inFlight, written, readData, events, counters, progress, filling,
                 resetAt, mode, silentRunning>>

\* BeBoardInterface::ReadData only tries to lock: a board the monitoring
\* thread is using is skipped in this cycle.
CallReadData ==
  /\ pc = "call"
  /\ \/ /\ pc' = "next"
        /\ UNCHANGED <<pData, nWordsInMemory>>
     \/ /\ pc' = "sample"
        /\ pData' = << >>
        /\ nWordsInMemory' = wordsToRead[board]
  /\ UNCHANGED <<firmware, ddr3Offset, taken, saved, savedUpTo, events, counters,
                 progress, filling, resetAt, mode, silentRunning>>

\* DecodeData: the vector of decoded events is reused if it is not empty.
Decode(data) == IF decodedEvents = << >> THEN data ELSE decodedEvents

\* Nothing is decoded or filled if there was nothing to read.
DecodeAndFill ==
  /\ pc = "decode"
  /\ IF pData = << >> THEN UNCHANGED <<events, filled>>
     ELSE /\ decodedEvents' = Decode(pData)
          /\ fEventList' = decodedEvents'
          /\ filled' = [filled EXCEPT ![board] = @ \o fEventList']
  /\ pData' = << >>
  /\ pc' = "next"
  /\ UNCHANGED <<firmware, ddr3Offset, nWordsInMemory, taken, saved, savedUpTo, counters, progress, exposure, resetAt, mode,
                 silentRunning>>

NextBoard ==
  /\ pc = "next"
  /\ IF boardIndex < Len(Boards)
     THEN /\ boardIndex' = boardIndex + 1
          /\ pc' = "call"
          /\ UNCHANGED numberOfEventsPerRun
     ELSE /\ numberOfEventsPerRun' = numberOfEventsPerRun + Len(decodedEvents)
          /\ pc' = "cycle"
          /\ UNCHANGED boardIndex
  /\ UNCHANGED <<firmware, readData, events, NtrialsNevents, NcorruptedNevents,
                 groupNumber, burstNumbers, nAttempts, since, filling, resetAt, mode,
                 silentRunning>>

-----------------------------------------------------------------------------
(* Tool::measureBeBoardData and RD53FWInterface::ReadNEvents.              *)

NumberOfBursts ==
  IF NEventsPerBurst <= 0 THEN 1
  ELSE (NEvents \div NEventsPerBurst) + (IF NEvents % NEventsPerBurst > 0 THEN 1 ELSE 0)

LastBurst ==
  IF NEventsPerBurst <= 0 THEN NEvents
  ELSE IF NEvents % NEventsPerBurst > 0 THEN NEvents % NEventsPerBurst
  ELSE NEventsPerBurst

CurrentNumberOfEvents == IF burstNumbers = 1 THEN LastBurst ELSE NEventsPerBurst

\* The next group, or the next board, or the end.
BeginGroup ==
  /\ pc = "group"
  /\ IF groupNumber < NumberOfGroups
     THEN /\ burstNumbers' = NumberOfBursts
          /\ pc' = "burst"
          /\ UNCHANGED <<boardIndex, groupNumber>>
     ELSE IF boardIndex < Len(Boards)
     THEN /\ boardIndex' = boardIndex + 1
          /\ groupNumber' = 0
          /\ UNCHANGED <<burstNumbers, pc>>
     ELSE /\ pc' = "done"
          /\ UNCHANGED <<boardIndex, groupNumber, burstNumbers>>
  /\ UNCHANGED <<firmware, readData, events, counters, nAttempts, since, filling,
                 resetAt, mode, silentRunning>>

BeginBurst ==
  /\ pc = "burst"
  /\ IF burstNumbers > 0
     THEN /\ triggersToAccept' = [triggersToAccept EXCEPT ![board] = CurrentNumberOfEvents]
          /\ since' = written[board]
          /\ pc' = "attempt"
          /\ UNCHANGED groupNumber
     ELSE /\ groupNumber' = groupNumber + 1
          /\ pc' = "group"
          /\ UNCHANGED <<triggersToAccept, since>>
  /\ UNCHANGED <<memory, writePointer, wordsToRead, triggering, triggerCounter,
                 inFlight, written, readData, events, counters, boardIndex,
                 burstNumbers, nAttempts, filling, resetAt, mode, silentRunning>>

\* Fault: the data of the previous attempt are kept.
FaultyClearedData == pData

ClearedData == << >>

BeginAttempt ==
  /\ pc = "attempt"
  /\ nAttempts' = nAttempts + 1
  /\ pData' = ClearedData
  /\ Start(board)
  /\ pc' = "wait"
  /\ UNCHANGED <<triggersToAccept, written, nWordsInMemory, saved, savedUpTo,
                 events, counters, boardIndex, groupNumber, burstNumbers, since,
                 filling, mode, silentRunning>>

\* Fault: one trigger too many is waited for.
FaultyTriggersReceived == triggerCounter[board] > CurrentNumberOfEvents

TriggersReceived == triggerCounter[board] >= CurrentNumberOfEvents

\* Polls the trigger counter, and calls ReadData.
WaitForTriggers ==
  /\ pc = "wait"
  /\ IF TriggersReceived
     THEN pc' = "sample" /\ nWordsInMemory' = wordsToRead[board]
     ELSE UNCHANGED <<pc, nWordsInMemory>>
  /\ UNCHANGED <<firmware, ddr3Offset, pData, taken, saved, savedUpTo, events,
                 counters, progress, filling, resetAt, mode, silentRunning>>

\* No data count as a bad status; a silent readout is not checked for it.
ReadoutFailed(data) ==
  \/ ~silentRunning /\ (data = << >> \/ \E i \in DOMAIN data : ~data[i].good)
  \/ Len(data) # CurrentNumberOfEvents

\* Fault: the events decoded before are not cleared.
FaultyDecodedAnew(data) == decodedEvents \o data

DecodedAnew(data) == data

\* Stop, decode, check.  The attempt that fails last is given up.
CheckReadout ==
  /\ pc = "check"
  /\ triggering' = [triggering EXCEPT ![board] = FALSE]
  /\ decodedEvents' = DecodedAnew(pData)
  /\ LET failed == ReadoutFailed(decodedEvents')
         again  == failed /\ ~silentRunning /\ nAttempts < MAXATTEMPTS
     IN /\ NtrialsNevents' = [NtrialsNevents EXCEPT ![board] = @ + (IF failed THEN 1 ELSE 0)]
        /\ NcorruptedNevents' = [NcorruptedNevents EXCEPT ![board] =
                                   @ + (IF failed /\ ~again THEN 1 ELSE 0)]
        /\ pData' = IF failed /\ ~again THEN << >> ELSE pData
        /\ pc' = IF again THEN "attempt" ELSE "fill"
  /\ UNCHANGED <<memory, writePointer, wordsToRead, triggerCounter, triggersToAccept,
                 inFlight, written, ddr3Offset, nWordsInMemory, taken, saved,
                 savedUpTo, fEventList, numberOfEventsPerRun, progress, filling,
                 resetAt, mode, silentRunning>>

\* SystemController::ReadNEvents decodes (the events decoded above are reused,
\* those of a readout given up included) and the events are filled, but for
\* the corrupted ones.
FillGroup ==
  /\ pc = "fill"
  /\ decodedEvents' = Decode(pData)
  /\ fEventList' = decodedEvents'
  /\ LET good == Cardinality({i \in DOMAIN fEventList' : fEventList'[i].good})
     IN exposure' = [exposure EXCEPT ![board] =
                       [channel \in RegionOfInterest |->
                          IF channel \in TestGroup(groupNumber) THEN @[channel] + good
                          ELSE @[channel]]]
  /\ burstNumbers' = burstNumbers - 1
  /\ pData' = << >> /\ nAttempts' = 0
  /\ pc' = "burst"
  /\ UNCHANGED <<firmware, ddr3Offset, nWordsInMemory, taken, saved, savedUpTo,
                 counters, boardIndex, groupNumber, since, filled, resetAt, mode,
                 silentRunning>>

-----------------------------------------------------------------------------
Physics == BeginCycle \/ EndRun \/ CallReadData \/ DecodeAndFill \/ NextBoard

Measure == \/ BeginGroup \/ BeginBurst \/ BeginAttempt \/ WaitForTriggers
           \/ CheckReadout \/ FillGroup

Thread == SampleWordsToRead \/ ReadFirstBlock \/ FinishReadData \/ Physics \/ Measure

\* The run or the measurement is over.
Done == pc = "done" /\ UNCHANGED vars

Next == (\E b \in BoardSet : Trigger(b) \/ WriteEvent(b)) \/ Thread \/ Done

Spec == Init /\ [][Next]_vars

(* The thread goes on; a board that may trigger does, and it writes what it *)
(* has while there is room.                                                *)
FairSpec ==
  /\ Spec /\ WF_vars(Thread)
  /\ \A b \in BoardSet : WF_vars(Trigger(b)) /\ WF_vars(WriteEvent(b))

-----------------------------------------------------------------------------
(* Properties.                                                             *)

\* What a readout returns are the next words of the board, each once and in
\* the order written, however often the memory has wrapped around
\* (ReadData's two blocks and its offset).
ReadOnceInOrder ==
  pc \in {"sample", "read", "second", "decode", "check"} =>
    \A i \in DOMAIN pData :
      /\ pData[i].board = board
      /\ pData[i].id = resetAt[board] + taken[board] - Len(pData) + i

\* No event is handed to the raw-data file twice, although ReadData hands
\* over all of pData and ReadNEvents reads again and again.
RawFileInOrder ==
  \A b \in BoardSet : \A i \in DOMAIN saved[b] :
    saved[b][i] > (IF i = 1 THEN savedUpTo[b] ELSE saved[b][i - 1])

\* The events filled for a burst were written after the burst had begun: none
\* is left over from another group or burst (ReadNEvents, DecodeData).
NoStaleEvents ==
  pc = "burst" /\ burstNumbers < NumberOfBursts =>
    \A i \in DOMAIN fEventList : fEventList[i].board = board /\ fEventList[i].id > since

\* If no readout was given up, a measurement that is not silent has filled
\* every channel it averages over with NEvents good events: groups, bursts
\* and repetitions add up (doScanOnAllGroupsBeBoard, ReadNEvents).
ExposedOnce ==
  pc = "done" /\ mode = "measure" /\ ~silentRunning =>
    \A b \in BoardSet : NcorruptedNevents[b] = 0 =>
      \A channel \in AllChannelGroup : exposure[b][channel] = NEvents

\* In a physics run with one board every event is filled once, in order, and
\* counted once, also when the board is skipped or a readout finds nothing
\* (Physics::analyze, DecodeData).
EachEventOnce ==
  mode = "physics" /\ Len(Boards) = 1 =>
    /\ \A i \in DOMAIN filled[board] : filled[board][i].id = i
    /\ pc \in {"cycle", "done"} => numberOfEventsPerRun = Len(filled[board])

\* The events filled for a board are its own (SystemController::ReadData).
\* DecodeData reuses what it has decoded for another board.
EventsOfTheBoard ==
  \A b \in BoardSet : \A i \in DOMAIN filled[b] : filled[b][i].board = b

\* A measurement ends whatever is lost or corrupted: ReadNEvents gives up.
MeasurementEnds == (mode = "measure") ~> (pc = "done")
=============================================================================
