---------------------------- MODULE RD53Decoders ----------------------------
(***************************************************************************)
(* The event decoding threads of Utils/RD53Event.{h,cc}.  One condition    *)
(* variable and one flag per thread (vecWorkDone) tell the threads that    *)
(* there is work; the caller posts the work without holding the mutex and  *)
(* then spins on the flags.                                                *)
(*                                                                         *)
(* A decoding thread is                                                    *)
(*   exited    not forked yet, or returned                                 *)
(*   test      about to test keepDecodersRunning                           *)
(*   check     about to lock theMtx and test its flag                      *)
(*   falling   has found no work, holds theMtx, about to block             *)
(*   blocked   waiting for thereIsWork2Do                                  *)
(*   decode    decoding its chunk                                          *)
(*   report    about to set its flag                                       *)
(* The thread that decodes (the readout) and the one that forks and joins  *)
(* (Configure and Destroy) take turns: Tool::Stop waits for the run before *)
(* the system is destroyed.                                                *)
(***************************************************************************)
EXTENDS EventPartition, Sequences

CONSTANTS
  EventCounts,   \* how many events a readout may hold
  FlaggedEvents, \* which of them may carry error bits: of the trigger, a chip, ...
  MaxBatches     \* bound: number of calls of DecodeEventsMultiThreads

ASSUME DecodersAssumption ==
  /\ EventCounts \subseteq Nat \ {0}
  /\ FlaggedEvents \subseteq Nat
  /\ MaxBatches \in Nat

VARIABLES
  forked,                \* decodingThreads is not empty
  keepDecodersRunning,
  pc,                    \* of each decoding thread
  vecWorkDone, vecEventStart, vecEvents, vecEventStatus,
  runPc,                 \* the readout: "idle", "post", "notify", "spin"
  batch, count,          \* history: the number of this readout, its events
  flagged,               \* history: those of its events that carry error bits
  decodedEvents, eventStatus,
  mainPc,                \* "idle", or "post", "notify", "join" in JoinDecodingThreads
  forking                \* that call comes from ForkDecodingThreads

decoding == <<vecWorkDone, vecEventStart, vecEvents, vecEventStatus>>
readout  == <<runPc, batch, count, flagged, decodedEvents, eventStatus>>
control  == <<forked, keepDecodersRunning, mainPc, forking>>
vars     == <<control, pc, decoding, readout>>

Events == Nat \X (Nat \ {0})

\* A status is a word of bits, GOOD the one without any.  The bits that events
\* carry themselves are one here.
Status == SUBSET {"FLAGGED", "CORRUPTED", "EMPTY", "EVSIZE", "NOEVHEADER"}
GOOD == {}

TypeOK ==
  /\ forked \in BOOLEAN /\ keepDecodersRunning \in BOOLEAN
  /\ pc \in [Threads -> {"exited", "test", "check", "falling", "blocked", "decode", "report"}]
  /\ vecWorkDone \in [Threads -> BOOLEAN]
  /\ vecEventStart \in [Threads -> Seq(Events)]
  /\ vecEvents \in [Threads -> Seq(Events)]
  /\ vecEventStatus \in [Threads -> Status]
  /\ runPc \in {"idle", "post", "notify", "spin"}
  /\ batch \in Nat /\ count \in Nat /\ flagged \subseteq Nat
  /\ decodedEvents \in Seq(Events)
  /\ eventStatus \in Status
  /\ mainPc \in {"idle", "post", "notify", "join"}
  /\ forking \in BOOLEAN

Init ==
  /\ forked = FALSE /\ keepDecodersRunning = FALSE
  /\ pc = [w \in Threads |-> "exited"]
  /\ vecWorkDone = [w \in Threads |-> FALSE]
  /\ vecEventStart = [w \in Threads |-> << >>]
  /\ vecEvents = [w \in Threads |-> << >>]
  /\ vecEventStatus = [w \in Threads |-> GOOD]
  /\ runPc = "idle"
  /\ batch = 0 /\ count = 0 /\ flagged = {}
  /\ decodedEvents = << >>
  /\ eventStatus = GOOD
  /\ mainPc = "idle"
  /\ forking = FALSE

-----------------------------------------------------------------------------
(* A decoding thread: decoderThread.                                       *)

Goto(w, from, to) == pc[w] = from /\ pc' = [pc EXCEPT ![w] = to]

TestKeepRunning(w) ==
  /\ Goto(w, "test", IF keepDecodersRunning THEN "check" ELSE "exited")
  /\ UNCHANGED <<control, decoding, readout>>

\* The mutex is held from the test of the flag until the thread blocks.
CheckWork(w) ==
  /\ \A v \in Threads : pc[v] # "falling"
  /\ Goto(w, "check", IF vecWorkDone[w] THEN "falling" ELSE "decode")
  /\ UNCHANGED <<control, decoding, readout>>

Block(w) ==
  /\ Goto(w, "falling", "blocked")
  /\ UNCHANGED <<control, decoding, readout>>

\* A condition variable may wake up by itself.
SpuriousWakeUp(w) ==
  /\ Goto(w, "blocked", "check")
  /\ UNCHANGED <<control, decoding, readout>>

\* The status of events that are kept: the bits of each of them.
BitsOf(events) ==
  IF \E i \in DOMAIN events : events[i][2] \in flagged THEN {"FLAGGED"} ELSE GOOD

\* A thread without a chunk skips DecodeEvents.  Events with error bits are kept
\* and their bits go into the status; a chunk that cannot be decoded loses all
\* its events, and its status the bits collected so far.
Decode(w, corrupted) ==
  /\ corrupted => vecEventStart[w] # << >>
  /\ Goto(w, "decode", "report")
  /\ vecEvents' = [vecEvents EXCEPT ![w] = IF corrupted THEN << >> ELSE @ \o vecEventStart[w]]
  /\ vecEventStatus' = [vecEventStatus EXCEPT ![w] =
                          IF vecEventStart[w] = << >> THEN @
                          ELSE IF corrupted THEN {"CORRUPTED"} ELSE BitsOf(vecEventStart[w])]
  /\ UNCHANGED <<control, vecWorkDone, vecEventStart, readout>>

Report(w) ==
  /\ Goto(w, "report", "test")
  /\ vecWorkDone' = [vecWorkDone EXCEPT ![w] = TRUE]
  /\ UNCHANGED <<control, vecEventStart, vecEvents, vecEventStatus, readout>>

Works(w) ==
  \/ TestKeepRunning(w) \/ CheckWork(w) \/ Block(w)
  \/ \E corrupted \in BOOLEAN : Decode(w, corrupted)
  \/ Report(w)

-----------------------------------------------------------------------------
(* The readout: DecodeEventsMultiThreads, called with cleared events and a *)
(* status without bits.                                                    *)

TakeTurns == runPc = "idle" /\ mainPc = "idle"

\* The events of the chunk, in order.
ChunkEvents(n, w) ==
  [k \in 1..(IF w <= LastChunk(n) THEN LastOf(n, w) - FirstOf(n, w) + 1 ELSE 0) |->
     <<batch + 1, FirstOf(n, w) + k - 1>>]

BeginDecoding(n, withErrors) ==
  /\ TakeTurns /\ forked
  /\ batch < MaxBatches
  /\ runPc' = "post"
  /\ batch' = batch + 1 /\ count' = n /\ flagged' = withErrors
  /\ vecEventStart' = [w \in Threads |-> vecEventStart[w] \o ChunkEvents(n, w)]
  /\ decodedEvents' = << >> /\ eventStatus' = GOOD
  /\ UNCHANGED <<control, pc, vecWorkDone, vecEvents, vecEventStatus>>

\* No threads or no data; data whose headers are not where the block sizes say;
\* data without a header: no thread gets work.
RefuseData(error) ==
  /\ TakeTurns
  /\ error # "EMPTY" => forked
  /\ batch < MaxBatches
  /\ batch' = batch + 1 /\ count' = 0 /\ flagged' = {}
  /\ decodedEvents' = << >> /\ eventStatus' = {error}
  /\ UNCHANGED <<control, pc, decoding, runPc>>

\* Nobody waits between the stores to the flags, and each thread reads only its
\* own: they are one step.
PostWork ==
  /\ runPc = "post"
  /\ runPc' = "notify"
  /\ vecWorkDone' = [w \in Threads |-> FALSE]
  /\ UNCHANGED <<control, pc, vecEventStart, vecEvents, vecEventStatus,
                 batch, count, flagged, decodedEvents, eventStatus>>

\* Fault: notify_one.
FaultyWakeUpAll ==
  IF \E w \in Threads : pc[w] = "blocked"
  THEN \E w \in Threads : Goto(w, "blocked", "check")
  ELSE UNCHANGED pc

\* notify_all
WakeUpAll == pc' = [w \in Threads |-> IF pc[w] = "blocked" THEN "check" ELSE pc[w]]

NotifyWork ==
  /\ runPc = "notify"
  /\ runPc' = "spin"
  /\ WakeUpAll
  /\ UNCHANGED <<control, decoding, batch, count, flagged, decodedEvents, eventStatus>>

\* Fault: the spin loop takes one finished thread for all.
FaultyAllWorkDone == \E w \in Threads : vecWorkDone[w]

\* The flags are raised by the threads and not lowered during the spin loop.
AllWorkDone == \A w \in Threads : vecWorkDone[w]

Concatenation ==
  LET upTo[i \in 0..NTHREADS] == IF i = 0 THEN << >> ELSE upTo[i - 1] \o vecEvents[i - 1]
  IN upTo[NTHREADS]

\* Fault: the vectors keep their events.
FaultyPackEvents ==
  /\ runPc = "spin" /\ AllWorkDone
  /\ runPc' = "idle"
  /\ decodedEvents' = Concatenation
  /\ eventStatus' = UNION {vecEventStatus[w] : w \in Threads}
  /\ vecEventStart' = [w \in Threads |-> << >>]
  /\ vecEventStatus' = [w \in Threads |-> GOOD]
  /\ UNCHANGED <<control, pc, vecWorkDone, vecEvents, batch, count, flagged>>

\* myMove takes its source by value: the vectors are emptied.
PackEvents ==
  /\ runPc = "spin" /\ AllWorkDone
  /\ runPc' = "idle"
  /\ decodedEvents' = Concatenation
  /\ eventStatus' = UNION {vecEventStatus[w] : w \in Threads}
  /\ vecEvents' = [w \in Threads |-> << >>]
  /\ vecEventStart' = [w \in Threads |-> << >>]
  /\ vecEventStatus' = [w \in Threads |-> GOOD]
  /\ UNCHANGED <<control, pc, vecWorkDone, batch, count, flagged>>

Calls ==
  \/ \E n \in EventCounts : \E withErrors \in SUBSET (FlaggedEvents \cap 1..n) : BeginDecoding(n, withErrors)
  \/ \E error \in {"EMPTY", "EVSIZE", "NOEVHEADER"} : RefuseData(error)

ReadoutWorks == PostWork \/ NotifyWork \/ PackEvents

-----------------------------------------------------------------------------
(* ForkDecodingThreads and JoinDecodingThreads.                            *)

\* Fork joins the threads of an earlier fork first.
BeginJoin(toFork) ==
  /\ TakeTurns
  /\ toFork => forked
  /\ keepDecodersRunning' = FALSE
  /\ mainPc' = "post" /\ forking' = toFork
  /\ UNCHANGED <<forked, pc, decoding, readout>>

PostExit ==
  /\ mainPc = "post"
  /\ mainPc' = "notify"
  /\ vecWorkDone' = [w \in Threads |-> FALSE]
  /\ UNCHANGED <<forked, keepDecodersRunning, forking, pc, vecEventStart, vecEvents,
                 vecEventStatus, readout>>

NotifyExit ==
  /\ mainPc = "notify"
  /\ mainPc' = "join"
  /\ WakeUpAll
  /\ UNCHANGED <<forked, keepDecodersRunning, forking, decoding, readout>>

\* decodingThreads keeps the joined threads: forked stays as it is.
EndJoin ==
  /\ mainPc = "join" /\ ~forking
  /\ \A w \in Threads : pc[w] = "exited"
  /\ mainPc' = "idle"
  /\ UNCHANGED <<forked, keepDecodersRunning, forking, pc, decoding, readout>>

ForkThreads ==
  /\ \/ TakeTurns /\ ~forked
     \/ mainPc = "join" /\ forking /\ \A w \in Threads : pc[w] = "exited"
  /\ forked' = TRUE /\ keepDecodersRunning' = TRUE
  /\ mainPc' = "idle" /\ forking' = FALSE
  /\ pc' = [w \in Threads |-> "test"]
  /\ vecWorkDone' = [w \in Threads |-> TRUE]
  /\ vecEventStart' = [w \in Threads |-> << >>]
  /\ vecEvents' = [w \in Threads |-> << >>]
  /\ vecEventStatus' = [w \in Threads |-> GOOD]
  /\ UNCHANGED readout

Main == (\E toFork \in BOOLEAN : BeginJoin(toFork)) \/ PostExit \/ NotifyExit \/ EndJoin \/ ForkThreads

Next ==
  \/ \E w \in Threads : Works(w) \/ SpuriousWakeUp(w)
  \/ Calls \/ ReadoutWorks
  \/ Main

Spec == Init /\ [][Next]_vars

\* Every thread is scheduled, and gets the mutex when it is free time and again;
\* a wake-up nobody asked for cannot be relied on.
Fairness ==
  /\ \A w \in Threads : WF_vars(Works(w)) /\ SF_vars(CheckWork(w))
  /\ WF_vars(ReadoutWorks)
  /\ WF_vars(PostExit \/ NotifyExit \/ EndJoin \/ (forking /\ ForkThreads))

FairSpec == Spec /\ Fairness

-----------------------------------------------------------------------------
(* Properties.                                                             *)

\* What a call returns is what was read out: events of this readout only, each
\* at most once and in their order, whichever thread decoded them.  The status
\* says of the call as a whole what each thread found: it is CORRUPTED exactly if
\* events are missing, it has the bits of exactly the events returned, and it is
\* good only of a complete readout without errors.
PackedInOrder ==
  runPc = "idle" /\ batch > 0 =>
    /\ \A i, j \in DOMAIN decodedEvents : i < j => decodedEvents[i][2] < decodedEvents[j][2]
    /\ \A i \in DOMAIN decodedEvents : decodedEvents[i] \in {batch} \X (1..count)
    /\ "CORRUPTED" \in eventStatus <=> Len(decodedEvents) # count
    /\ "FLAGGED" \in eventStatus <=> \E i \in DOMAIN decodedEvents : decodedEvents[i][2] \in flagged
    /\ eventStatus = GOOD => count > 0 /\ Len(decodedEvents) = count /\ flagged = {}

\* While the readout thread fills the chunks of the threads, and after it has
\* packed what they decoded, no thread is working on a chunk: the vectors are
\* shared without a lock.
NoSharedAccess ==
  runPc \in {"idle", "post"} => \A w \in Threads : pc[w] = "decode" => vecEventStart[w] = << >>

\* Work posted by the time all threads are blocked is done, and the call returns.
ParkedThreadsFinish ==
  (runPc = "notify" /\ \A w \in Threads : pc[w] = "blocked") ~> runPc = "idle"

\* What the readout relies on: a call with running threads returns.
DecodingReturns == (runPc = "post" /\ keepDecodersRunning) ~> runPc = "idle"
=============================================================================
