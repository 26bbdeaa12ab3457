---------------------------- MODULE DqmInterface ----------------------------
(***************************************************************************)
(* The data-quality monitor of one run (DQMUtils/DQMInterface.cc, and its  *)
(* twin MonitorDQM/MonitorDQMInterface.cc): a thread of its own receives   *)
(* the stream of packets the run broadcasts, cuts it back into packets and *)
(* fills the histograms, until the end-of-transmission message or until    *)
(* the client stops it (src/supervisor.cc).                                *)
(*                                                                         *)
(* Bytes are counted, not kept: the stream is the packets one behind the   *)
(* other, so what fDataBuffer holds is the bytes from erased to received.  *)
(* A header that is not read at the start of a packet is read as some      *)
(* other number (Misread).                                                 *)
(***************************************************************************)
EXTENDS Naturals, Sequences

CONSTANTS
  HeaderSize,   \* bytes of a packet header (4 in the code)
  PayloadSizes, \* sizes a packet may have behind its header
  MaxPackets,   \* bound: data packets of a run
  Patience,     \* times stopProcessingData waits one more second (10)
  Misread       \* what payload bytes give when they are read as a header

ASSUME DqmAssumption ==
  /\ HeaderSize \in Nat \ {0}
  /\ PayloadSizes \subseteq Nat
  /\ MaxPackets \in Nat /\ Patience \in Nat /\ Misread \in Nat

VARIABLES
  run,      \* the run: "before", "sending", "ended", "closed"
  sent,     \* the packets it has broadcast, with their place in the stream
  client,   \* where the client is, "aborted" when the program is
  timeout,  \* of stopProcessingData
  connected, \* fListener
  thread,   \* where the processing thread is
  received, \* bytes appended to fDataBuffer so far
  erased,   \* bytes taken out of it
  input,    \* the packet taken out last, inputStream
  filled,   \* packets that a histogrammer has taken in
  file,     \* what fOutputFile->Write() has written
  gaveUp    \* history: stop went on although the thread was running

network    == <<run, sent>>
stopping   == <<client, timeout, connected, file, gaveUp>>
processing == <<thread, received, erased, input, filled>>
vars == <<network, stopping, processing>>

Packet == [start : Nat, end : Nat, kind : {"data", "end", "garbled"}]
None   == [start |-> 0, end |-> 0, kind |-> "garbled"]

TypeOK ==
  /\ run \in {"before", "sending", "ended", "closed"}
  /\ sent \in Seq(Packet)
  /\ client \in {"halted", "configured", "started", "waiting", "check", "process",
                 "written", "destroyed", "aborted"}
  /\ timeout \in 0 .. Patience
  /\ connected \in BOOLEAN
  /\ thread \in {"none", "receive", "scan", "fill", "done"}
  /\ received \in Nat /\ erased \in Nat
  /\ input \in Packet
  /\ filled \in Seq(Packet) /\ file \in Seq(Packet)
  /\ gaveUp \in BOOLEAN

Init ==
  /\ run = "before" /\ sent = <<>>
  /\ client = "halted" /\ timeout = Patience /\ connected = FALSE
  /\ file = <<>> /\ gaveUp = FALSE
  /\ thread = "none" /\ received = 0 /\ erased = 0 /\ input = None
  /\ filled = <<>>

StreamEnd == IF sent = <<>> THEN 0 ELSE sent[Len(sent)].end

\* The data packets: the end-of-transmission message, if any, is the last.
Data == IF sent # <<>> /\ sent[Len(sent)].kind = "end"
        THEN SubSeq(sent, 1, Len(sent) - 1) ELSE sent

-----------------------------------------------------------------------------
(* The run.                                                                *)

Broadcast(size, kind) ==
  sent' = Append(sent, [start |-> StreamEnd, end |-> StreamEnd + HeaderSize + size,
                        kind |-> kind])

\* Data are broadcast from start on; the client starts the run last.
SendData ==
  /\ client # "aborted"
  /\ run = "sending" /\ Len(sent) < MaxPackets
  /\ \E size \in PayloadSizes : Broadcast(size, "data")
  /\ UNCHANGED <<run, stopping, processing>>

\* The end-of-transmission message; a run that has cleared its own flag
\* (OTPhysics) ends without.
EndRun ==
  /\ client # "aborted"
  /\ run = "sending"
  /\ run' = "ended"
  /\ \/ \E size \in PayloadSizes : Broadcast(size, "end")
     \/ UNCHANGED sent
  /\ UNCHANGED <<stopping, processing>>

\* The system is destroyed, and its end of the connection with it.
CloseStream ==
  /\ client # "aborted"
  /\ run = "ended"
  /\ run' = "closed"
  /\ UNCHANGED <<sent, stopping, processing>>

-----------------------------------------------------------------------------
(* The processing thread, running().                                       *)

Buffered == received - erased

\* What the header at the front of the buffer says; any section of the stream
\* that is no packet is a garbled message.
Starts(k, at)     == k \in DOMAIN sent /\ sent[k].start = at
PacketSizeAt(at)  == IF \E k \in DOMAIN sent : Starts(k, at)
                     THEN (sent[CHOOSE k \in DOMAIN sent : Starts(k, at)].end) - at
                     ELSE Misread
Section(from, to) == IF \E k \in DOMAIN sent : Starts(k, from) /\ sent[k].end = to
                     THEN sent[CHOOSE k \in DOMAIN sent : Starts(k, from)]
                     ELSE [start |-> from, end |-> to, kind |-> "garbled"]

\* The buffer holds a whole packet.
Complete == Buffered >= HeaderSize /\ Buffered >= PacketSizeAt(erased)

\* TCP delivers the stream in pieces of any length.
Receive ==
  /\ client # "aborted"
  /\ thread = "receive" /\ connected
  /\ \E to \in received + 1 .. StreamEnd : received' = to
  /\ thread' = "scan"
  /\ UNCHANGED <<network, stopping, erased, input, filled>>

\* Nothing comes any more: the exception ends the loop.  When fListener has
\* been deleted meanwhile the program may as well crash.
ReceiveFails ==
  /\ client # "aborted"
  /\ thread = "receive"
  /\ ~ connected \/ (run = "closed" /\ received = StreamEnd)
  /\ thread' = "done"
  /\ client' \in IF client = "destroyed" THEN {client, "aborted"} ELSE {client}
  /\ UNCHANGED <<network, timeout, connected, file, gaveUp, received, erased, input, filled>>

\* Fault: the packet is not erased from the buffer.
FaultyTakePacket ==
  /\ erased' = erased
  /\ input' = Section(erased, erased + PacketSizeAt(erased))

TakePacket ==
  /\ erased' = erased + PacketSizeAt(erased)
  /\ input' = Section(erased, erased + PacketSizeAt(erased))

Scan ==
  /\ client # "aborted"
  /\ thread = "scan"
  /\ IF Complete
     THEN TakePacket /\ thread' = "fill"
     ELSE thread' = "receive" /\ UNCHANGED <<erased, input>>
  /\ UNCHANGED <<network, stopping, received, filled>>

\* Fault: one packet for each piece received.
FaultyAfterFill == "receive"

\* Where the loop goes on after a packet: the buffer may hold the next one.
AfterFill == "scan"

\* A message no histogrammer accepts aborts the program.
Fill ==
  /\ client # "aborted"
  /\ thread = "fill"
  /\ IF input.kind = "end"
     THEN /\ thread' = "done"
          /\ UNCHANGED <<client, filled>>
     ELSE \/ thread' = AfterFill /\ filled' = Append(filled, input) /\ UNCHANGED client
          \/ client' = "aborted" /\ UNCHANGED <<thread, filled>>
  /\ UNCHANGED <<network, timeout, connected, file, gaveUp, received, erased, input>>

-----------------------------------------------------------------------------
(* The client.                                                             *)

Configure ==
  /\ client = "halted"
  /\ \/ client' = "configured" /\ connected' = TRUE
     \/ client' = "aborted" /\ UNCHANGED connected
  /\ UNCHANGED <<network, timeout, file, gaveUp, processing>>

\* startProcessingData, and then the start of the run.
StartProcessing ==
  /\ client = "configured"
  /\ client' = "started"
  /\ thread' = "receive"
  /\ run' = "sending"
  /\ UNCHANGED <<sent, timeout, connected, file, gaveUp, received, erased, input, filled>>

\* stopProcessingData follows the stop of the run, and for the monitor's data
\* its destruction.
Disconnect ==
  /\ client = "started" /\ run \in {"ended", "closed"}
  /\ client' = "waiting"
  /\ connected' = FALSE
  /\ UNCHANGED <<network, timeout, file, gaveUp, processing>>

\* Fault: the seconds are not counted.
FaultyWaitMore ==
  /\ client = "waiting" /\ thread # "done" /\ timeout > 0
  /\ UNCHANGED vars

WaitMore ==
  /\ client = "waiting" /\ thread # "done" /\ timeout > 0
  /\ timeout' = timeout - 1
  /\ UNCHANGED <<network, client, connected, file, gaveUp, processing>>

WaitIsOver ==
  /\ client = "waiting" /\ (thread = "done" \/ timeout = 0)
  /\ client' = "check"
  /\ gaveUp' = (thread # "done")
  /\ UNCHANGED <<network, timeout, connected, file, processing>>

CheckBuffer ==
  /\ client = "check"
  /\ client' = IF Buffered > 0 THEN "aborted" ELSE "process"
  /\ UNCHANGED <<network, timeout, connected, file, gaveUp, processing>>

ProcessAndWrite ==
  /\ client = "process"
  /\ client' = "written"
  /\ file' = filled
  /\ UNCHANGED <<network, timeout, connected, gaveUp, processing>>

Destroy ==
  /\ client = "written"
  /\ client' = "destroyed"
  /\ UNCHANGED <<network, timeout, connected, file, gaveUp, processing>>

Run     == SendData \/ EndRun \/ CloseStream
Running == Receive \/ ReceiveFails \/ Scan \/ Fill
Stop    == WaitMore \/ WaitIsOver \/ CheckBuffer \/ ProcessAndWrite
Client  == Configure \/ StartProcessing \/ Disconnect \/ Stop \/ Destroy

Next == Run \/ Running \/ Client

Spec     == Init /\ [][Next]_vars
FairSpec == Spec /\ WF_vars(Stop)

-----------------------------------------------------------------------------
(* Properties.                                                             *)

\* However the stream is cut into pieces and whenever the client stops, the
\* packets are filled in the order they were sent, none of them twice, in part
\* or together with bytes of another, and the file holds what was filled before
\* it was written.
Feed == INSTANCE HistogramFeed
ImplementsFeed == Feed!Spec

\* stopProcessingData loses nothing it has: unless it cut the connection before
\* all had come in, or gave up on the thread, the file holds every data packet
\* of the run; and its "Buffer should be empty" is never a false alarm.
OnlyCutsLose ==
  received = StreamEnd /\ ~ gaveUp /\ thread = "done" =>
    /\ Buffered = 0
    /\ client \in {"written", "destroyed"} => file = Data

\* stopProcessingData always comes to an end, with a file or an abort, however
\* slow the thread is and even if it never ends.
StopEnds == client = "waiting" ~> client \in {"written", "destroyed", "aborted"}
=============================================================================
