------------------------- MODULE DqmInterfaceProofs -------------------------
(***************************************************************************)
(* For every header size, packet size, number of packets and patience: the *)
(* DQM implements HistogramFeed, and its stop loses nothing it has.        *)
(***************************************************************************)
EXTENDS DqmInterface, TLAPS

Boundary(k) == IF k = 0 THEN 0 ELSE sent[k].end

\* The packets lie one behind the other in the stream.
Layout ==
  /\ \A k \in 1 .. Len(sent) :
       /\ sent[k].start = Boundary(k - 1)
       /\ sent[k].end >= sent[k].start + HeaderSize
       /\ sent[k].kind \in {"data", "end"}
  /\ \A k, l \in 1 .. Len(sent) : k < l => sent[k].end <= sent[l].start
  /\ \A k \in 1 .. Len(sent) : sent[k].kind = "end" => k = Len(sent)
  /\ run \in {"before", "sending"} => \A k \in 1 .. Len(sent) : sent[k].kind = "data"
  /\ run = "before" => sent = <<>>
  /\ client \in {"halted", "configured"} => run = "before" /\ thread = "none"

NoWhole == Len(filled) < Len(sent) => received < sent[Len(filled) + 1].end

\* Where the thread is in the stream.
Place ==
  /\ received <= StreamEnd /\ erased <= received
  /\ Len(filled) <= Len(sent)
  /\ \A i \in 1 .. Len(filled) : filled[i] = sent[i] /\ sent[i].kind = "data"
  /\ thread \in {"none", "receive", "scan"} => erased = Boundary(Len(filled))
  /\ thread = "fill" =>
       /\ Len(filled) < Len(sent) /\ input = sent[Len(filled) + 1]
       /\ erased = input.end
  /\ thread = "receive" => NoWhole
  /\ thread = "done" =>
       \/ erased = Boundary(Len(filled)) /\ NoWhole
       \/ /\ Len(sent) = Len(filled) + 1 /\ sent[Len(sent)].kind = "end"
          /\ erased = sent[Len(sent)].end

\* What the client has seen of the thread.
Patient ==
  /\ client \in {"check", "process", "written", "destroyed"} /\ ~ gaveUp => thread = "done"
  /\ client \in {"written", "destroyed"} /\ ~ gaveUp => file = filled

IInv == TypeOK /\ Layout /\ Place /\ Patient

USE DqmAssumption
-----------------------------------------------------------------------------
\* The stream ends where its last packet ends.
LEMMA StreamEndIsBoundary ==
  ASSUME TypeOK
  PROVE  StreamEnd = Boundary(Len(sent)) /\ StreamEnd \in Nat
<1>1. sent \in Seq(Packet) /\ Len(sent) \in Nat
  BY DEF TypeOK
<1>2. sent = <<>> <=> Len(sent) = 0
  BY <1>1
<1>3. Len(sent) # 0 => sent[Len(sent)] \in Packet
  BY <1>1
<1> QED
  BY <1>1, <1>2, <1>3 DEF StreamEnd, Boundary, Packet

\* A boundary is a number, and those inside the stream do not pass its end.
LEMMA Boundaries ==
  ASSUME TypeOK, Layout, NEW k \in 0 .. Len(sent)
  PROVE  /\ Boundary(k) \in Nat
         /\ Boundary(k) <= StreamEnd
         /\ k < Len(sent) => Boundary(k) < StreamEnd
<1>1. sent \in Seq(Packet) /\ Len(sent) \in Nat
  BY DEF TypeOK
<1>2. \A l \in 1 .. Len(sent) : sent[l] \in Packet
  BY <1>1
<1>3. \A l \in 1 .. Len(sent) : sent[l].start \in Nat /\ sent[l].end \in Nat
  BY <1>2 DEF Packet
<1>4. StreamEnd = Boundary(Len(sent)) /\ StreamEnd \in Nat
  BY StreamEndIsBoundary
<1>5. CASE k = Len(sent)
  BY <1>1, <1>3, <1>4, <1>5 DEF Boundary
<1>6. CASE k < Len(sent)
  <2>1. Len(sent) \in 1 .. Len(sent) /\ Len(sent) # 0
    BY <1>1, <1>6
  <2>2. sent[Len(sent)].end >= sent[Len(sent)].start + HeaderSize
    BY <2>1 DEF Layout
  <2>3. StreamEnd = sent[Len(sent)].end
    BY <1>4, <2>1 DEF Boundary
  <2>4. CASE k = 0
    BY <2>2, <2>3, <2>4, <1>3, <2>1 DEF Boundary
  <2>5. CASE k # 0
    <3>1. k \in 1 .. Len(sent)
      BY <1>1, <2>5
    <3>2. sent[k].end <= sent[Len(sent)].start
      BY <3>1, <2>1, <1>6 DEF Layout
    <3>3. Boundary(k) = sent[k].end
      BY <2>5 DEF Boundary
    <3> QED
      BY <3>1, <3>2, <3>3, <2>1, <2>2, <2>3, <1>3
  <2> QED
    BY <2>4, <2>5
<1> QED
  BY <1>5, <1>6, <1>1

\* What is read at a boundary is the packet that starts there.
LEMMA ReadAtBoundary ==
  ASSUME TypeOK, Layout, NEW m \in Nat, m < Len(sent)
  PROVE  /\ PacketSizeAt(Boundary(m)) = sent[m + 1].end - Boundary(m)
         /\ Section(Boundary(m), sent[m + 1].end) = sent[m + 1]
<1>1. sent \in Seq(Packet) /\ Len(sent) \in Nat /\ DOMAIN sent = 1 .. Len(sent)
  BY DEF TypeOK
<1>2. \A l \in 1 .. Len(sent) : sent[l].start \in Nat /\ sent[l].end \in Nat
  <2>1. \A l \in 1 .. Len(sent) : sent[l] \in Packet
    BY <1>1
  <2> QED
    BY <2>1 DEF Packet
<1>3. m + 1 \in 1 .. Len(sent) /\ (m + 1) - 1 = m
  BY <1>1
<1>4. sent[m + 1].start = Boundary(m)
  BY <1>3 DEF Layout
<1>5. Starts(m + 1, Boundary(m))
  BY <1>1, <1>3, <1>4 DEF Starts
<1>6. ASSUME NEW k \in DOMAIN sent, Starts(k, Boundary(m))
      PROVE  k = m + 1
  <2>1. k \in 1 .. Len(sent) /\ sent[k].start = sent[m + 1].start
    BY <1>1, <1>4, <1>6 DEF Starts
  <2>2. \A i, j \in 1 .. Len(sent) : i < j => sent[i].start < sent[j].start
    <3> TAKE i, j \in 1 .. Len(sent)
    <3> HAVE i < j
    <3>1. sent[i].end <= sent[j].start
      BY DEF Layout
    <3>2. sent[i].end >= sent[i].start + HeaderSize
      BY DEF Layout
    <3> QED
      BY <3>1, <3>2, <1>2
  <2>3. ~ (k < m + 1) /\ ~ (m + 1 < k)
    BY <2>1, <2>2, <1>2, <1>3
  <2> QED
    BY <2>1, <2>3, <1>3
<1>7. (CHOOSE k \in DOMAIN sent : Starts(k, Boundary(m))) = m + 1
  BY <1>1, <1>3, <1>5, <1>6
<1>8. \E k \in DOMAIN sent : Starts(k, Boundary(m))
  BY <1>1, <1>3, <1>5
<1>9. \E k \in DOMAIN sent : Starts(k, Boundary(m)) /\ sent[k].end = sent[m + 1].end
  BY <1>1, <1>3, <1>5
<1> QED
  BY <1>7, <1>8, <1>9 DEF PacketSizeAt, Section

\* A whole packet at the front of the buffer is the next one of the run.
LEMMA WholePacket ==
  ASSUME TypeOK, Layout, Place, thread = "scan", Complete, TakePacket
  PROVE  /\ Len(filled) < Len(sent)
         /\ sent[Len(filled) + 1] \in Packet
         /\ erased' = sent[Len(filled) + 1].end
         /\ input' = sent[Len(filled) + 1]
         /\ erased' <= received
<1>1. erased = Boundary(Len(filled)) /\ Len(filled) \in Nat
  BY DEF Place, TypeOK
<1>2. Len(sent) \in Nat /\ Len(filled) <= Len(sent)
  BY DEF Place, TypeOK
<1>3. Len(filled) < Len(sent)
  <2>1. erased < StreamEnd
    BY StreamEndIsBoundary DEF Complete, Buffered, Place, TypeOK
  <2> QED
    BY <2>1, <1>1, <1>2, StreamEndIsBoundary
<1>4. PacketSizeAt(erased) = sent[Len(filled) + 1].end - erased
  BY <1>1, <1>2, <1>3, ReadAtBoundary
<1>5. sent[Len(filled) + 1] \in Packet
  BY <1>1, <1>2, <1>3 DEF TypeOK
<1>6. sent[Len(filled) + 1].end \in Nat /\ erased \in Nat /\ received \in Nat
  BY <1>5 DEF Packet, TypeOK
<1>7. erased + PacketSizeAt(erased) = sent[Len(filled) + 1].end
  BY <1>4, <1>6
<1>8. Section(erased, sent[Len(filled) + 1].end) = sent[Len(filled) + 1]
  BY <1>1, <1>2, <1>3, ReadAtBoundary
<1>9. received >= sent[Len(filled) + 1].end
  BY <1>4, <1>6 DEF Complete, Buffered
<1> QED
  BY <1>3, <1>5, <1>6, <1>7, <1>8, <1>9 DEF TakePacket

-----------------------------------------------------------------------------
(* Every step keeps the types.                                             *)

\* What is broadcast is a sequence of packets,
LEMMA BroadcastType ==
  ASSUME TypeOK, NEW size \in PayloadSizes, NEW kind \in {"data", "end"}, Broadcast(size, kind)
  PROVE  sent' \in Seq(Packet)
<1>1. StreamEnd \in Nat
  BY StreamEndIsBoundary
<1>2. StreamEnd + HeaderSize + size \in Nat
  BY <1>1
<1>3. [start |-> StreamEnd, end |-> StreamEnd + HeaderSize + size, kind |-> kind] \in Packet
  BY <1>1, <1>2 DEF Packet
<1> QED
  BY <1>3 DEF Broadcast, TypeOK

\* what a section of the stream is read as is a packet,
LEMMA SectionType ==
  ASSUME TypeOK, NEW from \in Nat, NEW to \in Nat
  PROVE  Section(from, to) \in Packet
<1>1. \A k \in DOMAIN sent : sent[k] \in Packet
  BY DEF TypeOK
<1>2. CASE \E k \in DOMAIN sent : Starts(k, from) /\ sent[k].end = to
  <2>1. (CHOOSE k \in DOMAIN sent : Starts(k, from)) \in DOMAIN sent
    BY <1>2
  <2> QED
    BY <1>1, <1>2, <2>1 DEF Section
<1>3. CASE ~ \E k \in DOMAIN sent : Starts(k, from) /\ sent[k].end = to
  BY <1>3 DEF Section, Packet
<1> QED
  BY <1>2, <1>3

\* and so is what is filled.
LEMMA AppendType ==
  ASSUME TypeOK
  PROVE  Append(filled, input) \in Seq(Packet)
<1>1. filled \in Seq(Packet) /\ input \in Packet
  BY DEF TypeOK
<1> QED
  BY <1>1

\* No step leaves the types.
LEMMA TypeStep ==
  ASSUME IInv, [Next]_vars
  PROVE  TypeOK'
<1> USE DEF IInv, TypeOK
<1>1. CASE SendData
  <2>1. PICK size \in PayloadSizes : Broadcast(size, "data")
    BY <1>1 DEF SendData
  <2>2. sent' \in Seq(Packet)
    BY <2>1, BroadcastType
  <2> QED
    BY <1>1, <2>2 DEF SendData, stopping, processing
<1>2. CASE EndRun
  <2>1. sent' \in Seq(Packet)
    <3>1. CASE UNCHANGED sent
      BY <3>1
    <3>2. CASE \E size \in PayloadSizes : Broadcast(size, "end")
      BY <3>2, BroadcastType
    <3> QED
      BY <1>2, <3>1, <3>2 DEF EndRun
  <2> QED
    BY <1>2, <2>1 DEF EndRun, stopping, processing
<1>3. CASE CloseStream
  BY <1>3 DEF CloseStream, stopping, processing
<1>4. CASE Receive
  <2>1. received' \in Nat
    BY <1>4, StreamEndIsBoundary DEF Receive
  <2> QED
    BY <1>4, <2>1 DEF Receive, network, stopping
<1>5. CASE ReceiveFails
  BY <1>5 DEF ReceiveFails, network
<1>6. CASE Scan
  <2>1. erased' \in Nat /\ input' \in Packet
    <3>1. CASE Complete
      <4>1. thread = "scan" /\ TakePacket
        BY <1>6, <3>1 DEF Scan
      <4> QED
        BY <3>1, <4>1, WholePacket DEF Packet
    <3>2. CASE ~ Complete
      BY <1>6, <3>2 DEF Scan
    <3> QED
      BY <3>1, <3>2
  <2>2. thread' \in {"fill", "receive"}
    BY <1>6 DEF Scan
  <2> QED
    BY <1>6, <2>1, <2>2 DEF Scan, network, stopping
<1>7. CASE Fill
  <2>1. filled' \in Seq(Packet)
    <3>1. filled' = filled \/ filled' = Append(filled, input)
      BY <1>7 DEF Fill
    <3>2. Append(filled, input) \in Seq(Packet)
      BY AppendType
    <3> QED
      BY <3>1, <3>2
  <2>2. thread' \in {"fill", "scan", "done"} /\ client' \in {client, "aborted"}
    BY <1>7 DEF Fill, AfterFill
  <2> QED
    BY <1>7, <2>1, <2>2 DEF Fill, network
<1>8. CASE Client
  <2>1. CASE Configure
    BY <2>1 DEF Configure, network, processing
  <2>2. CASE StartProcessing
    BY <2>2 DEF StartProcessing
  <2>3. CASE Disconnect
    BY <2>3 DEF Disconnect, network, processing
  <2>4. CASE WaitMore
    BY <2>4 DEF WaitMore, network, processing
  <2>5. CASE WaitIsOver
    BY <2>5 DEF WaitIsOver, network, processing
  <2>6. CASE CheckBuffer
    BY <2>6 DEF CheckBuffer, network, processing
  <2>7. CASE ProcessAndWrite
    BY <2>7 DEF ProcessAndWrite, network, processing
  <2>8. CASE Destroy
    BY <2>8 DEF Destroy, network, processing
  <2> QED
    BY <1>8, <2>1, <2>2, <2>3, <2>4, <2>5, <2>6, <2>7, <2>8 DEF Client, Stop
<1>9. CASE UNCHANGED vars
  BY <1>9 DEF vars, network, stopping, processing
<1> QED
  BY <1>1, <1>2, <1>3, <1>4, <1>5, <1>6, <1>7, <1>8, <1>9 DEF Next, Run, Running

-----------------------------------------------------------------------------
(* Every step keeps the layout of the stream.                              *)

\* A packet appended keeps the others where they are.
LEMMA BroadcastEffect ==
  ASSUME TypeOK, Layout, NEW size \in PayloadSizes, NEW kind \in {"data", "end"},
         Broadcast(size, kind)
  PROVE  /\ Len(sent') = Len(sent) + 1
         /\ \A k \in 1 .. Len(sent) : sent'[k] = sent[k]
         /\ sent'[Len(sent) + 1] \in Packet
         /\ sent'[Len(sent) + 1].start = StreamEnd
         /\ sent'[Len(sent) + 1].end >= StreamEnd + HeaderSize
         /\ sent'[Len(sent) + 1].kind = kind
         /\ \A k \in 0 .. Len(sent) : Boundary(k)' = Boundary(k)
         /\ StreamEnd' > StreamEnd
<1> DEFINE p == [start |-> StreamEnd, end |-> StreamEnd + HeaderSize + size, kind |-> kind]
<1>1. StreamEnd \in Nat /\ StreamEnd + HeaderSize + size \in Nat
  BY StreamEndIsBoundary
<1>2. p \in Packet /\ p.start = StreamEnd /\ p.end >= StreamEnd + HeaderSize /\ p.kind = kind
  BY <1>1 DEF Packet
<1>3. sent' = Append(sent, p)
  BY DEF Broadcast
<1> HIDE DEF p
<1>4. /\ Len(sent') = Len(sent) + 1
      /\ \A k \in 1 .. Len(sent) : sent'[k] = sent[k]
      /\ sent'[Len(sent) + 1] = p
  BY <1>2, <1>3 DEF TypeOK
<1>5. \A k \in 0 .. Len(sent) : Boundary(k)' = Boundary(k)
  BY <1>4 DEF Boundary, TypeOK
<1>6. StreamEnd' > StreamEnd
  <2>1. sent' # <<>>
    BY <1>3, <1>2 DEF TypeOK
  <2>2. StreamEnd' = p.end
    BY <2>1, <1>4 DEF StreamEnd
  <2>3. p.end \in Nat
    BY <1>2 DEF Packet
  <2> QED
    BY <2>2, <2>3, <1>1, <1>2
<1> QED
  BY <1>2, <1>4, <1>5, <1>6

\* A broadcast keeps the layout of the stream.
LEMMA LayoutBroadcast ==
  ASSUME TypeOK, Layout, run = "sending", NEW size \in PayloadSizes,
         NEW kind \in {"data", "end"}, Broadcast(size, kind),
         run' \in {"sending", "ended"}, kind = "end" => run' = "ended", UNCHANGED client
  PROVE  Layout'
<1> DEFINE n == Len(sent)
<1>1. n \in Nat /\ Len(sent') = n + 1
  BY BroadcastEffect DEF TypeOK
<1>2. ASSUME NEW k \in 1 .. Len(sent')
      PROVE  /\ sent'[k].start = Boundary(k - 1)'
             /\ sent'[k].end >= sent'[k].start + HeaderSize
             /\ sent'[k].kind \in {"data", "end"}
  <2>1. CASE k \in 1 .. n
    <3>1. sent'[k] = sent[k] /\ k - 1 \in 0 .. n
      BY <1>1, <2>1, BroadcastEffect
    <3>2. Boundary(k - 1)' = Boundary(k - 1)
      BY <3>1, BroadcastEffect
    <3> QED
      BY <2>1, <3>1, <3>2 DEF Layout
  <2>2. CASE k = n + 1
    <3>1. k - 1 = n /\ n \in 0 .. n
      BY <1>1, <2>2
    <3>2. Boundary(k - 1)' = StreamEnd
      BY <3>1, BroadcastEffect, StreamEndIsBoundary
    <3> QED
      BY <2>2, <3>2, BroadcastEffect
  <2> QED
    BY <1>1, <1>2, <2>1, <2>2
<1>3. ASSUME NEW k \in 1 .. Len(sent'), NEW l \in 1 .. Len(sent'), k < l
      PROVE  sent'[k].end <= sent'[l].start
  <2>1. k \in 1 .. n /\ (l \in 1 .. n \/ l = n + 1)
    BY <1>1, <1>3
  <2>2. CASE l \in 1 .. n
    BY <2>1, <2>2, <1>3, BroadcastEffect DEF Layout
  <2>3. CASE l = n + 1
    <3>1. sent'[l].start = StreamEnd /\ sent'[k].end = Boundary(k)
      BY <2>1, <2>3, BroadcastEffect DEF Boundary
    <3>2. k \in 0 .. n
      BY <2>1
    <3> QED
      BY <3>1, <3>2, Boundaries
  <2> QED
    BY <2>1, <2>2, <2>3
<1>4. run' \in {"before", "sending"} => \A k \in 1 .. Len(sent') : sent'[k].kind = "data"
  <2> HAVE run' \in {"before", "sending"}
  <2>1. kind = "data"
    OBVIOUS
  <2> TAKE k \in 1 .. Len(sent')
  <2>2. CASE k \in 1 .. n
    BY <2>2, BroadcastEffect DEF Layout
  <2>3. CASE k = n + 1
    BY <2>1, <2>3, BroadcastEffect
  <2> QED
    BY <1>1, <2>2, <2>3
<1>5. /\ run' = "before" => sent' = <<>>
      /\ client' \in {"halted", "configured"} => run' = "before" /\ thread' = "none"
  BY DEF Layout
<1>6. \A k \in 1 .. Len(sent') : sent'[k].kind = "end" => k = Len(sent')
  <2> TAKE k \in 1 .. Len(sent')
  <2>1. k \in 1 .. n => sent'[k].kind = "data"
    BY BroadcastEffect DEF Layout
  <2> QED
    BY <1>1, <2>1
<1> QED
  BY <1>2, <1>3, <1>4, <1>5, <1>6 DEF Layout

\* The thread and the client leave the stream alone.
LEMMA LayoutKept ==
  ASSUME Layout, UNCHANGED sent,
         run' \in {run, "ended", "closed"} \/ (run = "before" /\ run' = "sending"),
         run' = "before" => run = "before",
         client' \in {"halted", "configured"} => run' = "before" /\ thread' = "none"
  PROVE  Layout'
<1>1. \A k : Boundary(k)' = Boundary(k)
  BY DEF Boundary
<1>2. \A k \in 1 .. Len(sent') :
        /\ sent'[k].start = Boundary(k - 1)'
        /\ sent'[k].end >= sent'[k].start + HeaderSize
        /\ sent'[k].kind \in {"data", "end"}
  BY <1>1 DEF Layout
<1> QED
  BY <1>2 DEF Layout

\* No step breaks the layout of the stream.
LEMMA LayoutStep ==
  ASSUME IInv, [Next]_vars
  PROVE  Layout'
<1> USE DEF IInv
<1>1. CASE SendData
  <2>1. PICK size \in PayloadSizes : Broadcast(size, "data")
    BY <1>1 DEF SendData
  <2> QED
    BY <1>1, <2>1, LayoutBroadcast DEF SendData, stopping
<1>2. CASE EndRun
  <2>1. CASE UNCHANGED sent
    BY <1>2, <2>1, LayoutKept DEF EndRun, stopping, processing, Layout
  <2>2. CASE \E size \in PayloadSizes : Broadcast(size, "end")
    BY <1>2, <2>2, LayoutBroadcast DEF EndRun, stopping
  <2> QED
    BY <1>2, <2>1, <2>2 DEF EndRun
<1>3. CASE CloseStream
  BY <1>3, LayoutKept DEF CloseStream, stopping, processing, Layout
<1>4. CASE Running
  <2>1. UNCHANGED network /\ thread # "none" /\ client' \in {client, "aborted"}
    BY <1>4 DEF Running, Receive, ReceiveFails, Scan, Fill, stopping
  <2> QED
    BY <2>1, LayoutKept DEF Layout, network
<1>5. CASE Configure
  BY <1>5, LayoutKept DEF Configure, network, processing, Layout
<1>6. CASE StartProcessing
  BY <1>6, LayoutKept DEF StartProcessing, Layout
<1>7. CASE Disconnect \/ Stop \/ Destroy
  <2>1. UNCHANGED <<network, processing>> /\ client' \notin {"halted", "configured"}
    BY <1>7 DEF Disconnect, Stop, Destroy, WaitMore, WaitIsOver, CheckBuffer, ProcessAndWrite
  <2> QED
    BY <2>1, LayoutKept DEF Layout, network
<1>8. CASE UNCHANGED vars
  BY <1>8, LayoutKept DEF vars, network, stopping, processing, Layout
<1> QED
  BY <1>1, <1>2, <1>3, <1>4, <1>5, <1>6, <1>7, <1>8 DEF Next, Run, Client

-----------------------------------------------------------------------------
(* Every step keeps the thread's place in the stream.                      *)

\* A broadcast leaves the client where it is in the stream.
LEMMA PlaceBroadcast ==
  ASSUME TypeOK, Layout, Place, run = "sending", NEW size \in PayloadSizes,
         NEW kind \in {"data", "end"}, Broadcast(size, kind), UNCHANGED processing
  PROVE  Place'
<1> DEFINE m == Len(filled)  n == Len(sent)
<1>1. m \in Nat /\ n \in Nat /\ m <= n /\ Len(sent') = n + 1
  BY BroadcastEffect DEF TypeOK, Place
<1>2. UNCHANGED <<thread, received, erased, input, filled>>
  BY DEF processing
<1>3. StreamEnd' > StreamEnd /\ StreamEnd \in Nat /\ received \in Nat
  BY BroadcastEffect, StreamEndIsBoundary DEF TypeOK
<1>4. StreamEnd' = sent'[n + 1].end
  <2>1. sent' # <<>>
    BY <1>1
  <2> QED
    BY <2>1, <1>1 DEF StreamEnd
<1>5. received <= StreamEnd'
  <2>1. StreamEnd' \in Nat
    BY <1>4, BroadcastEffect DEF Packet
  <2> QED
    BY <1>3, <2>1 DEF Place
<1>6. \A i \in 1 .. m : filled'[i] = sent'[i] /\ sent'[i].kind = "data"
  <2> TAKE i \in 1 .. m
  <2>1. i \in 1 .. n /\ filled[i] = sent[i] /\ sent[i].kind = "data"
    BY <1>1 DEF Place
  <2>2. sent'[i] = sent[i]
    BY <2>1, BroadcastEffect
  <2> QED
    BY <1>2, <2>1, <2>2
<1>7. Boundary(m)' = Boundary(m)
  <2>1. m # 0 => m \in 1 .. n
    BY <1>1
  <2>2. m # 0 => sent'[m] = sent[m]
    BY <2>1, BroadcastEffect
  <2> QED
    BY <1>2, <2>2 DEF Boundary
<1>8. m < n => sent'[m + 1] = sent[m + 1]
  <2>1. m < n => m + 1 \in 1 .. n
    BY <1>1
  <2> QED
    BY <2>1, BroadcastEffect
<1>9. NoWhole => NoWhole'
  <2>1. m = n => received < sent'[m + 1].end
    <3>1. sent'[n + 1].end \in Nat
      BY BroadcastEffect DEF Packet
    <3> QED
      BY <1>3, <1>4, <3>1 DEF Place
  <2> QED
    BY <1>1, <1>2, <1>8, <2>1 DEF NoWhole
<1>10. ~ (n = m + 1 /\ sent[n].kind = "end")
  <2>1. n = m + 1 => n \in 1 .. n
    BY <1>1
  <2> QED
    BY <2>1 DEF Layout
<1> QED
  BY <1>1, <1>2, <1>5, <1>6, <1>7, <1>8, <1>9, <1>10 DEF Place

\* Receiving keeps the place of the client,
LEMMA PlaceReceive ==
  ASSUME IInv, Receive
  PROVE  Place'
<1> USE DEF IInv
<1>1. UNCHANGED <<sent, filled, erased>> /\ thread = "receive" /\ thread' = "scan"
  BY DEF Receive, network
<1>2. PICK to \in received + 1 .. StreamEnd : received' = to
  BY DEF Receive
<1>3. received' <= StreamEnd /\ erased <= received'
  BY <1>2, StreamEndIsBoundary DEF TypeOK, Place
<1> QED
  BY <1>1, <1>3 DEF Place, StreamEnd, Boundary

\* and so does a failure to receive,
LEMMA PlaceReceiveFails ==
  ASSUME IInv, ReceiveFails
  PROVE  Place'
BY DEF IInv, ReceiveFails, network, Place, StreamEnd, Boundary, NoWhole

\* a scan of the buffer,
LEMMA PlaceScan ==
  ASSUME IInv, Scan
  PROVE  Place'
<1> USE DEF IInv
<1> DEFINE m == Len(filled)
<1>1. UNCHANGED <<sent, filled, received>> /\ thread = "scan"
  BY DEF Scan, network
<1>2. CASE Complete
  <2>1. TakePacket /\ thread' = "fill"
    BY <1>2 DEF Scan
  <2>2. /\ m < Len(sent) /\ erased' = sent[m + 1].end /\ input' = sent[m + 1]
        /\ erased' <= received
    BY <1>1, <1>2, <2>1, WholePacket
  <2> QED
    BY <1>1, <2>1, <2>2 DEF Place, StreamEnd
<1>3. CASE ~ Complete
  <2>1. UNCHANGED <<erased, input>> /\ thread' = "receive"
    BY <1>3 DEF Scan
  <2>2. NoWhole
    <3> SUFFICES ASSUME m < Len(sent)
                 PROVE  received < sent[m + 1].end
      BY DEF NoWhole
    <3>1. erased = Boundary(m) /\ m \in Nat /\ erased \in Nat /\ received \in Nat
      BY <1>1 DEF Place, TypeOK
    <3>2. PacketSizeAt(erased) = sent[m + 1].end - erased
      BY <3>1, ReadAtBoundary
    <3>3. m + 1 \in 1 .. Len(sent) /\ (m + 1) - 1 = m
      BY <3>1 DEF TypeOK
    <3>4. sent[m + 1] \in Packet
      BY <3>3 DEF TypeOK
    <3>5. sent[m + 1].end \in Nat /\ sent[m + 1].end >= erased + HeaderSize
      BY <3>1, <3>3, <3>4 DEF Layout, Packet
    <3> QED
      BY <1>3, <3>1, <3>2, <3>5 DEF Complete, Buffered
  <2> QED
    BY <1>1, <2>1, <2>2 DEF Place, StreamEnd, Boundary, NoWhole
<1> QED
  BY <1>2, <1>3

\* and a fill of the histograms.
LEMMA PlaceFill ==
  ASSUME IInv, Fill
  PROVE  Place'
<1> USE DEF IInv
<1> DEFINE m == Len(filled)
<1>1. UNCHANGED <<sent, received, erased, input>> /\ thread = "fill"
  BY DEF Fill, network
<1>2. /\ m \in Nat /\ Len(sent) \in Nat /\ m < Len(sent) /\ input = sent[m + 1]
      /\ erased = sent[m + 1].end /\ m + 1 \in 1 .. Len(sent)
  BY <1>1 DEF Place, TypeOK
<1>3. CASE input.kind = "end"
  <2>1. thread' = "done" /\ UNCHANGED filled
    BY <1>3 DEF Fill
  <2>2. Len(sent) = m + 1
    BY <1>2, <1>3 DEF Layout
  <2> QED
    BY <1>1, <1>2, <1>3, <2>1, <2>2 DEF Place, StreamEnd
<1>4. CASE input.kind # "end" /\ filled' = Append(filled, input)
  <2>1. thread' = "scan"
    BY <1>4, <1>1 DEF Fill, AfterFill, TypeOK
  <2>2. input \in Packet /\ input.kind = "data"
    BY <1>2, <1>4 DEF TypeOK, Layout
  <2>3. Len(filled') = m + 1 /\ filled'[m + 1] = input /\ \A i \in 1 .. m : filled'[i] = filled[i]
    BY <1>4, <2>2 DEF TypeOK
  <2>4. \A i \in 1 .. Len(filled') : filled'[i] = sent'[i] /\ sent'[i].kind = "data"
    BY <1>1, <1>2, <2>2, <2>3 DEF Place
  <2>5. erased' = Boundary(Len(filled))' 
    BY <1>1, <1>2, <2>3 DEF Boundary
  <2> QED
    BY <1>1, <1>2, <2>1, <2>3, <2>4, <2>5 DEF Place, StreamEnd
<1>5. CASE input.kind # "end" /\ UNCHANGED <<thread, filled>>
  BY <1>1, <1>5 DEF Place, StreamEnd, Boundary
<1> QED
  BY <1>3, <1>4, <1>5 DEF Fill

\* No step loses the place of the client.
LEMMA PlaceStep ==
  ASSUME IInv, [Next]_vars
  PROVE  Place'
<1> USE DEF IInv
<1>1. CASE SendData
  <2>1. PICK size \in PayloadSizes : Broadcast(size, "data")
    BY <1>1 DEF SendData
  <2> QED
    BY <1>1, <2>1, PlaceBroadcast DEF SendData
<1>2. CASE EndRun
  <2>1. CASE UNCHANGED sent
    BY <1>2, <2>1 DEF EndRun, processing, Place, StreamEnd, Boundary, NoWhole
  <2>2. CASE \E size \in PayloadSizes : Broadcast(size, "end")
    BY <1>2, <2>2, PlaceBroadcast DEF EndRun
  <2> QED
    BY <1>2, <2>1, <2>2 DEF EndRun
<1>3. CASE StartProcessing
  <2>1. sent = <<>> /\ thread = "none" /\ thread' = "receive"
    BY <1>3 DEF StartProcessing, Layout
  <2>2. ~ (Len(filled) < Len(sent))
    BY <2>1 DEF TypeOK
  <2> QED
    BY <1>3, <2>1, <2>2 DEF StartProcessing, Place, StreamEnd, Boundary, NoWhole
<1>4. CASE UNCHANGED <<sent, processing>>
  BY <1>4 DEF processing, Place, StreamEnd, Boundary, NoWhole
<1>5. CASE CloseStream \/ Configure \/ Disconnect \/ Stop \/ Destroy \/ UNCHANGED vars
  BY <1>4, <1>5 DEF CloseStream, Configure, Disconnect, Stop, Destroy, WaitMore, WaitIsOver,
                    CheckBuffer, ProcessAndWrite, vars, network
<1> QED
  BY <1>1, <1>2, <1>3, <1>5, PlaceReceive, PlaceReceiveFails, PlaceScan, PlaceFill
  DEF Next, Run, Running, Client

\* The client does not stop before the stream does.
LEMMA PatientStep ==
  ASSUME IInv, [Next]_vars
  PROVE  Patient'
<1> USE DEF IInv, Patient
<1>1. CASE SendData \/ EndRun \/ CloseStream
  BY <1>1 DEF SendData, EndRun, CloseStream, stopping, processing
<1>2. CASE Running
  <2>1. /\ UNCHANGED <<file, gaveUp>> /\ thread # "done"
        /\ client' \in {client, "aborted"}
    BY <1>2 DEF Running, Receive, ReceiveFails, Scan, Fill, stopping
  <2> QED
    BY <2>1
<1>3. CASE Configure \/ StartProcessing \/ Disconnect \/ WaitMore
  BY <1>3 DEF Configure, StartProcessing, Disconnect, WaitMore
<1>4. CASE WaitIsOver \/ CheckBuffer \/ ProcessAndWrite \/ Destroy
  BY <1>4 DEF WaitIsOver, CheckBuffer, ProcessAndWrite, Destroy, processing
<1>5. CASE UNCHANGED vars
  BY <1>5 DEF vars, stopping, processing
<1> QED
  BY <1>1, <1>2, <1>3, <1>4, <1>5 DEF Next, Run, Client, Stop

-----------------------------------------------------------------------------

\* The invariant holds at the start,
LEMMA InitIInv == Init => IInv
<1> SUFFICES ASSUME Init
             PROVE  IInv
  OBVIOUS
<1>1. TypeOK
  <2>1. None \in Packet
    BY DEF None, Packet
  <2>2. <<>> \in Seq(Packet)
    OBVIOUS
  <2>3. sent \in Seq(Packet) /\ filled \in Seq(Packet) /\ file \in Seq(Packet)
    BY <2>2 DEF Init
  <2>4. timeout \in 0 .. Patience /\ received \in Nat /\ erased \in Nat /\ input \in Packet
    BY <2>1 DEF Init
  <2>5. connected \in BOOLEAN /\ gaveUp \in BOOLEAN
    BY DEF Init
  <2> QED
    BY <2>3, <2>4, <2>5 DEF Init, TypeOK
<1>2. sent = <<>> /\ Len(sent) = 0 /\ filled = <<>> /\ Len(filled) = 0
  BY DEF Init
<1>3. Layout
  BY <1>2 DEF Init, Layout
<1>4. Place
  BY <1>2 DEF Init, Place, StreamEnd, Boundary
<1> QED
  BY <1>1, <1>3, <1>4 DEF Init, Patient, IInv

\* and in every state.
LEMMA InductiveInvariant == Spec => []IInv
<1>1. IInv /\ [Next]_vars => IInv'
  BY TypeStep, LayoutStep, PlaceStep, PatientStep DEF IInv
<1> QED
  BY InitIInv, <1>1, PTL DEF Spec

\* Every variable keeps its type; the fields of a packet are numbers.
THEOREM TypeCorrect == Spec => []TypeOK
<1>1. IInv => TypeOK
  BY DEF IInv
<1> QED
  BY InductiveInvariant, <1>1, PTL

\* stopProcessingData loses nothing it has, for every stream of packets, however
\* TCP cuts it: if all has come in and the thread has ended, the buffer is empty
\* and the file holds every data packet of the run.
THEOREM StopLosesNothing == Spec => []OnlyCutsLose
<1>1. IInv => OnlyCutsLose
  <2> SUFFICES ASSUME IInv, received = StreamEnd, ~ gaveUp, thread = "done"
               PROVE  /\ Buffered = 0
                      /\ client \in {"written", "destroyed"} => file = Data
    BY DEF OnlyCutsLose
  <2> USE DEF IInv
  <2> DEFINE m == Len(filled)
  <2>1. m \in Nat /\ Len(sent) \in Nat /\ m <= Len(sent) /\ received \in Nat
    BY DEF TypeOK, Place
  <2>2. StreamEnd = Boundary(Len(sent))
    BY StreamEndIsBoundary
  <2>3. \A i \in 1 .. m : filled[i] = sent[i] /\ sent[i].kind = "data"
    BY DEF Place
  <2>4. filled \in Seq(Packet) /\ sent \in Seq(Packet)
    BY DEF TypeOK
  <2>5. CASE erased = Boundary(m) /\ NoWhole
    <3>1. m = Len(sent)
      <4> SUFFICES ASSUME m < Len(sent)
                   PROVE  FALSE
        BY <2>1
      <4>1. m + 1 \in 1 .. Len(sent) /\ m + 1 \in 0 .. Len(sent) /\ m + 1 # 0
        BY <2>1
      <4>2. Boundary(m + 1) <= StreamEnd /\ Boundary(m + 1) = sent[m + 1].end
        BY <4>1, Boundaries DEF Boundary
      <4>3. Boundary(m + 1) \in Nat
        BY <4>1, Boundaries
      <4> QED
        BY <2>1, <2>5, <4>2, <4>3 DEF NoWhole
    <3>2. filled = sent
      BY <2>3, <2>4, <3>1
    <3>3. Data = sent
      <4>1. sent # <<>> => Len(sent) \in 1 .. m
        BY <2>1, <2>4, <3>1
      <4> QED
        BY <2>3, <4>1 DEF Data
    <3> QED
      BY <2>1, <2>2, <2>5, <3>1, <3>2, <3>3 DEF Buffered, Patient
  <2>6. CASE /\ Len(sent) = m + 1 /\ sent[Len(sent)].kind = "end"
             /\ erased = sent[Len(sent)].end
    <3>1. sent # <<>> /\ Len(sent) # 0
      BY <2>1, <2>4, <2>6
    <3>2. Data = SubSeq(sent, 1, m)
      BY <2>1, <2>6, <3>1 DEF Data
    <3>3. filled = SubSeq(sent, 1, m)
      <4>1. /\ SubSeq(sent, 1, m) \in Seq(Packet) /\ Len(SubSeq(sent, 1, m)) = m
            /\ \A i \in 1 .. m : SubSeq(sent, 1, m)[i] = sent[i]
        BY <2>1, <2>4, <2>6
      <4> QED
        BY <2>3, <2>4, <4>1
    <3> QED
      BY <2>1, <2>2, <2>6, <3>1, <3>2, <3>3 DEF Buffered, Boundary, Patient
  <2> QED
    BY <2>5, <2>6 DEF Place
<1> QED
  BY InductiveInvariant, <1>1, PTL

-----------------------------------------------------------------------------
(* The refinement.                                                         *)

\* A broadcast appends one packet to what has been sent.
LEMMA BroadcastRefines ==
  ASSUME TypeOK, Layout, NEW size \in PayloadSizes, NEW kind \in {"data", "end"},
         Broadcast(size, kind), UNCHANGED <<filled, file>>
  PROVE  Feed!Broadcast
<1>1. /\ Len(sent') = Len(sent) + 1 /\ Len(sent) \in Nat
      /\ \A k \in 1 .. Len(sent) : sent'[k] = sent[k]
      /\ sent'[Len(sent) + 1] \in Packet
  BY BroadcastEffect DEF TypeOK
<1>2. sent \in Seq(Packet) /\ sent' \in Seq(Packet)
  BY BroadcastType DEF TypeOK
<1>3. SubSeq(sent', 1, Len(sent)) = sent
  <2>1. /\ SubSeq(sent', 1, Len(sent)) \in Seq(Packet)
        /\ Len(SubSeq(sent', 1, Len(sent))) = Len(sent)
        /\ \A k \in 1 .. Len(sent) : SubSeq(sent', 1, Len(sent))[k] = sent'[k]
    BY <1>1, <1>2
  <2> QED
    BY <1>1, <1>2, <2>1
<1> QED
  BY <1>1, <1>3 DEF Feed!Broadcast

\* Every step is one of the feed, or leaves the feed as it is.
LEMMA StepRefines ==
  ASSUME IInv, [Next]_vars
  PROVE  [Feed!Next]_Feed!vars
<1> USE DEF IInv
<1>1. CASE SendData
  <2>1. PICK size \in PayloadSizes : Broadcast(size, "data")
    BY <1>1 DEF SendData
  <2> QED
    BY <1>1, <2>1, BroadcastRefines DEF SendData, stopping, processing, Feed!Next
<1>2. CASE EndRun
  <2>1. CASE UNCHANGED sent
    BY <1>2, <2>1 DEF EndRun, stopping, processing, Feed!vars
  <2>2. CASE \E size \in PayloadSizes : Broadcast(size, "end")
    BY <1>2, <2>2, BroadcastRefines DEF EndRun, stopping, processing, Feed!Next
  <2> QED
    BY <1>2, <2>1, <2>2 DEF EndRun
<1>3. CASE Fill
  <2>1. CASE UNCHANGED filled
    BY <1>3, <2>1 DEF Fill, network, Feed!vars
  <2>2. CASE filled' = Append(filled, input)
    <3>1. Len(filled) < Len(sent) /\ input = sent[Len(filled) + 1]
      BY <1>3 DEF Fill, Place
    <3> QED
      BY <1>3, <2>2, <3>1 DEF Fill, network, Feed!Fill, Feed!Next
  <2> QED
    BY <1>3, <2>1, <2>2 DEF Fill
<1>4. CASE ProcessAndWrite
  BY <1>4 DEF ProcessAndWrite, network, processing, Feed!Write, Feed!Next
<1>5. CASE Receive \/ ReceiveFails \/ Scan
  BY <1>5 DEF Receive, ReceiveFails, Scan, network, stopping, Feed!vars
<1>6. CASE CloseStream \/ Configure \/ StartProcessing \/ Disconnect \/ WaitMore \/ WaitIsOver
           \/ CheckBuffer \/ Destroy
  BY <1>6 DEF CloseStream, Configure, StartProcessing, Disconnect, WaitMore, WaitIsOver,
              CheckBuffer, Destroy, network, stopping, processing, Feed!vars
<1>7. CASE UNCHANGED vars
  BY <1>7 DEF vars, network, stopping, processing, Feed!vars
<1> QED
  BY <1>1, <1>2, <1>3, <1>4, <1>5, <1>6, <1>7 DEF Next, Run, Running, Client, Stop

\* The DQM implements its abstract specification: packets are filled in order,
\* each once and whole, and the file is what had been filled when it was written.
THEOREM Refinement == Spec => ImplementsFeed
<1>1. Init => Feed!Init
  BY DEF Init, Feed!Init
<1>2. IInv /\ [Next]_vars => [Feed!Next]_Feed!vars
  BY StepRefines
<1> QED
  BY InductiveInvariant, <1>1, <1>2, PTL DEF Spec, ImplementsFeed, Feed!Spec
=============================================================================
