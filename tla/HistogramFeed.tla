---------------------------- MODULE HistogramFeed ----------------------------
(***************************************************************************)
(* What the DQM promises about one run, seen from outside: the packets the *)
(* run broadcasts are filled into the histograms one after the other, in   *)
(* the order they were sent and none twice, and the ROOT file is what the  *)
(* histograms hold when it is written.  DqmInterface implements it.        *)
(***************************************************************************)
EXTENDS Naturals, Sequences

CONSTANT Packet

VARIABLES
  sent,    \* packets broadcast
  filled,  \* packets the histograms have taken in
  file     \* the packets the written file stands for

vars == <<sent, filled, file>>

Init == sent = <<>> /\ filled = <<>> /\ file = <<>>

Broadcast ==
  /\ Len(sent') = Len(sent) + 1
  /\ SubSeq(sent', 1, Len(sent)) = sent
  /\ sent'[Len(sent')] \in Packet
  /\ UNCHANGED <<filled, file>>

Fill ==
  /\ Len(filled) < Len(sent)
  /\ filled' = Append(filled, sent[Len(filled) + 1])
  /\ UNCHANGED <<sent, file>>

Write ==
  /\ file' = filled
  /\ UNCHANGED <<sent, filled>>

Next == Broadcast \/ Fill \/ Write

Spec == Init /\ [][Next]_vars
=============================================================================
