--------------------------- MODULE MCRD53Decoders ---------------------------
(* Model-checking instance: three threads; readouts that leave a thread    *)
(* without a chunk (1), that fill two of three (4) and that fill all (5).  *)
(* The first and the fifth event, of the first and the last chunk, may     *)
(* carry error bits.                                                       *)
EXTENDS RD53Decoders

MCEventCounts == {1, 4, 5}
MCFlaggedEvents == {1, 5}
=============================================================================
