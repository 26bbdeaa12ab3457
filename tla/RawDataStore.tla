---------------------------- MODULE RawDataStore ----------------------------
(***************************************************************************)
(* What a FileHandler opened for writing promises to the firmware          *)
(* interfaces that hand it the data they read: the file is at all times a  *)
(* prefix of what was handed over, and when the handler is gone the file   *)
(* holds all of it.                                                        *)
(***************************************************************************)
EXTENDS Sequences, Naturals

CONSTANTS Data   \* the vectors of words handed to setData

VARIABLES
  submitted,     \* the data handed over, in order
  stored,        \* the data in the file
  released       \* the handler has been destroyed

storeVars == <<submitted, stored, released>>

Init == submitted = << >> /\ stored = << >> /\ released = FALSE

Submit ==
  /\ ~released
  /\ \E d \in Data : submitted' = Append(submitted, d)
  /\ UNCHANGED <<stored, released>>

Store ==
  /\ ~released
  /\ Len(stored) < Len(submitted)
  /\ stored' = Append(stored, submitted[Len(stored) + 1])
  /\ UNCHANGED <<submitted, released>>

Release ==
  /\ ~released
  /\ stored = submitted
  /\ released' = TRUE
  /\ UNCHANGED <<submitted, stored>>

Next == Submit \/ Store \/ Release

Spec == Init /\ [][Next]_storeVars
=============================================================================
