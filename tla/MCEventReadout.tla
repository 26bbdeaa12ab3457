--------------------------- MODULE MCEventReadout ---------------------------
(* Model-checking instance: chips of 4 x 2 pixels in two groups, three     *)
(* events in bursts of two, and a memory of three words.                   *)
EXTENDS EventReadout

MCOneBoard  == <<"board0">>
MCTwoBoards == <<"board0", "board1">>
=============================================================================
