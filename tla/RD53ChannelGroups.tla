------------------------- MODULE RD53ChannelGroups -------------------------
(***************************************************************************)
(* RD53ChannelGroupHandler: the region of interest of a chip is measured   *)
(* in groups of pixels, HitPerCol pixels of every column at a time.  The   *)
(* first group takes equally spaced rows, shifted by one core from column  *)
(* to column; the next groups are the first one moved up row by row.       *)
(* A channel is a pair <<row, column>>.                                    *)
(***************************************************************************)
EXTENDS Naturals

CONSTANTS
  NRows, NCols,          \* the pixel matrix of the front-end
  NROW_CORE,             \* rows of a core (8 in the chip)
  RowStart, RowStop, ColStart, ColStop,   \* the region of interest, inclusive
  GroupType,             \* which of GroupTypes
  HitPerCol,             \* pixels of a column measured at the same time
  OnlyNGroups            \* 0: all of the groups, otherwise how many of them

GroupTypes == {"AllPixels", "Groups", "Custom", "XtalkCoupled", "XtalkDeCoupled"}

ASSUME MatrixAssumption ==
  /\ NRows \in Nat \ {0} /\ NCols \in Nat \ {0} /\ NROW_CORE \in Nat
  /\ RowStart \in Nat /\ RowStop \in Nat /\ RowStop < NRows
  /\ ColStart \in Nat /\ ColStop \in Nat /\ ColStop < NCols

\* Nothing in the code checks HitPerCol against the rows.
ASSUME GroupAssumption ==
  /\ GroupType \in GroupTypes
  /\ HitPerCol \in 1 .. NRows
  /\ OnlyNGroups \in Nat

RegionOfInterest == (RowStart .. RowStop) \X (ColStart .. ColStop)

OneGroup == GroupType \in {"AllPixels", "Custom"}

NumberOfGroups ==
  IF OneGroup THEN 1
  ELSE IF OnlyNGroups = 0 THEN NRows \div HitPerCol ELSE OnlyNGroups

\* The row of the i-th pixel that group g takes from a column.
GroupRow(col, i, g) ==
  (((NROW_CORE * col + ((i * NRows) \div HitPerCol)) % NRows) + g) % NRows

\* Fault: the groups advance by two rows.
FaultyTestGroup(g) ==
  {channel \in RegionOfInterest :
     OneGroup \/ \E i \in 0 .. HitPerCol - 1 : channel[1] = GroupRow(channel[2], i, 2 * g)}

TestGroup(g) ==
  {channel \in RegionOfInterest :
     OneGroup \/ \E i \in 0 .. HitPerCol - 1 : channel[1] = GroupRow(channel[2], i, g)}

\* getTestGroup also collects the channels of the groups it has handed out:
\* the set a measurement is averaged over.
AllChannelGroup == UNION {TestGroup(g) : g \in 0 .. NumberOfGroups - 1}
=============================================================================
