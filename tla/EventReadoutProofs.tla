------------------------- MODULE EventReadoutProofs -------------------------
(***************************************************************************)
(* Theorems about the readout.  First the channel groups, for any matrix:  *)
(* no pixel is in two of them, and they cover the region.  Then, for any   *)
(* boards, memory size, bursts and groups: what ReadData returns are the   *)
(* next words of its board, the raw file has them in order, no burst is    *)
(* filled with events from before it, a physics run fills every event once *)
(* and a measurement every channel as often as it was asked to.            *)
(***************************************************************************)
EXTENDS EventReadout, FiniteSetTheorems, TLAPS

-----------------------------------------------------------------------------
(* The groups of channels: disjoint for every matrix and region, and a      *)
(* partition of the region if HitPerCol divides the rows.                   *)

\* Multiplying keeps the order.
LEMMA ProductOrder ==
  ASSUME NEW k \in Nat, NEW i \in Int, NEW j \in Int, i <= j
  PROVE  k * i \in Int /\ k * j \in Int /\ k * i <= k * j
<1>1. PICK d \in Nat : j = i + d
  <2>1. j - i \in Nat /\ j = i + (j - i)
    OBVIOUS
  <2> QED
    BY <2>1
<1>2. k * d \in Nat /\ k * i \in Int
  OBVIOUS
<1>3. k * j = k * i + k * d
  BY <1>1
<1> QED
  BY <1>2, <1>3

\* Quotient and remainder.
LEMMA Division ==
  ASSUME NEW n \in Nat \ {0}, NEW x \in Nat
  PROVE  /\ x \div n \in Nat /\ x % n \in 0 .. n - 1
         /\ x = n * (x \div n) + (x % n)
         /\ n * (x \div n) \in Nat
OBVIOUS

\* They are unique.
LEMMA DivisionUnique ==
  ASSUME NEW n \in Nat \ {0}, NEW k \in Int, NEW z \in 0 .. n - 1, n * k + z \in Nat
  PROVE  (n * k + z) % n = z /\ (n * k + z) \div n = k
<1> DEFINE x == n * k + z
           q == x \div n
           r == x % n
<1>1. q \in Nat /\ r \in 0 .. n - 1 /\ x = n * q + r /\ n * q \in Nat
  BY Division
<1>2. x \in Nat /\ n * k \in Int /\ x = n * k + z
  OBVIOUS
<1> HIDE DEF x, q, r
<1>3. ~(q < k)
  <2>1. SUFFICES ASSUME q + 1 <= k PROVE FALSE
    BY <1>1
  <2>2. n * (q + 1) <= n * k /\ n * (q + 1) = n * q + n
    BY <1>1, <2>1, ProductOrder
  <2> QED
    BY <1>1, <1>2, <2>2
<1>4. ~(k < q)
  <2>1. SUFFICES ASSUME k + 1 <= q PROVE FALSE
    BY <1>1
  <2>2. n * (k + 1) <= n * q /\ n * (k + 1) = n * k + n
    BY <1>1, <2>1, ProductOrder
  <2> QED
    BY <1>1, <1>2, <2>2
<1>5. q = k
  BY <1>1, <1>3, <1>4
<1>6. r = z
  BY <1>1, <1>2, <1>5
<1> QED
  BY <1>5, <1>6 DEF x, q, r

\* A remainder of a sum: only the remainder of the first part counts.
LEMMA RemainderOfSum ==
  ASSUME NEW n \in Nat \ {0}, NEW x \in Nat, NEW a \in 0 .. n - 1
  PROVE  (x + a) % n = IF (x % n) + a < n THEN (x % n) + a ELSE (x % n) + a - n
<1> DEFINE q == x \div n
           s == x % n
<1>1. q \in Nat /\ s \in 0 .. n - 1 /\ x = n * q + s /\ n * q \in Nat
  BY Division
<1> HIDE DEF q, s
<1>2. CASE s + a < n
  <2>1. x + a = n * q + (s + a) /\ s + a \in 0 .. n - 1 /\ n * q + (s + a) \in Nat
    BY <1>1, <1>2
  <2>2. (n * q + (s + a)) % n = s + a
    BY <1>1, <2>1, DivisionUnique
  <2> QED
    BY <1>2, <2>1, <2>2 DEF s
<1>3. CASE s + a >= n
  <2>1. n * (q + 1) = n * q + n
    BY <1>1
  <2>2. x + a = n * (q + 1) + (s + a - n) /\ s + a - n \in 0 .. n - 1 /\ q + 1 \in Int
        /\ n * (q + 1) + (s + a - n) \in Nat
    BY <1>1, <1>3, <2>1
  <2>3. (n * (q + 1) + (s + a - n)) % n = s + a - n
    <3> DEFINE z == s + a - n
    <3>1. z \in 0 .. n - 1 /\ n * (q + 1) + z \in Nat
      BY <2>2
    <3> HIDE DEF z
    <3>2. (n * (q + 1) + z) % n = z
      BY <2>2, <3>1, DivisionUnique
    <3> QED
      BY <3>2 DEF z
  <2>4. ~(s + a < n)
    BY <1>1, <1>3
  <2> QED
    BY <2>2, <2>3, <2>4 DEF s
<1> QED
  BY <1>1, <1>2, <1>3

-----------------------------------------------------------------------------
(* The rows a group starts with.                                           *)

Step == NRows \div HitPerCol

FirstRow(i) == (i * NRows) \div HitPerCol

\* Facts about the constants.
LEMMA Sizes ==
  /\ NRows \in Nat \ {0} /\ HitPerCol \in Nat \ {0} /\ Step \in Nat \ {0}
  /\ NROW_CORE \in Nat /\ HitPerCol * Step \in Nat /\ HitPerCol * Step <= NRows
<1>1. NRows \in Nat \ {0} /\ HitPerCol \in Nat \ {0} /\ HitPerCol <= NRows /\ NROW_CORE \in Nat
  BY MatrixAssumption, GroupAssumption
<1>2. /\ Step \in Nat /\ NRows % HitPerCol \in 0 .. HitPerCol - 1
      /\ NRows = HitPerCol * Step + (NRows % HitPerCol) /\ HitPerCol * Step \in Nat
  BY <1>1, Division DEF Step
<1>3. Step # 0
  <2>1. SUFFICES ASSUME Step = 0 PROVE FALSE
    OBVIOUS
  <2>2. HitPerCol * Step = 0
    BY <1>1, <2>1
  <2> QED
    BY <1>1, <1>2, <2>2
<1> QED
  BY <1>1, <1>2, <1>3

\* The first rows are at least one step apart.
LEMMA FirstRowsApart ==
  ASSUME NEW i \in Nat, NEW j \in Nat, i < j
  PROVE  FirstRow(i) \in Nat /\ FirstRow(j) \in Nat /\ FirstRow(i) + Step <= FirstRow(j)
<1> DEFINE h == HitPerCol
           a == FirstRow(i)
           b == FirstRow(j)
<1>0. NRows \in Nat \ {0} /\ h \in Nat \ {0} /\ Step \in Nat /\ h * Step <= NRows /\ h * Step \in Nat
  BY Sizes
<1>1. i * NRows \in Nat /\ j * NRows \in Nat
  BY <1>0
<1>2. /\ a \in Nat /\ h * a \in Nat /\ h * a <= i * NRows
      /\ b \in Nat /\ h * b \in Nat /\ j * NRows < h * b + h
  <2> DEFINE x == i * NRows
             y == j * NRows
  <2>1. /\ x \div h \in Nat /\ x % h \in 0 .. h - 1 /\ x = h * (x \div h) + (x % h)
        /\ h * (x \div h) \in Nat
    BY <1>0, <1>1, Division
  <2>2. /\ y \div h \in Nat /\ y % h \in 0 .. h - 1 /\ y = h * (y \div h) + (y % h)
        /\ h * (y \div h) \in Nat
    BY <1>0, <1>1, Division
  <2>3. a = x \div h /\ b = y \div h
    BY DEF FirstRow
  <2>4. h * a = h * (x \div h) /\ h * b = h * (y \div h)
    BY <2>3
  <2>5. a \in Nat /\ b \in Nat
    BY <2>1, <2>2, <2>3
  <2> DEFINE ha == h * a
             hb == h * b
             rx == x % h
             ry == y % h
  <2>6. ha \in Nat /\ hb \in Nat /\ rx \in 0 .. h - 1 /\ ry \in 0 .. h - 1
        /\ x = ha + rx /\ y = hb + ry
    BY <2>1, <2>2, <2>4
  <2>7. ha <= x /\ y < hb + h
    <3> HIDE DEF x, y, ha, hb, rx, ry, h
    <3> QED
      BY <1>0, <2>6
  <2> QED
    BY <2>5, <2>6, <2>7
<1>3. i * NRows + NRows <= j * NRows
  <2>1. i + 1 <= j
    OBVIOUS
  <2>2. NRows * (i + 1) <= NRows * j
    BY <1>0, <2>1, ProductOrder
  <2>3. NRows * (i + 1) = i * NRows + NRows /\ NRows * j = j * NRows
    BY <1>0
  <2> QED
    BY <2>2, <2>3
<1> HIDE DEF h, a, b
<1>4. ~(b + 1 <= a + Step)
  <2>1. SUFFICES ASSUME b + 1 <= a + Step PROVE FALSE
    OBVIOUS
  <2>2. h * (b + 1) <= h * (a + Step)
    BY <1>0, <1>2, <2>1, ProductOrder
  <2>3. h * (b + 1) = h * b + h /\ h * (a + Step) = h * a + h * Step
    BY <1>0, <1>2
  <2> QED
    BY <1>0, <1>1, <1>2, <1>3, <2>2, <2>3
<1>5. a \in Nat /\ b \in Nat /\ a + Step <= b
  BY <1>0, <1>2, <1>4
<1> QED
  BY <1>5 DEF a, b

\* They are rows, the last one a step below the end.
LEMMA FirstRowsFit ==
  ASSUME NEW i \in 0 .. HitPerCol - 1
  PROVE  FirstRow(i) \in Nat /\ FirstRow(i) + Step <= NRows
<1>1. i \in Nat /\ HitPerCol \in Nat /\ i < HitPerCol
  BY Sizes
<1>2. FirstRow(HitPerCol) = NRows
  <2>1. HitPerCol * NRows = HitPerCol * NRows + 0 /\ 0 \in 0 .. HitPerCol - 1
        /\ HitPerCol * NRows + 0 \in Nat /\ NRows \in Int
    BY Sizes
  <2> QED
    BY <2>1, Sizes, DivisionUnique DEF FirstRow
<1> QED
  BY <1>1, <1>2, FirstRowsApart

\* A row of a group is its first row, shifted and wrapped around.
LEMMA RowOfGroup ==
  ASSUME NEW col \in Nat, NEW i \in 0 .. HitPerCol - 1, NEW g \in 0 .. Step - 1
  PROVE  \E k \in {0, 1, 2} :
           GroupRow(col, i, g) = ((NROW_CORE * col) % NRows) + FirstRow(i) + g - k * NRows
<1> DEFINE x == NROW_CORE * col
           s == x % NRows
           a == FirstRow(i)
           u == (x + a) % NRows
<1>0. NRows \in Nat \ {0} /\ Step \in Nat \ {0} /\ x \in Nat
  BY Sizes
<1>1. a \in Nat /\ a + Step <= NRows
  BY FirstRowsFit
<1>2. s \in 0 .. NRows - 1
  BY <1>0, Division
<1>3. a \in 0 .. NRows - 1 /\ g \in 0 .. NRows - 1
  <2> HIDE DEF a
  <2> QED
    BY <1>0, <1>1
<1>4. u = IF s + a < NRows THEN s + a ELSE s + a - NRows
  <2> HIDE DEF x, a
  <2> QED
    BY <1>0, <1>3, RemainderOfSum
<1>5. u \in 0 .. NRows - 1
  <2> HIDE DEF s, a, u
  <2> QED
    BY <1>0, <1>2, <1>3, <1>4
<1>6. (u + g) % NRows = IF u + g < NRows THEN u + g ELSE u + g - NRows
  <2> HIDE DEF u
  <2>1. u % NRows = u /\ u \in Nat
    BY <1>0, <1>5
  <2>2. (u + g) % NRows = IF (u % NRows) + g < NRows THEN (u % NRows) + g ELSE (u % NRows) + g - NRows
    BY <1>0, <1>3, <2>1, RemainderOfSum
  <2> QED
    BY <2>1, <2>2
<1>7. GroupRow(col, i, g) = (u + g) % NRows
  BY DEF GroupRow, FirstRow
<1> HIDE DEF s, a, u
<1>8. \E k \in {0, 1, 2} : (u + g) % NRows = s + a + g - k * NRows
  BY <1>0, <1>2, <1>3, <1>4, <1>5, <1>6
<1> QED
  BY <1>7, <1>8 DEF s, a, x

\* It is a row.
LEMMA GroupRowIsRow ==
  ASSUME NEW col \in Nat, NEW i \in 0 .. HitPerCol - 1, NEW g \in 0 .. Step - 1
  PROVE  GroupRow(col, i, g) \in 0 .. NRows - 1
<1> DEFINE u == (NROW_CORE * col + FirstRow(i)) % NRows
<1>1. NRows \in Nat \ {0} /\ NROW_CORE * col \in Nat /\ g \in Nat
  BY Sizes
<1>2. FirstRow(i) \in Nat
  BY FirstRowsFit
<1>3. NROW_CORE * col + FirstRow(i) \in Nat
  BY <1>1, <1>2
<1>4. u \in 0 .. NRows - 1
  BY <1>1, <1>3, Division
<1>5. GroupRow(col, i, g) = (u + g) % NRows
  BY DEF GroupRow, FirstRow
<1> HIDE DEF u
<1>6. u + g \in Nat
  BY <1>1, <1>4
<1> QED
  BY <1>1, <1>5, <1>6, Division

-----------------------------------------------------------------------------
(* No pixel is measured twice.                                             *)

\* RD53ChannelGroupHandler (Utils/RD53ChannelGroupHandler.cc:33-61): two groups
\* of a measurement share no pixel, so that the hits of a pixel come from its
\* own injections, also when the pixels per column do not divide the rows.
THEOREM GroupsAreDisjoint ==
  ASSUME ~ OneGroup, NEW g1 \in 0 .. Step - 1, NEW g2 \in 0 .. Step - 1, g1 # g2
  PROVE  TestGroup(g1) \cap TestGroup(g2) = {}
<1>1. SUFFICES ASSUME NEW channel \in RegionOfInterest,
                      channel \in TestGroup(g1), channel \in TestGroup(g2)
               PROVE  FALSE
  BY DEF TestGroup
<1>2. channel[2] \in Nat
  BY MatrixAssumption DEF RegionOfInterest
<1>3. PICK i \in 0 .. HitPerCol - 1 : channel[1] = GroupRow(channel[2], i, g1)
  BY <1>1 DEF TestGroup
<1>4. PICK j \in 0 .. HitPerCol - 1 : channel[1] = GroupRow(channel[2], j, g2)
  BY <1>1 DEF TestGroup
<1> DEFINE s == (NROW_CORE * channel[2]) % NRows
           a == FirstRow(i)
           b == FirstRow(j)
<1>5. PICK k \in {0, 1, 2} : channel[1] = s + a + g1 - k * NRows
  BY <1>2, <1>3, RowOfGroup
<1>6. PICK l \in {0, 1, 2} : channel[1] = s + b + g2 - l * NRows
  BY <1>2, <1>4, RowOfGroup
<1>7. NRows \in Nat \ {0} /\ Step \in Nat \ {0} /\ HitPerCol \in Nat
  BY Sizes
<1>8. s \in Nat
  <2>1. NROW_CORE * channel[2] \in Nat
    BY <1>2, Sizes
  <2> QED
    BY <1>7, <2>1, Division
<1>9. a \in Nat /\ b \in Nat /\ a + Step <= NRows /\ b + Step <= NRows
  BY FirstRowsFit
<1>10. (i < j => a + Step <= b) /\ (j < i => b + Step <= a) /\ (i = j => a = b)
  <2>1. i \in Nat /\ j \in Nat
    BY <1>7
  <2> QED
    BY <2>1, FirstRowsApart
<1> HIDE DEF s, a, b
<1>11. a + g1 = b + g2
  BY <1>5, <1>6, <1>7, <1>8, <1>9
<1>12. i \in Int /\ j \in Int /\ g1 \in Int /\ g2 \in Int
  BY <1>7
<1> QED
  BY <1>7, <1>9, <1>10, <1>11, <1>12

-----------------------------------------------------------------------------
(* Every pixel is measured.                                                *)

\* With a divisor of the rows the first rows are multiples of the step.
LEMMA FirstRowsOfDivisor ==
  ASSUME HitPerCol * Step = NRows, NEW i \in Nat
  PROVE  FirstRow(i) = Step * i
<1>1. HitPerCol \in Nat \ {0} /\ Step \in Nat \ {0} /\ NRows \in Nat
  BY Sizes
<1>2. i * NRows = HitPerCol * (Step * i) + 0
  <2>1. i * NRows = i * (HitPerCol * Step)
    OBVIOUS
  <2>2. i * (HitPerCol * Step) = HitPerCol * (Step * i)
    BY <1>1
  <2> QED
    BY <1>1, <2>1, <2>2
<1>3. Step * i \in Int /\ i * NRows \in Nat
  BY <1>1
<1>4. (HitPerCol * (Step * i) + 0) \div HitPerCol = Step * i
  <2> DEFINE k == Step * i
  <2>1. HitPerCol * k + 0 \in Nat /\ k \in Int /\ 0 \in 0 .. HitPerCol - 1
    BY <1>1, <1>2, <1>3
  <2> HIDE DEF k
  <2>2. (HitPerCol * k + 0) \div HitPerCol = k
    BY <1>1, <2>1, DivisionUnique
  <2> QED
    BY <2>2 DEF k
<1> QED
  BY <1>2, <1>4 DEF FirstRow

\* Every row of a column is in a group.
LEMMA EveryRowInAGroup ==
  ASSUME HitPerCol * Step = NRows, NEW col \in Nat, NEW row \in 0 .. NRows - 1
  PROVE  \E g \in 0 .. Step - 1 : \E i \in 0 .. HitPerCol - 1 : row = GroupRow(col, i, g)
<1> DEFINE s == (NROW_CORE * col) % NRows
           x == IF row >= s THEN row - s ELSE row - s + NRows
           i == x \div Step
           g == x % Step
<1>1. NRows \in Nat \ {0} /\ Step \in Nat \ {0} /\ HitPerCol \in Nat \ {0} /\ NROW_CORE * col \in Nat
  BY Sizes
<1>2. s \in 0 .. NRows - 1
  BY <1>1, Division
<1>3. x \in 0 .. NRows - 1
  <2> HIDE DEF s
  <2> QED
    BY <1>1, <1>2
<1>4. i \in Nat /\ g \in 0 .. Step - 1 /\ x = Step * i + g /\ Step * i \in Nat
  <2> HIDE DEF x
  <2>1. x \in Nat
    BY <1>1, <1>3
  <2> QED
    BY <1>1, <2>1, Division
<1>5. i < HitPerCol
  <2> HIDE DEF i, g, x
  <2>1. SUFFICES ASSUME HitPerCol <= i PROVE FALSE
    BY <1>1, <1>4
  <2>2. Step * HitPerCol <= Step * i
    BY <1>1, <1>4, <2>1, ProductOrder
  <2>3. Step * HitPerCol = NRows
    BY <1>1
  <2> QED
    BY <1>1, <1>3, <1>4, <2>2, <2>3
<1>6. i \in 0 .. HitPerCol - 1
  <2> HIDE DEF i
  <2> QED
    BY <1>1, <1>4, <1>5
<1>7. PICK k \in {0, 1, 2} : GroupRow(col, i, g) = s + FirstRow(i) + g - k * NRows
  BY <1>4, <1>6, RowOfGroup
<1>8. FirstRow(i) = Step * i
  BY <1>4, FirstRowsOfDivisor
<1>9. GroupRow(col, i, g) \in 0 .. NRows - 1
  BY <1>4, <1>6, GroupRowIsRow
<1>10. GroupRow(col, i, g) = s + x - k * NRows
  <2> HIDE DEF s, x, i, g
  <2> QED
    BY <1>1, <1>2, <1>3, <1>4, <1>7, <1>8
<1>11. s + x = row \/ s + x = row + NRows
  <2> HIDE DEF s
  <2> QED
    BY <1>1, <1>2
<1>12. GroupRow(col, i, g) = row
  <2> HIDE DEF s, x, i, g
  <2> QED
    BY <1>1, <1>2, <1>3, <1>9, <1>10, <1>11
<1> QED
  BY <1>4, <1>6, <1>12

\* getTestGroup (Utils/RD53ChannelGroupHandler.cc:33-61): the groups of a full
\* measurement cover the region of interest if HitPerCol divides the rows of
\* the chip, as settings/CMSIT_RD53B.xml asks and nothing checks.
THEOREM GroupsCoverRegion ==
  ASSUME ~ OneGroup, OnlyNGroups = 0, HitPerCol * Step = NRows
  PROVE  AllChannelGroup = RegionOfInterest
<1>1. NumberOfGroups = Step
  BY DEF NumberOfGroups, Step
<1>2. AllChannelGroup \subseteq RegionOfInterest
  BY DEF AllChannelGroup, TestGroup
<1>3. ASSUME NEW channel \in RegionOfInterest
      PROVE  channel \in AllChannelGroup
  <2>1. channel[2] \in Nat /\ channel[1] \in 0 .. NRows - 1
    BY MatrixAssumption DEF RegionOfInterest
  <2>2. PICK g \in 0 .. Step - 1 :
          \E i \in 0 .. HitPerCol - 1 : channel[1] = GroupRow(channel[2], i, g)
    BY <2>1, EveryRowInAGroup
  <2>3. channel \in TestGroup(g)
    BY <2>2 DEF TestGroup
  <2> QED
    BY <1>1, <2>3 DEF AllChannelGroup
<1> QED
  BY <1>2, <1>3

-----------------------------------------------------------------------------
\* Where the next word to read is: between the two blocks it is slot 0, the
\* offset being moved only at the end of ReadData.
ReadSlot(b) == IF pc = "second" /\ b = board THEN 0 ELSE ddr3Offset[b]

\* The unread words of a board are the next ones, from the read slot on.
RingInv ==
  \A b \in BoardSet :
    /\ writePointer[b] = Wrap(ReadSlot(b) + wordsToRead[b])
    /\ written[b] = resetAt[b] + taken[b] + wordsToRead[b]
    /\ \A j \in 0 .. wordsToRead[b] - 1 :
         /\ memory[b][Wrap(ReadSlot(b) + j)].board = b
         /\ memory[b][Wrap(ReadSlot(b) + j)].id = resetAt[b] + taken[b] + j + 1

\* What has been sampled is there to be read.
BlockInv ==
  /\ pc \in {"sample", "read"} => nWordsInMemory <= wordsToRead[board]
  /\ pc = "second" => /\ nWordsInMemory > ToTheEnd
                      /\ nWordsInMemory - ToTheEnd <= wordsToRead[board]

\* A readout runs in a physics cycle or in a burst that counts.
DriverInv ==
  /\ pc \in {"cycle", "call", "decode", "next"} => mode = "physics"
  /\ burstNumbers > 1 => NEventsPerBurst > 0
  /\ pc \in {"attempt", "wait", "check", "fill"} => burstNumbers > 0
  /\ mode = "measure" /\ pc \in {"sample", "read", "second"} => burstNumbers > 0
  /\ pc \in {"group", "burst"} => nAttempts = 0
  /\ pc = "attempt" => nAttempts < MAXATTEMPTS

DataInv == ReadOnceInOrder /\ (pc = "wait" => pData = << >>)

IInv == TypeOK /\ RingInv /\ BlockInv /\ DriverInv /\ DataInv

-----------------------------------------------------------------------------
(* Facts about the constants and the slots.                                *)

\* The board the thread deals with is one of the boards.
LEMMA BoardIsABoard ==
  ASSUME ThreadTypeOK PROVE board \in BoardSet
BY ReadoutAssumption DEF ThreadTypeOK, board, BoardSet

\* A slot at most one memory size away from the first is found by one subtraction.
LEMMA WrapValue ==
  ASSUME NEW x \in 0 .. 2 * FIFOsize - 1
  PROVE  /\ Wrap(x) = IF x < FIFOsize THEN x ELSE x - FIFOsize
         /\ Wrap(x) \in 0 .. FIFOsize - 1
<1>1. FIFOsize \in Nat \ {0}
  BY ReadoutAssumption
<1>2. CASE x < FIFOsize
  <2>1. x % FIFOsize = x
    BY <1>1, <1>2
  <2> QED
    BY <1>1, <1>2, <2>1 DEF Wrap
<1>3. CASE x >= FIFOsize
  <2>1. x % FIFOsize = x - FIFOsize
    BY <1>1, <1>3
  <2> QED
    BY <1>1, <1>3, <2>1 DEF Wrap
<1> QED
  BY <1>1, <1>2, <1>3

\* Two words less than a memory size apart are in different slots.
LEMMA SlotsDiffer ==
  ASSUME NEW a \in 0 .. FIFOsize - 1,
         NEW j \in 0 .. FIFOsize - 1, NEW k \in 0 .. FIFOsize - 1, j # k
  PROVE  Wrap(a + j) # Wrap(a + k)
<1>1. FIFOsize \in Nat \ {0}
  BY ReadoutAssumption
<1>2. a + j \in 0 .. 2 * FIFOsize - 1 /\ a + k \in 0 .. 2 * FIFOsize - 1
  BY <1>1
<1> QED
  BY <1>1, <1>2, WrapValue

\* Moving on by some words and then by some more is moving on by all of them.
LEMMA WrapMovesOn ==
  ASSUME NEW a \in 0 .. FIFOsize - 1, NEW n \in 0 .. FIFOsize,
         NEW j \in 0 .. FIFOsize, n + j <= FIFOsize
  PROVE  Wrap(Wrap(a + n) + j) = Wrap(a + n + j)
<1>1. FIFOsize \in Nat \ {0}
  BY ReadoutAssumption
<1>2. a + n \in 0 .. 2 * FIFOsize - 1 /\ a + n + j \in 0 .. 2 * FIFOsize - 1
  BY <1>1
<1>3. Wrap(a + n) + j \in 0 .. 2 * FIFOsize - 1
  BY <1>1, <1>2, WrapValue
<1> QED
  BY <1>1, <1>2, <1>3, WrapValue

\* The burst arithmetic yields natural numbers.
LEMMA BurstNumbersType ==
  /\ NumberOfBursts \in Nat
  /\ NEventsPerBurst <= 0 => NumberOfBursts = 1
  /\ LastBurst \in Nat
<1>1. NEvents \in Nat \ {0} /\ NEventsPerBurst \in Int
  BY ReadoutAssumption
<1>2. CASE NEventsPerBurst <= 0
  BY <1>1, <1>2 DEF NumberOfBursts, LastBurst
<1>3. CASE NEventsPerBurst > 0
  <2>1. NEventsPerBurst \in Nat \ {0}
    BY <1>1, <1>3
  <2>2. NEvents \div NEventsPerBurst \in Nat /\ NEvents % NEventsPerBurst \in Nat
    BY <1>1, <2>1
  <2> QED
    BY <1>1, <1>3, <2>1, <2>2 DEF NumberOfBursts, LastBurst
<1> QED
  BY <1>1, <1>2, <1>3

\* The last block ReadData reads.
LastSize == IF pc = "read" THEN nWordsInMemory ELSE nWordsInMemory - ToTheEnd

\* It starts at the first unread word and is there.
LEMMA LastBlock ==
  ASSUME IInv, ReadLastBlock
  PROVE  /\ pc \in {"read", "second"}
         /\ ReadSlot(board) \in Nat /\ LastSize \in Nat
         /\ ReadSlot(board) + LastSize <= FIFOsize
         /\ LastSize <= wordsToRead[board]
         /\ ReadBlock(ReadSlot(board), LastSize)
         /\ Wrap(ddr3Offset[board] + nWordsInMemory) = Wrap(ReadSlot(board) + LastSize)
<1>0. FIFOsize \in Nat \ {0}
  BY ReadoutAssumption
<1> USE <1>0
<1>1. board \in BoardSet
  BY BoardIsABoard DEF IInv, TypeOK
<1>2. /\ ddr3Offset[board] \in 0 .. FIFOsize - 1 /\ nWordsInMemory \in 0 .. FIFOsize
      /\ wordsToRead[board] \in 0 .. FIFOsize
  BY <1>1 DEF IInv, TypeOK, ReadDataTypeOK, FirmwareTypeOK
<1>3. CASE pc = "read"
  <2>1. LastSize = nWordsInMemory /\ ddr3Offset[board] = ReadSlot(board)
    BY <1>3 DEF LastSize, ReadSlot
  <2>2. /\ nWordsInMemory <= FIFOsize - ddr3Offset[board]
        /\ ReadBlock(ddr3Offset[board], nWordsInMemory)
    BY <1>3 DEF ReadLastBlock, ToTheEnd
  <2>3. nWordsInMemory <= wordsToRead[board]
    BY <1>3 DEF IInv, BlockInv
  <2>4. ddr3Offset[board] + nWordsInMemory <= FIFOsize
    BY <1>2, <2>2
  <2> QED
    BY <1>2, <1>3, <2>1, <2>2, <2>3, <2>4
<1>4. CASE pc = "second"
  <2>1. LastSize = nWordsInMemory - ToTheEnd /\ 0 = ReadSlot(board)
    BY <1>4 DEF LastSize, ReadSlot
  <2>2. ReadBlock(0, nWordsInMemory - ToTheEnd)
    BY <1>4 DEF ReadLastBlock
  <2>3. nWordsInMemory > ToTheEnd /\ nWordsInMemory - ToTheEnd <= wordsToRead[board]
    BY <1>4 DEF IInv, BlockInv
  <2>4. /\ LastSize \in 1 .. FIFOsize - 1
        /\ ddr3Offset[board] + nWordsInMemory = FIFOsize + LastSize
        /\ ddr3Offset[board] + nWordsInMemory \in 0 .. 2 * FIFOsize - 1
    BY <1>2, <2>1, <2>3 DEF ToTheEnd
  <2>5. Wrap(ddr3Offset[board] + nWordsInMemory) = Wrap(0 + LastSize)
    BY <2>4, WrapValue
  <2> QED
    BY <1>4, <2>1, <2>2, <2>3, <2>4, <2>5
<1> QED
  BY <1>3, <1>4 DEF ReadLastBlock

-----------------------------------------------------------------------------
(* Type correctness.                                                       *)

\* Steps that leave the firmware alone.
Reading == \/ SampleWordsToRead \/ BeginCycle \/ CallReadData \/ DecodeAndFill
           \/ NextBoard \/ BeginGroup \/ WaitForTriggers \/ FillGroup \/ Done

\* The firmware's state keeps its type.
LEMMA FirmwareTypeStep ==
  ASSUME IInv, [Next]_vars PROVE FirmwareTypeOK'
<1>0. FIFOsize \in Nat \ {0}
  BY ReadoutAssumption
<1> USE <1>0
<1>1. board \in BoardSet
  BY BoardIsABoard DEF IInv, TypeOK
<1>2. CASE Reading \/ UNCHANGED vars
  <2>1. UNCHANGED firmware
    BY <1>2 DEF Reading, SampleWordsToRead, BeginCycle, CallReadData, DecodeAndFill,
         NextBoard, BeginGroup, WaitForTriggers, FillGroup, Done, vars
  <2> QED
    BY <2>1 DEF IInv, TypeOK, FirmwareTypeOK, firmware
<1>3. ASSUME NEW b \in BoardSet, Trigger(b) PROVE FirmwareTypeOK'
  BY <1>3 DEF IInv, TypeOK, FirmwareTypeOK, Trigger
<1>4. ASSUME NEW b \in BoardSet, WriteEvent(b) PROVE FirmwareTypeOK'
  <2>1. FirmwareTypeOK
    BY DEF IInv, TypeOK
  <2>2. writePointer[b] \in 0 .. FIFOsize - 1 /\ writePointer[b] + 1 \in 0 .. 2 * FIFOsize - 1
    BY <2>1 DEF FirmwareTypeOK
  <2>3. Wrap(writePointer[b] + 1) \in 0 .. FIFOsize - 1
    BY <2>2, WrapValue
  <2>4. memory' \in [BoardSet -> [0 .. FIFOsize - 1 -> Word]]
    <3>1. PICK good \in BOOLEAN :
            memory' = [memory EXCEPT ![b][writePointer[b]] =
                         [board |-> b, id |-> written[b] + 1, good |-> good]]
      BY <1>4 DEF WriteEvent
    <3>2. [board |-> b, id |-> written[b] + 1, good |-> good] \in Word
      <4>1. written[b] + 1 \in Nat
        BY <2>1 DEF FirmwareTypeOK
      <4> QED
        BY <4>1 DEF Word
    <3>3. memory[b] \in [0 .. FIFOsize - 1 -> Word]
      BY <2>1 DEF FirmwareTypeOK
    <3> QED
      BY <2>1, <2>2, <3>1, <3>2, <3>3 DEF FirmwareTypeOK
  <2>5. writePointer' \in [BoardSet -> 0 .. FIFOsize - 1]
    BY <1>4, <2>1, <2>3 DEF FirmwareTypeOK, WriteEvent
  <2> QED
    BY <1>4, <2>1, <2>4, <2>5 DEF FirmwareTypeOK, WriteEvent
<1>5. CASE ReadFirstBlock \/ FinishReadData
  <2>1. UNCHANGED <<memory, writePointer, triggering, triggerCounter, triggersToAccept,
                    inFlight, written>>
    BY <1>5 DEF ReadFirstBlock, FinishReadData
  <2>2. wordsToRead[board] \in 0 .. FIFOsize
    BY <1>1 DEF IInv, TypeOK, FirmwareTypeOK
  <2>3. CASE ReadFirstBlock
    <3>1. /\ wordsToRead' = [wordsToRead EXCEPT ![board] = @ - ToTheEnd]
          /\ nWordsInMemory > ToTheEnd /\ nWordsInMemory <= wordsToRead[board]
      BY <2>3 DEF ReadFirstBlock, ReadBlock, IInv, BlockInv
    <3>2. ToTheEnd \in Nat /\ nWordsInMemory \in Nat
      BY <1>1 DEF IInv, TypeOK, ReadDataTypeOK, ToTheEnd
    <3>3. wordsToRead[board] - ToTheEnd \in 0 .. FIFOsize
      BY <2>2, <3>1, <3>2
    <3> QED
      BY <2>1, <3>1, <3>3 DEF IInv, TypeOK, FirmwareTypeOK
  <2>4. CASE FinishReadData
    <3>1. /\ wordsToRead' = [wordsToRead EXCEPT ![board] = @ - LastSize]
          /\ LastSize \in Nat /\ LastSize <= wordsToRead[board]
      BY <2>4, LastBlock DEF FinishReadData, ReadBlock
    <3>2. wordsToRead[board] - LastSize \in 0 .. FIFOsize
      BY <2>2, <3>1
    <3> QED
      BY <2>1, <3>1, <3>2 DEF IInv, TypeOK, FirmwareTypeOK
  <2> QED
    BY <1>5, <2>3, <2>4
<1>6. CASE EndRun \/ CheckReadout
  BY <1>6, <1>1 DEF IInv, TypeOK, FirmwareTypeOK, EndRun, CheckReadout
<1>7. CASE BeginBurst
  <2>1. burstNumbers > 0 => CurrentNumberOfEvents \in Nat
    BY BurstNumbersType, ReadoutAssumption
       DEF IInv, DriverInv, TypeOK, ThreadTypeOK, CurrentNumberOfEvents
  <2> QED
    BY <1>7, <2>1 DEF IInv, TypeOK, FirmwareTypeOK, BeginBurst
<1>8. CASE BeginAttempt
  <2>1. EmptyMemory(board) \in [0 .. FIFOsize - 1 -> Word]
    BY <1>1 DEF EmptyMemory, Word
  <2> QED
    <3>1. UNCHANGED <<triggersToAccept, written>>
      BY <1>8 DEF BeginAttempt
    <3>2. /\ memory' = [memory EXCEPT ![board] = EmptyMemory(board)]
          /\ writePointer' = [writePointer EXCEPT ![board] = 0]
          /\ wordsToRead' = [wordsToRead EXCEPT ![board] = 0]
          /\ inFlight' = [inFlight EXCEPT ![board] = 0]
          /\ triggerCounter' = [triggerCounter EXCEPT ![board] = 0]
          /\ triggering' = [triggering EXCEPT ![board] = TRUE]
      BY <1>8 DEF BeginAttempt, Start
    <3>3. FirmwareTypeOK
      BY DEF IInv, TypeOK
    <3>4. memory' \in [BoardSet -> [0 .. FIFOsize - 1 -> Word]]
      BY <2>1, <3>2, <3>3 DEF FirmwareTypeOK
    <3>5. 0 \in 0 .. FIFOsize - 1 /\ 0 \in 0 .. FIFOsize
      OBVIOUS
    <3>6. /\ writePointer' \in [BoardSet -> 0 .. FIFOsize - 1]
          /\ wordsToRead' \in [BoardSet -> 0 .. FIFOsize]
      <4>1. /\ writePointer \in [BoardSet -> 0 .. FIFOsize - 1]
            /\ wordsToRead \in [BoardSet -> 0 .. FIFOsize]
        BY <3>3 DEF FirmwareTypeOK
      <4> HIDE <1>0
      <4> QED
        BY <3>2, <3>5, <4>1
    <3>7. inFlight' \in [BoardSet -> Nat] /\ triggerCounter' \in [BoardSet -> Nat]
      BY <3>2, <3>3 DEF FirmwareTypeOK
    <3>8. triggering' \in [BoardSet -> BOOLEAN]
      BY <3>2, <3>3 DEF FirmwareTypeOK
    <3> QED
      BY <3>1, <3>3, <3>4, <3>6, <3>7, <3>8 DEF FirmwareTypeOK
<1> QED
  BY <1>2, <1>3, <1>4, <1>5, <1>6, <1>7, <1>8
     DEF Next, Thread, Physics, Measure, Reading

\* A block that fits into the memory is a sequence of words.
LEMMA BlockType ==
  ASSUME FirmwareTypeOK, ThreadTypeOK, NEW from \in Nat, NEW size \in Nat,
         from + size <= FIFOsize
  PROVE  Block(from, size) \in Seq(Word) /\ Len(Block(from, size)) = size
<1>1. board \in BoardSet
  BY BoardIsABoard
<1>2. \A i \in 1 .. size : memory[board][from + i - 1] \in Word
  BY <1>1, ReadoutAssumption DEF FirmwareTypeOK
<1> QED
  BY <1>2 DEF Block


\* The state of the readout keeps its type.
LEMMA ReadDataTypeStep ==
  ASSUME IInv, [Next]_vars PROVE ReadDataTypeOK'
<1>0. FIFOsize \in Nat \ {0}
  BY ReadoutAssumption
<1> USE <1>0
<1>1. board \in BoardSet /\ ReadDataTypeOK /\ FirmwareTypeOK /\ ThreadTypeOK
  BY BoardIsABoard DEF IInv, TypeOK
<1>2. CASE (\E b \in BoardSet : Trigger(b) \/ WriteEvent(b)) \/ BeginCycle \/ EndRun
             \/ NextBoard \/ BeginGroup \/ BeginBurst \/ Done \/ UNCHANGED vars
  <2>1. UNCHANGED <<readData, resetAt>>
    BY <1>2 DEF Trigger, WriteEvent, BeginCycle, EndRun, NextBoard, BeginGroup,
         BeginBurst, Done, vars
  <2> QED
    BY <1>1, <2>1 DEF ReadDataTypeOK, readData
<1>3. CASE SampleWordsToRead \/ CallReadData \/ WaitForTriggers
  <2>1. UNCHANGED <<ddr3Offset, taken, saved, savedUpTo, resetAt>>
    BY <1>3 DEF SampleWordsToRead, CallReadData, WaitForTriggers
  <2>2. nWordsInMemory' \in {nWordsInMemory, wordsToRead[board]} /\ pData' \in {pData, << >>}
    BY <1>3 DEF SampleWordsToRead, CallReadData, WaitForTriggers
  <2>3. wordsToRead[board] \in 0 .. FIFOsize
    BY <1>1 DEF FirmwareTypeOK
  <2>4. pData' \in Seq(Word) /\ nWordsInMemory' \in 0 .. FIFOsize
    <3>1. << >> \in Seq(Word) /\ pData \in Seq(Word) /\ nWordsInMemory \in 0 .. FIFOsize
      BY <1>1 DEF ReadDataTypeOK
    <3> HIDE <1>0
    <3> QED
      BY <2>2, <2>3, <3>1, Zenon
  <2> QED
    BY <1>1, <2>1, <2>4 DEF ReadDataTypeOK
<1>4. CASE ReadFirstBlock
  <2>1. UNCHANGED <<ddr3Offset, nWordsInMemory, saved, savedUpTo, resetAt>>
    BY <1>4 DEF ReadFirstBlock
  <2>2. ddr3Offset[board] \in Nat /\ ToTheEnd \in Nat /\ ddr3Offset[board] + ToTheEnd <= FIFOsize
    BY <1>1 DEF ReadDataTypeOK, ToTheEnd
  <2>3. Block(ddr3Offset[board], ToTheEnd) \in Seq(Word)
    BY <1>1, <2>2, BlockType
  <2>4. /\ pData' = pData \o Block(ddr3Offset[board], ToTheEnd)
        /\ taken' = [taken EXCEPT ![board] = @ + ToTheEnd]
    BY <1>4 DEF ReadFirstBlock, ReadBlock
  <2> QED
    BY <1>1, <2>1, <2>2, <2>3, <2>4 DEF ReadDataTypeOK
<1>5. CASE FinishReadData
  <2>1. UNCHANGED resetAt /\ nWordsInMemory' = 0
    BY <1>5 DEF FinishReadData
  <2>2. /\ ReadSlot(board) \in Nat /\ LastSize \in Nat
        /\ ReadSlot(board) + LastSize <= FIFOsize
        /\ ReadBlock(ReadSlot(board), LastSize)
        /\ Wrap(ddr3Offset[board] + nWordsInMemory) = Wrap(ReadSlot(board) + LastSize)
    BY <1>5, LastBlock DEF FinishReadData
  <2>3. Block(ReadSlot(board), LastSize) \in Seq(Word)
    BY <1>1, <2>2, BlockType
  <2>4. /\ pData' = pData \o Block(ReadSlot(board), LastSize)
        /\ taken' = [taken EXCEPT ![board] = @ + LastSize]
    BY <2>2 DEF ReadBlock
  <2>5. pData' \in Seq(Word)
    BY <1>1, <2>3, <2>4 DEF ReadDataTypeOK
  <2>6. taken' \in [BoardSet -> Nat]
    BY <1>1, <2>2, <2>4 DEF ReadDataTypeOK
  <2>7. ddr3Offset' \in [BoardSet -> 0 .. FIFOsize - 1]
    <3>1. Wrap(ReadSlot(board) + LastSize) \in 0 .. FIFOsize - 1
      BY <2>2, WrapValue
    <3> QED
      BY <1>1, <1>5, <2>2, <3>1 DEF ReadDataTypeOK, FinishReadData
  <2>8. saved' \in [BoardSet -> Seq(Nat)] /\ savedUpTo' \in [BoardSet -> Nat]
    <3>1. SaveToFile(pData')
      BY <1>5 DEF FinishReadData
    <3>2. [i \in DOMAIN pData' |-> pData'[i].id] \in Seq(Nat)
      <4>1. /\ DOMAIN pData' = 1 .. Len(pData') /\ Len(pData') \in Nat
            /\ \A i \in 1 .. Len(pData') : pData'[i] \in Word
        BY <2>5
      <4>2. \A i \in 1 .. Len(pData') : pData'[i].id \in Nat
        BY <4>1 DEF Word
      <4> QED
        BY <4>1, <4>2
    <3>3. saved[board] # << >> => saved[board][Len(saved[board])] \in Nat
      BY <1>1 DEF ReadDataTypeOK
    <3>4. CASE pData' = << >>
      BY <1>1, <3>1, <3>4 DEF SaveToFile, ReadDataTypeOK
    <3>5. CASE pData' # << >>
      BY <1>1, <3>1, <3>2, <3>3, <3>5 DEF SaveToFile, ReadDataTypeOK
    <3> QED
      BY <3>4, <3>5
  <2> QED
    BY <1>1, <2>1, <2>5, <2>6, <2>7, <2>8 DEF ReadDataTypeOK
<1>6. CASE DecodeAndFill \/ CheckReadout \/ FillGroup
  <2>1. UNCHANGED <<ddr3Offset, nWordsInMemory, taken, saved, savedUpTo, resetAt>>
    BY <1>6 DEF DecodeAndFill, CheckReadout, FillGroup
  <2>2. pData' \in {pData, << >>}
    BY <1>6 DEF DecodeAndFill, CheckReadout, FillGroup
  <2>3. pData' \in Seq(Word)
    <3>1. << >> \in Seq(Word) /\ pData \in Seq(Word)
      BY <1>1 DEF ReadDataTypeOK
    <3> HIDE <1>0
    <3> QED
      BY <2>2, <3>1, Zenon
  <2> QED
    BY <1>1, <2>1, <2>3 DEF ReadDataTypeOK
<1>7. CASE BeginAttempt
  <2>1. UNCHANGED <<nWordsInMemory, saved, savedUpTo>> /\ pData' = << >>
    BY <1>7 DEF BeginAttempt, ClearedData
  <2>2. /\ ddr3Offset' = [ddr3Offset EXCEPT ![board] = 0]
        /\ resetAt' = [resetAt EXCEPT ![board] = written[board]]
        /\ taken' = [taken EXCEPT ![board] = 0]
    BY <1>7 DEF BeginAttempt, Start
  <2> QED
    BY <1>1, <2>1, <2>2 DEF ReadDataTypeOK, FirmwareTypeOK
<1> QED
  BY <1>2, <1>3, <1>4, <1>5, <1>6, <1>7 DEF Next, Thread, Physics, Measure

\* The state of the thread keeps its type.
LEMMA ThreadTypeStep ==
  ASSUME IInv, [Next]_vars PROVE ThreadTypeOK'
<1>1. ThreadTypeOK /\ FirmwareTypeOK /\ board \in BoardSet
  BY BoardIsABoard DEF IInv, TypeOK
<1>2. MAXATTEMPTS \in Nat \ {0} /\ Len(Boards) \in Nat /\ DOMAIN Boards = 1 .. Len(Boards)
  BY ReadoutAssumption
<1>3. CASE (\E b \in BoardSet : Trigger(b) \/ WriteEvent(b)) \/ Done \/ UNCHANGED vars
  <2>1. UNCHANGED <<mode, silentRunning, pc, progress>>
    BY <1>3 DEF Trigger, WriteEvent, Done, vars
  <2> QED
    BY <1>1, <2>1 DEF ThreadTypeOK, progress
<1>4. CASE \/ SampleWordsToRead \/ ReadFirstBlock \/ FinishReadData \/ EndRun
           \/ CallReadData \/ DecodeAndFill \/ WaitForTriggers \/ CheckReadout
  <2>1. UNCHANGED <<mode, silentRunning, progress>>
    BY <1>4 DEF SampleWordsToRead, ReadFirstBlock, FinishReadData, EndRun,
         CallReadData, DecodeAndFill, WaitForTriggers, CheckReadout
  <2>2. pc' \in {"sample", "read", "second", "check", "decode", "done", "next",
                 "wait", "attempt", "fill"}
    BY <1>4 DEF SampleWordsToRead, ReadFirstBlock, FinishReadData, EndRun,
         CallReadData, DecodeAndFill, WaitForTriggers, CheckReadout
  <2> QED
    BY <1>1, <2>1, <2>2 DEF ThreadTypeOK, progress
<1>5. CASE BeginCycle
  BY <1>1, <1>2, <1>5, ReadoutAssumption DEF ThreadTypeOK, BeginCycle
<1>6. CASE NextBoard
  BY <1>1, <1>2, <1>6 DEF ThreadTypeOK, NextBoard
<1>7. CASE BeginGroup
  BY <1>1, <1>2, <1>7, BurstNumbersType DEF ThreadTypeOK, BeginGroup
<1>8. CASE BeginBurst
  BY <1>1, <1>8 DEF ThreadTypeOK, BeginBurst, FirmwareTypeOK
<1>9. CASE BeginAttempt
  BY <1>1, <1>2, <1>9 DEF ThreadTypeOK, BeginAttempt, IInv, DriverInv
<1>10. CASE FillGroup
  BY <1>1, <1>2, <1>10 DEF ThreadTypeOK, FillGroup, IInv, DriverInv
<1> QED
  BY <1>3, <1>4, <1>5, <1>6, <1>7, <1>8, <1>9, <1>10 DEF Next, Thread, Physics, Measure

\* Of a set of at most so many events only a natural number is good.
LEMMA GoodEvents ==
  ASSUME NEW s \in Seq(Word)
  PROVE  Cardinality({i \in DOMAIN s : s[i].good}) \in Nat
<1>1. DOMAIN s = 1 .. Len(s) /\ Len(s) \in Nat
  OBVIOUS
<1>2. IsFiniteSet(1 .. Len(s))
  BY <1>1, FS_Interval
<1>3. IsFiniteSet({i \in DOMAIN s : s[i].good})
  BY <1>1, <1>2, FS_Subset
<1> QED
  BY <1>3, FS_CardinalityType

\* Events and counters keep their type.
LEMMA EventsTypeStep ==
  ASSUME IInv, [Next]_vars PROVE EventsTypeOK'
<1>1. EventsTypeOK /\ board \in BoardSet /\ pData \in Seq(Word)
  BY BoardIsABoard DEF IInv, TypeOK, ReadDataTypeOK
<1>2. CASE \/ \E b \in BoardSet : Trigger(b) \/ WriteEvent(b)
           \/ SampleWordsToRead \/ ReadFirstBlock \/ FinishReadData \/ EndRun \/ CallReadData
           \/ BeginGroup \/ BeginBurst \/ BeginAttempt \/ WaitForTriggers \/ Done
           \/ UNCHANGED vars
  <2>1. UNCHANGED <<events, counters, filling>>
    BY <1>2 DEF Trigger, WriteEvent, SampleWordsToRead, ReadFirstBlock, FinishReadData,
         EndRun, CallReadData, BeginGroup, BeginBurst, BeginAttempt, WaitForTriggers,
         Done, vars
  <2> QED
    BY <1>1, <2>1 DEF EventsTypeOK, events, counters, filling
<1>3. CASE BeginCycle
  <2>1. decodedEvents' = << >> /\ UNCHANGED <<fEventList, counters, filling>>
    BY <1>3 DEF BeginCycle
  <2> QED
    BY <1>1, <2>1 DEF EventsTypeOK, counters, filling
<1>4. CASE DecodeAndFill
  <2>1. UNCHANGED <<counters, exposure>>
    BY <1>4 DEF DecodeAndFill
  <2>2. CASE pData = << >>
    BY <1>1, <1>4, <2>1, <2>2 DEF EventsTypeOK, DecodeAndFill, events, counters
  <2>3. CASE pData # << >>
    <3>1. /\ decodedEvents' = Decode(pData)
          /\ fEventList' = decodedEvents'
          /\ filled' = [filled EXCEPT ![board] = @ \o fEventList']
      BY <1>4, <2>3 DEF DecodeAndFill
    <3>2. decodedEvents' \in Seq(Word)
      BY <1>1, <3>1 DEF Decode, EventsTypeOK
    <3>3. filled[board] \o fEventList' \in Seq(Word)
      BY <1>1, <3>1, <3>2 DEF EventsTypeOK
    <3> QED
      BY <1>1, <2>1, <3>1, <3>2, <3>3 DEF EventsTypeOK, counters
  <2> QED
    BY <2>2, <2>3
<1>5. CASE NextBoard
  <2>1. UNCHANGED <<events, NtrialsNevents, NcorruptedNevents, filling>>
    BY <1>5 DEF NextBoard
  <2>2. numberOfEventsPerRun' \in Nat
    BY <1>1, <1>5 DEF NextBoard, EventsTypeOK
  <2> QED
    BY <1>1, <2>1, <2>2 DEF EventsTypeOK, events, filling
<1>6. CASE CheckReadout
  <2>1. decodedEvents' = pData /\ UNCHANGED <<fEventList, numberOfEventsPerRun, filling>>
    BY <1>6 DEF CheckReadout, DecodedAnew
  <2>2. \E m, n \in {0, 1} :
          /\ NtrialsNevents' = [NtrialsNevents EXCEPT ![board] = @ + m]
          /\ NcorruptedNevents' = [NcorruptedNevents EXCEPT ![board] = @ + n]
    <3> DEFINE failed == ReadoutFailed(decodedEvents')
               again  == failed /\ ~silentRunning /\ nAttempts < MAXATTEMPTS
    <3>1. /\ NtrialsNevents' = [NtrialsNevents EXCEPT ![board] = @ + (IF failed THEN 1 ELSE 0)]
          /\ NcorruptedNevents' = [NcorruptedNevents EXCEPT ![board] =
                                     @ + (IF failed /\ ~again THEN 1 ELSE 0)]
      BY <1>6 DEF CheckReadout
    <3> HIDE DEF failed, again
    <3>2. (IF failed THEN 1 ELSE 0) \in {0, 1} /\ (IF failed /\ ~again THEN 1 ELSE 0) \in {0, 1}
      OBVIOUS
    <3> QED
      BY <3>1, <3>2
  <2> QED
    BY <1>1, <2>1, <2>2 DEF EventsTypeOK, filling
<1>7. CASE FillGroup
  <2>1. /\ decodedEvents' = Decode(pData) /\ fEventList' = decodedEvents'
        /\ UNCHANGED <<counters, filled>>
    BY <1>7 DEF FillGroup
  <2>2. decodedEvents' \in Seq(Word)
    BY <1>1, <2>1 DEF Decode, EventsTypeOK
  <2> DEFINE good == Cardinality({i \in DOMAIN fEventList' : fEventList'[i].good})
  <2>3. good \in Nat
    BY <2>1, <2>2, GoodEvents
  <2>4. exposure' = [exposure EXCEPT ![board] =
                       [channel \in RegionOfInterest |->
                          IF channel \in TestGroup(groupNumber) THEN @[channel] + good
                          ELSE @[channel]]]
    BY <1>7 DEF FillGroup
  <2> HIDE DEF good
  <2>5. exposure' \in [BoardSet -> [RegionOfInterest -> Nat]]
    BY <1>1, <2>3, <2>4 DEF EventsTypeOK
  <2> QED
    BY <1>1, <2>1, <2>2, <2>5 DEF EventsTypeOK, counters
<1> QED
  BY <1>2, <1>3, <1>4, <1>5, <1>6, <1>7 DEF Next, Thread, Physics, Measure

-----------------------------------------------------------------------------
(* The parts of the inductive invariant.                                   *)

\* Bursts and states of the thread fit together.
LEMMA DriverStep ==
  ASSUME IInv, [Next]_vars PROVE DriverInv'
<1>1. DriverInv /\ ThreadTypeOK
  BY DEF IInv, TypeOK
<1>2. CASE (\E b \in BoardSet : Trigger(b) \/ WriteEvent(b)) \/ Done \/ UNCHANGED vars
  <2>1. UNCHANGED <<mode, pc, burstNumbers, nAttempts>>
    BY <1>2 DEF Trigger, WriteEvent, Done, vars, progress
  <2> QED
    BY <1>1, <2>1 DEF DriverInv
<1>3. CASE SampleWordsToRead \/ ReadFirstBlock \/ FinishReadData
  <2>1. UNCHANGED <<mode, burstNumbers, nAttempts>>
    BY <1>3 DEF SampleWordsToRead, ReadFirstBlock, FinishReadData, progress
  <2>2. /\ pc \in {"sample", "read", "second"}
        /\ \/ pc' \in {"sample", "read", "second"}
           \/ pc' = IF mode = "measure" THEN "check" ELSE "decode"
    BY <1>3 DEF SampleWordsToRead, ReadFirstBlock, FinishReadData, ReadLastBlock
  <2> QED
    BY <1>1, <2>1, <2>2 DEF DriverInv, ThreadTypeOK
<1>4. CASE BeginCycle \/ EndRun \/ CallReadData \/ DecodeAndFill \/ NextBoard
  <2>1. UNCHANGED <<mode, burstNumbers, nAttempts>>
    BY <1>4 DEF BeginCycle, EndRun, CallReadData, DecodeAndFill, NextBoard, progress
  <2>2. /\ pc \in {"cycle", "call", "decode", "next"}
        /\ pc' \in {"cycle", "call", "decode", "next", "done", "sample"}
    BY <1>4 DEF BeginCycle, EndRun, CallReadData, DecodeAndFill, NextBoard
  <2> QED
    BY <1>1, <2>1, <2>2 DEF DriverInv
<1>5. CASE BeginGroup
  BY <1>1, <1>5, BurstNumbersType, ReadoutAssumption DEF DriverInv, ThreadTypeOK, BeginGroup
<1>6. CASE BeginBurst
  BY <1>1, <1>6, ReadoutAssumption DEF DriverInv, ThreadTypeOK, BeginBurst, IInv
<1>7. CASE BeginAttempt \/ WaitForTriggers
  BY <1>1, <1>7 DEF DriverInv, BeginAttempt, WaitForTriggers, progress
<1>8. CASE CheckReadout
  BY <1>1, <1>8 DEF DriverInv, CheckReadout, progress
<1>9. CASE FillGroup
  BY <1>1, <1>9 DEF DriverInv, ThreadTypeOK, FillGroup
<1> QED
  BY <1>2, <1>3, <1>4, <1>5, <1>6, <1>7, <1>8, <1>9 DEF Next, Thread, Physics, Measure

\* What has been sampled stays there until it is read.
LEMMA BlockStep ==
  ASSUME IInv, [Next]_vars PROVE BlockInv'
<1>0. FIFOsize \in Nat \ {0}
  BY ReadoutAssumption
<1>1. BlockInv /\ FirmwareTypeOK /\ ReadDataTypeOK /\ board \in BoardSet
  BY BoardIsABoard DEF IInv, TypeOK
<1>2. /\ wordsToRead[board] \in 0 .. FIFOsize /\ nWordsInMemory \in 0 .. FIFOsize
      /\ ddr3Offset[board] \in 0 .. FIFOsize - 1
  BY <1>1 DEF FirmwareTypeOK, ReadDataTypeOK
<1>3. ASSUME NEW b \in BoardSet, Trigger(b) \/ WriteEvent(b) PROVE BlockInv'
  <2>1. UNCHANGED <<pc, boardIndex, ddr3Offset, nWordsInMemory>>
    BY <1>3 DEF Trigger, WriteEvent, readData, progress
  <2>2. wordsToRead'[board] \in {wordsToRead[board], wordsToRead[board] + 1}
    <3>1. CASE Trigger(b)
      BY <3>1 DEF Trigger
    <3>2. CASE WriteEvent(b)
      <4>1. wordsToRead' = [wordsToRead EXCEPT ![b] = @ + 1]
        BY <3>2 DEF WriteEvent
      <4> QED
        BY <1>1, <1>3, <4>1 DEF FirmwareTypeOK
    <3> QED
      BY <1>3, <3>1, <3>2
  <2>3. wordsToRead'[board] >= wordsToRead[board] /\ wordsToRead'[board] \in Int
    BY <1>0, <1>2, <2>2
  <2>4. board' = board /\ ToTheEnd' = ToTheEnd /\ ToTheEnd \in Int
    BY <1>0, <1>2, <2>1 DEF board, ToTheEnd
  <2> QED
    BY <1>0, <1>1, <1>2, <2>1, <2>2, <2>3, <2>4 DEF BlockInv
<1>4. CASE SampleWordsToRead
  <2>1. /\ nWordsInMemory' = wordsToRead[board] /\ pc' \in {"read", "sample"}
        /\ UNCHANGED <<wordsToRead, boardIndex>>
    BY <1>4 DEF SampleWordsToRead, firmware, progress
  <2> QED
    BY <1>2, <2>1 DEF BlockInv, board
<1>5. CASE ReadFirstBlock
  <2>1. /\ pc' = "second" /\ nWordsInMemory > ToTheEnd /\ nWordsInMemory <= wordsToRead[board]
        /\ wordsToRead' = [wordsToRead EXCEPT ![board] = @ - ToTheEnd]
        /\ UNCHANGED <<nWordsInMemory, ddr3Offset, boardIndex>>
    BY <1>1, <1>5 DEF ReadFirstBlock, ReadBlock, BlockInv, progress
  <2>2. wordsToRead'[board] = wordsToRead[board] - ToTheEnd
    BY <1>1, <2>1 DEF FirmwareTypeOK
  <2>3. board' = board /\ ToTheEnd' = ToTheEnd /\ ToTheEnd \in Int
    BY <1>0, <1>2, <2>1 DEF board, ToTheEnd
  <2> QED
    BY <1>0, <1>2, <2>1, <2>2, <2>3 DEF BlockInv
<1>6. CASE CallReadData \/ WaitForTriggers
  <2>1. /\ UNCHANGED <<wordsToRead, boardIndex>>
        /\ \/ pc' = "sample" /\ nWordsInMemory' = wordsToRead[board]
           \/ pc' \notin {"sample", "read", "second"}
    BY <1>6 DEF CallReadData, WaitForTriggers, firmware, progress
  <2> QED
    BY <1>2, <2>1 DEF BlockInv, board
<1>7. CASE \/ FinishReadData \/ BeginCycle \/ EndRun \/ DecodeAndFill \/ NextBoard
           \/ BeginGroup \/ BeginBurst \/ BeginAttempt \/ CheckReadout \/ FillGroup
  <2>1. pc' \notin {"sample", "read", "second"}
    BY <1>7 DEF FinishReadData, BeginCycle, EndRun, DecodeAndFill, NextBoard, BeginGroup,
         BeginBurst, BeginAttempt, CheckReadout, FillGroup
  <2> QED
    BY <2>1 DEF BlockInv
<1>8. CASE Done \/ UNCHANGED vars
  <2>1. UNCHANGED <<pc, wordsToRead, boardIndex, ddr3Offset, nWordsInMemory>>
    BY <1>8 DEF Done, vars, firmware, readData, progress
  <2> QED
    BY <1>1, <2>1 DEF BlockInv, board, ToTheEnd
<1> QED
  BY <1>3, <1>4, <1>5, <1>6, <1>7, <1>8 DEF Next, Thread, Physics, Measure

\* The ring of one board, given where its next word is.
Ring(b, slot) ==
  /\ writePointer[b] = Wrap(slot + wordsToRead[b])
  /\ written[b] = resetAt[b] + taken[b] + wordsToRead[b]
  /\ \A j \in 0 .. wordsToRead[b] - 1 :
       /\ memory[b][Wrap(slot + j)].board = b
       /\ memory[b][Wrap(slot + j)].id = resetAt[b] + taken[b] + j + 1

\* The ring invariant, board by board.
LEMMA RingOfABoard == RingInv <=> \A b \in BoardSet : Ring(b, ReadSlot(b))
BY DEF RingInv, Ring

\* Nothing changes for a board whose memory and counts stay as they are.
LEMMA RingUnchanged ==
  ASSUME IInv, NEW b \in BoardSet,
         memory'[b] = memory[b], writePointer'[b] = writePointer[b],
         wordsToRead'[b] = wordsToRead[b], written'[b] = written[b],
         resetAt'[b] = resetAt[b], taken'[b] = taken[b], ReadSlot(b)' = ReadSlot(b)
  PROVE  Ring(b, ReadSlot(b))'
<1>1. Ring(b, ReadSlot(b))
  BY RingOfABoard DEF IInv
<1> QED
  BY <1>1 DEF Ring

\* The read slot of a board is a slot.
LEMMA ReadSlotType ==
  ASSUME ReadDataTypeOK, NEW b \in BoardSet
  PROVE  ReadSlot(b) \in 0 .. FIFOsize - 1
BY ReadoutAssumption DEF ReadDataTypeOK, ReadSlot

\* Reading a block moves the ring on, wherever the reading ends.
LEMMA RingAfterReading ==
  ASSUME IInv, NEW b \in BoardSet, NEW size \in Nat, size <= wordsToRead[b],
         wordsToRead' = [wordsToRead EXCEPT ![b] = @ - size],
         taken' = [taken EXCEPT ![b] = @ + size],
         UNCHANGED <<memory, writePointer, written, resetAt>>,
         ReadSlot(b)' = Wrap(ReadSlot(b) + size)
  PROVE  Ring(b, ReadSlot(b))'
<1>0. FIFOsize \in Nat \ {0}
  BY ReadoutAssumption
<1> DEFINE r == ReadSlot(b)
           w == wordsToRead[b]
<1>1. r \in 0 .. FIFOsize - 1 /\ w \in 0 .. FIFOsize
  BY <1>0, ReadSlotType DEF IInv, TypeOK, FirmwareTypeOK
<1>2. Ring(b, r)
  BY <1>0, RingOfABoard DEF IInv
<1>3. /\ wordsToRead'[b] = w - size /\ taken'[b] = taken[b] + size
      /\ taken[b] \in Nat /\ resetAt[b] \in Nat
  BY <1>0 DEF IInv, TypeOK, FirmwareTypeOK, ReadDataTypeOK
<1>4. \A j \in 0 .. w - size : Wrap(Wrap(r + size) + j) = Wrap(r + size + j)
  <2> HIDE DEF r, w
  <2> TAKE j \in 0 .. w - size
  <2>1. size \in 0 .. FIFOsize /\ j \in 0 .. FIFOsize /\ size + j <= FIFOsize
    BY <1>0, <1>1
  <2> QED
    BY <1>1, <2>1, WrapMovesOn
<1>5. writePointer'[b] = Wrap(Wrap(r + size) + (w - size))
  <2>1. w - size \in 0 .. w - size /\ r + size + (w - size) = r + w
    BY <1>1
  <2>2. writePointer[b] = Wrap(r + w)
    BY <1>2 DEF Ring
  <2> HIDE DEF r, w
  <2> QED
    BY <1>4, <2>1, <2>2
<1>6. written'[b] = resetAt[b] + taken'[b] + (w - size)
  <2>1. written[b] = resetAt[b] + taken[b] + w
    BY <1>2 DEF Ring
  <2> HIDE DEF r, w
  <2> QED
    BY <1>1, <1>3, <2>1
<1>7. ASSUME NEW j \in 0 .. (w - size) - 1
      PROVE  /\ memory'[b][Wrap(Wrap(r + size) + j)].board = b
             /\ memory'[b][Wrap(Wrap(r + size) + j)].id
                  = resetAt[b] + taken'[b] + j + 1
  <2>1. size + j \in 0 .. w - 1 /\ r + (size + j) = r + size + j /\ j \in 0 .. w - size
    BY <1>1
  <2>2. /\ memory[b][Wrap(r + (size + j))].board = b
        /\ memory[b][Wrap(r + (size + j))].id = resetAt[b] + taken[b] + (size + j) + 1
    BY <1>2, <2>1 DEF Ring
  <2> HIDE DEF r, w
  <2> QED
    BY <1>1, <1>3, <1>4, <2>1, <2>2
<1> QED
  BY <1>0, <1>3, <1>5, <1>6, <1>7 DEF Ring

\* The event written goes into the first free slot of the ring.
LEMMA RingAfterWriting ==
  ASSUME IInv, NEW b \in BoardSet, WriteEvent(b)
  PROVE  Ring(b, ReadSlot(b))'
<1>0. FIFOsize \in Nat \ {0} /\ FirmwareTypeOK /\ ReadDataTypeOK
  BY ReadoutAssumption DEF IInv, TypeOK
<1> DEFINE r == ReadSlot(b)
           w == wordsToRead[b]
<1>1. r \in 0 .. FIFOsize - 1 /\ w \in 0 .. FIFOsize - 1 /\ writePointer[b] \in 0 .. FIFOsize - 1
      /\ written[b] \in Nat
  <2>1. w \in 0 .. FIFOsize /\ w < FIFOsize
    BY <1>0 DEF FirmwareTypeOK, WriteEvent
  <2>2. r \in 0 .. FIFOsize - 1
    BY <1>0, ReadSlotType
  <2> QED
    BY <1>0, <2>1, <2>2 DEF FirmwareTypeOK
<1>2. Ring(b, r)
  BY RingOfABoard DEF IInv
<1>3. r' = r
  BY DEF WriteEvent, readData, progress, ReadSlot, board
<1>4. PICK good \in BOOLEAN :
        memory' = [memory EXCEPT ![b][writePointer[b]] =
                     [board |-> b, id |-> written[b] + 1, good |-> good]]
  BY DEF WriteEvent
<1>5. /\ wordsToRead'[b] = w + 1 /\ written'[b] = written[b] + 1
      /\ writePointer'[b] = Wrap(writePointer[b] + 1)
      /\ resetAt' = resetAt /\ taken' = taken
  BY <1>0 DEF FirmwareTypeOK, WriteEvent, readData
<1>6. writePointer[b] = Wrap(r + w) /\ written[b] = resetAt[b] + taken[b] + w
  BY <1>2 DEF Ring
<1>7. resetAt[b] \in Nat /\ taken[b] \in Nat
  BY <1>0 DEF ReadDataTypeOK
<1>8. \A slot \in 0 .. FIFOsize - 1 :
        memory'[b][slot] = IF slot = writePointer[b]
                           THEN [board |-> b, id |-> written[b] + 1, good |-> good]
                           ELSE memory[b][slot]
  <2>1. memory \in [BoardSet -> [0 .. FIFOsize - 1 -> Word]]
    BY <1>0 DEF FirmwareTypeOK
  <2>2. memory'[b] = [memory[b] EXCEPT ![writePointer[b]] =
                        [board |-> b, id |-> written[b] + 1, good |-> good]]
    BY <1>4, <2>1
  <2> QED
    BY <1>1, <2>1, <2>2
<1> HIDE DEF r, w
<1>9. writePointer'[b] = Wrap(r + (w + 1))
  <2>1. w \in 0 .. FIFOsize /\ 1 \in 0 .. FIFOsize /\ w + 1 <= FIFOsize /\ r + w + 1 = r + (w + 1)
    BY <1>0, <1>1
  <2> QED
    BY <1>1, <1>5, <1>6, <2>1, WrapMovesOn
<1>10. written'[b] = resetAt[b] + taken[b] + (w + 1)
  BY <1>1, <1>5, <1>6, <1>7
<1>11. ASSUME NEW j \in 0 .. (w + 1) - 1
       PROVE  /\ memory'[b][Wrap(r + j)].board = b
              /\ memory'[b][Wrap(r + j)].id = resetAt[b] + taken[b] + j + 1
  <2>1. j \in 0 .. FIFOsize - 1 /\ r + j \in 0 .. 2 * FIFOsize - 1
    BY <1>0, <1>1
  <2>2. Wrap(r + j) \in 0 .. FIFOsize - 1
    BY <2>1, WrapValue
  <2>3. CASE j = w
    BY <1>6, <1>7, <1>8, <2>2, <2>3
  <2>4. CASE j # w
    <3>1. Wrap(r + j) # writePointer[b]
      BY <1>1, <1>6, <2>1, <2>4, SlotsDiffer
    <3>2. j \in 0 .. w - 1
      BY <1>0, <1>1, <2>4
    <3>3. /\ memory[b][Wrap(r + j)].board = b
          /\ memory[b][Wrap(r + j)].id = resetAt[b] + taken[b] + j + 1
      BY <1>2, <3>2 DEF Ring, w
    <3> QED
      BY <1>8, <2>2, <3>1, <3>3
  <2> QED
    BY <2>3, <2>4
<1>12. Ring(b, r)'
  BY <1>3, <1>5, <1>9, <1>10, <1>11 DEF Ring
<1> QED
  BY <1>12 DEF r

\* The unread words of every board stay the next ones.
LEMMA RingStep ==
  ASSUME IInv, [Next]_vars PROVE RingInv'
<1>0. FIFOsize \in Nat \ {0} /\ FirmwareTypeOK /\ ReadDataTypeOK /\ board \in BoardSet
  BY ReadoutAssumption, BoardIsABoard DEF IInv, TypeOK
<1> SUFFICES ASSUME NEW b \in BoardSet PROVE Ring(b, ReadSlot(b))'
  BY DEF RingInv, Ring
<1>1. ASSUME NEW c \in BoardSet, Trigger(c) PROVE Ring(b, ReadSlot(b))'
  BY <1>1, RingUnchanged DEF Trigger, readData, progress, ReadSlot, board
<1>2. ASSUME NEW c \in BoardSet, WriteEvent(c) PROVE Ring(b, ReadSlot(b))'
  <2>1. CASE b = c
    BY <1>2, <2>1, RingAfterWriting
  <2>2. CASE b # c
    <3>1. /\ memory'[b] = memory[b] /\ writePointer'[b] = writePointer[b]
          /\ wordsToRead'[b] = wordsToRead[b] /\ written'[b] = written[b]
      BY <1>0, <1>2, <2>2 DEF WriteEvent, FirmwareTypeOK
    <3>2. resetAt' = resetAt /\ taken' = taken /\ ReadSlot(b)' = ReadSlot(b)
      BY <1>2 DEF WriteEvent, readData, progress, ReadSlot, board
    <3> QED
      BY <3>1, <3>2, RingUnchanged
  <2> QED
    BY <2>1, <2>2
<1>3. CASE ReadFirstBlock
  <2>1. /\ pc = "read" /\ pc' = "second" /\ nWordsInMemory > ToTheEnd
        /\ wordsToRead' = [wordsToRead EXCEPT ![board] = @ - ToTheEnd]
        /\ taken' = [taken EXCEPT ![board] = @ + ToTheEnd]
        /\ UNCHANGED <<memory, writePointer, written, resetAt, ddr3Offset, boardIndex>>
    BY <1>3 DEF ReadFirstBlock, ReadBlock, progress
  <2>2. board' = board
    BY <2>1 DEF board
  <2>3. CASE b = board
    <3>1. ddr3Offset[board] \in 0 .. FIFOsize - 1 /\ nWordsInMemory \in Nat
      BY <1>0 DEF ReadDataTypeOK
    <3>2. ToTheEnd \in Nat /\ ToTheEnd <= wordsToRead[board]
          /\ ddr3Offset[board] + ToTheEnd = FIFOsize
      <4>1. nWordsInMemory <= wordsToRead[board] /\ wordsToRead[board] \in Int
        BY <1>0, <2>1 DEF IInv, BlockInv, FirmwareTypeOK
      <4> QED
        BY <1>0, <2>1, <3>1, <4>1 DEF ToTheEnd
    <3>3. Wrap(FIFOsize) = 0
      <4>1. FIFOsize \in 0 .. 2 * FIFOsize - 1
        BY <1>0
      <4> QED
        BY <1>0, <4>1, WrapValue
    <3>4. ReadSlot(board)' = Wrap(ReadSlot(board) + ToTheEnd)
      BY <2>1, <2>2, <3>2, <3>3 DEF ReadSlot
    <3> QED
      BY <2>1, <2>2, <2>3, <3>2, <3>4, RingAfterReading
  <2>4. CASE b # board
    <3>1. wordsToRead'[b] = wordsToRead[b] /\ taken'[b] = taken[b]
      BY <1>0, <2>1, <2>4 DEF FirmwareTypeOK, ReadDataTypeOK
    <3>2. ReadSlot(b)' = ReadSlot(b)
      BY <2>1, <2>2, <2>4 DEF ReadSlot
    <3> QED
      BY <2>1, <3>1, <3>2, RingUnchanged
  <2> QED
    BY <2>3, <2>4
<1>4. CASE FinishReadData
  <2>1. /\ pc \in {"read", "second"} /\ LastSize \in Nat /\ LastSize <= wordsToRead[board]
        /\ wordsToRead' = [wordsToRead EXCEPT ![board] = @ - LastSize]
        /\ taken' = [taken EXCEPT ![board] = @ + LastSize]
        /\ Wrap(ddr3Offset[board] + nWordsInMemory) = Wrap(ReadSlot(board) + LastSize)
    BY <1>4, LastBlock DEF FinishReadData, ReadBlock
  <2>2. /\ pc' # "second"
        /\ ddr3Offset' = [ddr3Offset EXCEPT ![board] = Wrap(@ + nWordsInMemory)]
        /\ UNCHANGED <<memory, writePointer, written, resetAt, boardIndex>>
    BY <1>4 DEF FinishReadData, progress
  <2>3. CASE b = board
    <3>1. ReadSlot(board)' = Wrap(ReadSlot(board) + LastSize)
      <4>1. ddr3Offset'[board] = Wrap(ddr3Offset[board] + nWordsInMemory)
        BY <1>0, <2>2 DEF ReadDataTypeOK
      <4>2. board' = board
        BY <2>2 DEF board
      <4> QED
        BY <2>1, <2>2, <4>1, <4>2 DEF ReadSlot
    <3>2. board' = board
      BY <2>2 DEF board
    <3> QED
      BY <2>1, <2>2, <2>3, <3>1, <3>2, RingAfterReading
  <2>4. CASE b # board
    <3>1. wordsToRead'[b] = wordsToRead[b] /\ taken'[b] = taken[b] /\ ddr3Offset'[b] = ddr3Offset[b]
      BY <1>0, <2>1, <2>2, <2>4 DEF FirmwareTypeOK, ReadDataTypeOK
    <3>2. ReadSlot(b)' = ReadSlot(b)
      BY <2>2, <2>4, <3>1 DEF ReadSlot
    <3> QED
      BY <2>2, <3>1, <3>2, RingUnchanged
  <2> QED
    BY <2>3, <2>4
<1>5. CASE BeginAttempt
  <2>1. /\ pc = "attempt" /\ pc' = "wait" /\ Start(board) /\ UNCHANGED <<written, boardIndex>>
    BY <1>5 DEF BeginAttempt
  <2>2. CASE b = board
    <3>1. /\ writePointer'[b] = 0 /\ wordsToRead'[b] = 0 /\ taken'[b] = 0
          /\ resetAt'[b] = written[b] /\ ddr3Offset'[b] = 0 /\ written[b] \in Nat
      BY <1>0, <2>1, <2>2 DEF Start, FirmwareTypeOK, ReadDataTypeOK
    <3>2. ReadSlot(b)' = 0
      BY <2>1, <3>1 DEF ReadSlot
    <3>3. Wrap(0) = 0
      <4>1. 0 \in 0 .. 2 * FIFOsize - 1
        BY <1>0
      <4> QED
        BY <1>0, <4>1, WrapValue
    <3>4. 0 + 0 = 0 /\ written[b] = written[b] + 0 + 0 /\ 0 .. 0 - 1 = {}
      BY <3>1
    <3> QED
      BY <2>1, <3>1, <3>2, <3>3, <3>4 DEF Ring
  <2>3. CASE b # board
    <3>1. /\ memory'[b] = memory[b] /\ writePointer'[b] = writePointer[b]
          /\ wordsToRead'[b] = wordsToRead[b] /\ taken'[b] = taken[b]
          /\ resetAt'[b] = resetAt[b] /\ ddr3Offset'[b] = ddr3Offset[b]
      BY <1>0, <2>1, <2>3 DEF Start, FirmwareTypeOK, ReadDataTypeOK
    <3>2. ReadSlot(b)' = ReadSlot(b)
      BY <2>1, <3>1 DEF ReadSlot
    <3> QED
      BY <2>1, <3>1, <3>2, RingUnchanged
  <2> QED
    BY <2>2, <2>3
<1>6. CASE \/ SampleWordsToRead \/ BeginCycle \/ EndRun \/ CallReadData \/ DecodeAndFill
           \/ NextBoard \/ BeginGroup \/ BeginBurst \/ WaitForTriggers \/ CheckReadout
           \/ FillGroup
  <2>1. pc # "second" /\ pc' # "second"
    BY <1>6 DEF SampleWordsToRead, BeginCycle, EndRun, CallReadData, DecodeAndFill, NextBoard,
         BeginGroup, BeginBurst, WaitForTriggers, CheckReadout, FillGroup
  <2>2. UNCHANGED <<memory, writePointer, wordsToRead, written, resetAt, taken, ddr3Offset>>
    BY <1>6 DEF SampleWordsToRead, BeginCycle, EndRun, CallReadData, DecodeAndFill, NextBoard,
         BeginGroup, BeginBurst, WaitForTriggers, CheckReadout, FillGroup, firmware, readData
  <2>3. ReadSlot(b)' = ReadSlot(b)
    BY <2>1, <2>2 DEF ReadSlot
  <2> QED
    BY <2>2, <2>3, RingUnchanged
<1>7. CASE Done \/ UNCHANGED vars
  <2>1. UNCHANGED <<memory, writePointer, wordsToRead, written, resetAt, taken, ddr3Offset,
                    pc, boardIndex>>
    BY <1>7 DEF Done, vars, firmware, readData, progress
  <2> QED
    BY <2>1, RingUnchanged DEF ReadSlot, board
<1> QED
  BY <1>1, <1>2, <1>3, <1>4, <1>5, <1>6, <1>7 DEF Next, Thread, Physics, Measure

\* The words of a block are unread, and in slots that do not wrap around.
LEMMA BlockSlots ==
  ASSUME NEW a \in Nat, NEW size \in Nat, NEW w \in Int, NEW j \in 1 .. size,
         a + size <= FIFOsize, size <= w
  PROVE  /\ j - 1 \in 0 .. w - 1 /\ a + j - 1 = a + (j - 1)
         /\ a + (j - 1) \in 0 .. FIFOsize - 1
BY ReadoutAssumption

\* A block read from the first unread word on continues the data in order.
LEMMA DataAfterReading ==
  ASSUME IInv, pc \in {"sample", "read", "second"}, NEW size \in Nat,
         size <= wordsToRead[board], ReadSlot(board) + size <= FIFOsize,
         pData' = pData \o Block(ReadSlot(board), size),
         taken' = [taken EXCEPT ![board] = @ + size],
         UNCHANGED <<resetAt, boardIndex>>
  PROVE  DataInv' \/ pc' = "wait"
<1>0. /\ FIFOsize \in Nat \ {0} /\ FirmwareTypeOK /\ ReadDataTypeOK /\ ThreadTypeOK
      /\ board \in BoardSet /\ board' = board
  BY ReadoutAssumption, BoardIsABoard DEF IInv, TypeOK, board
<1> DEFINE from == ReadSlot(board)
           block == Block(from, size)
           n == Len(pData)
           start == resetAt[board]
           t == taken[board]
<1>1. /\ from \in 0 .. FIFOsize - 1 /\ wordsToRead[board] \in Int
      /\ pData \in Seq(Word) /\ n \in Nat /\ start \in Nat /\ t \in Nat
  <2>1. from \in 0 .. FIFOsize - 1
    BY <1>0, ReadSlotType
  <2> QED
    BY <1>0, <2>1 DEF FirmwareTypeOK, ReadDataTypeOK
<1>2. block \in Seq(Word) /\ Len(block) = size
  BY <1>0, <1>1, BlockType
<1>3. \A i \in 1 .. n : pData[i].board = board /\ pData[i].id = start + t - n + i
  BY <1>1 DEF IInv, DataInv, ReadOnceInOrder
<1>4. ASSUME NEW j \in 1 .. size
      PROVE  block[j].board = board /\ block[j].id = start + t + j
  <2>1. j - 1 \in 0 .. wordsToRead[board] - 1 /\ from + j - 1 = from + (j - 1)
        /\ from + (j - 1) \in 0 .. FIFOsize - 1
    <3>1. from + size <= FIFOsize /\ size <= wordsToRead[board]
      OBVIOUS
    <3>2. from \in Nat
      BY <1>1
    <3> HIDE DEF from
    <3> QED
      BY <1>1, <3>1, <3>2, BlockSlots
  <2>2. Wrap(from + (j - 1)) = from + (j - 1)
    <3>1. from + (j - 1) \in 0 .. 2 * FIFOsize - 1 /\ from + (j - 1) < FIFOsize
      BY <1>0, <2>1
    <3> HIDE DEF from
    <3> QED
      BY <3>1, WrapValue
  <2>3. /\ memory[board][Wrap(from + (j - 1))].board = board
        /\ memory[board][Wrap(from + (j - 1))].id = start + t + (j - 1) + 1
    BY <1>0, <2>1, RingOfABoard DEF IInv, Ring
  <2>4. block[j] = memory[board][from + j - 1]
    BY DEF Block
  <2> HIDE DEF from, block, start, t
  <2> QED
    BY <1>1, <2>1, <2>2, <2>3, <2>4
<1>5. taken'[board] = t + size
  BY <1>0 DEF ReadDataTypeOK
<1>6. /\ Len(pData') = n + size /\ DOMAIN pData' = 1 .. n + size
      /\ \A i \in 1 .. n + size : pData'[i] = IF i <= n THEN pData[i] ELSE block[i - n]
  <2>1. pData' = pData \o block
    OBVIOUS
  <2> HIDE DEF block
  <2> QED
    BY <1>1, <1>2, <2>1
<1>7. ASSUME NEW i \in 1 .. n + size
      PROVE  pData'[i].board = board /\ pData'[i].id = start + (t + size) - (n + size) + i
  <2>1. CASE i <= n
    <3>1. i \in 1 .. n /\ pData'[i] = pData[i]
      BY <1>1, <1>6, <2>1
    <3>2. pData'[i].board = board /\ pData'[i].id = start + t - n + i
      BY <1>3, <3>1
    <3> HIDE DEF n, start, t
    <3> QED
      BY <1>1, <3>1, <3>2
  <2>2. CASE i > n
    <3>1. i - n \in 1 .. size /\ pData'[i] = block[i - n]
      <4> HIDE DEF block, n
      <4> QED
        BY <1>1, <1>6, <2>2
    <3>2. pData'[i].board = board /\ pData'[i].id = start + t + (i - n)
      BY <1>4, <3>1
    <3> HIDE DEF n, start, t, block
    <3> QED
      BY <1>1, <3>1, <3>2
  <2>3. i <= n \/ i > n
    <3> HIDE DEF n
    <3> QED
      BY <1>1
  <2> QED
    BY <2>1, <2>2, <2>3
<1> HIDE DEF n, t
<1> QED
  BY <1>0, <1>5, <1>6, <1>7 DEF DataInv, ReadOnceInOrder

\* What has been read stays in order.
LEMMA DataStep ==
  ASSUME IInv, [Next]_vars PROVE DataInv'
<1>1. CASE (\E b \in BoardSet : Trigger(b) \/ WriteEvent(b)) \/ Done \/ UNCHANGED vars
  <2>1. UNCHANGED <<pc, pData, resetAt, taken, boardIndex>>
    BY <1>1 DEF Trigger, WriteEvent, Done, vars, readData, progress
  <2> QED
    BY <2>1 DEF IInv, DataInv, ReadOnceInOrder, board
<1>2. CASE SampleWordsToRead
  <2>1. /\ pc = "sample" /\ pc' \in {"sample", "read"}
        /\ UNCHANGED <<pData, resetAt, taken, boardIndex>>
    BY <1>2 DEF SampleWordsToRead, progress
  <2> QED
    BY <2>1 DEF IInv, DataInv, ReadOnceInOrder, board
<1>3. CASE ReadFirstBlock
  <2>1. /\ pc = "read" /\ pc' = "second" /\ nWordsInMemory > ToTheEnd
        /\ nWordsInMemory <= wordsToRead[board] /\ ReadBlock(ddr3Offset[board], ToTheEnd)
        /\ UNCHANGED <<resetAt, boardIndex>>
    BY <1>3 DEF ReadFirstBlock, progress, IInv, BlockInv
  <2>2. ReadSlot(board) = ddr3Offset[board]
    BY <2>1 DEF ReadSlot
  <2>3. /\ ToTheEnd \in Nat /\ ddr3Offset[board] + ToTheEnd <= FIFOsize
        /\ ToTheEnd <= wordsToRead[board]
    <3>1. board \in BoardSet /\ ReadDataTypeOK /\ FirmwareTypeOK /\ FIFOsize \in Nat \ {0}
      BY BoardIsABoard, ReadoutAssumption DEF IInv, TypeOK
    <3>2. /\ ddr3Offset[board] \in 0 .. FIFOsize - 1 /\ nWordsInMemory \in Nat
          /\ wordsToRead[board] \in Nat
      BY <3>1 DEF ReadDataTypeOK, FirmwareTypeOK
    <3> QED
      BY <2>1, <3>1, <3>2 DEF ToTheEnd
  <2> QED
    BY <2>1, <2>2, <2>3, DataAfterReading DEF ReadBlock
<1>4. CASE FinishReadData
  <2>1. /\ pc' # "wait" /\ ReadLastBlock /\ UNCHANGED <<resetAt, boardIndex>>
    BY <1>4 DEF FinishReadData, progress
  <2> QED
    BY <2>1, LastBlock, DataAfterReading DEF ReadBlock
<1>5. CASE CallReadData \/ WaitForTriggers \/ BeginAttempt
  <2>1. \/ pc' = "next"
        \/ pData' = << >>
    BY <1>5 DEF CallReadData, WaitForTriggers, BeginAttempt, ClearedData, IInv, DataInv
  <2> QED
    BY <2>1 DEF DataInv, ReadOnceInOrder
<1>6. CASE \/ BeginCycle \/ EndRun \/ DecodeAndFill \/ NextBoard \/ BeginGroup \/ BeginBurst
           \/ CheckReadout \/ FillGroup
  <2>1. pc' \notin {"wait", "sample", "read", "second", "decode", "check"}
    BY <1>6 DEF BeginCycle, EndRun, DecodeAndFill, NextBoard, BeginGroup, BeginBurst,
         CheckReadout, FillGroup, IInv, TypeOK, ThreadTypeOK
  <2> QED
    BY <2>1 DEF DataInv, ReadOnceInOrder
<1> QED
  BY <1>1, <1>2, <1>3, <1>4, <1>5, <1>6 DEF Next, Thread, Physics, Measure

-----------------------------------------------------------------------------
(* The theorems.                                                           *)

\* The invariant holds initially.
LEMMA InitIInv == Init => IInv
<1> SUFFICES ASSUME Init PROVE IInv
  OBVIOUS
<1>0. /\ FIFOsize \in Nat \ {0} /\ MAXATTEMPTS \in Nat /\ MaxTriggers \in Nat
      /\ 1 \in DOMAIN Boards
  BY ReadoutAssumption
<1>1. FirmwareTypeOK
  <2>1. \A b \in BoardSet : EmptyMemory(b) \in [0 .. FIFOsize - 1 -> Word]
    BY DEF EmptyMemory, Word
  <2> QED
    BY <1>0, <2>1 DEF Init, FirmwareTypeOK
<1>2. ReadDataTypeOK
  BY <1>0 DEF Init, ReadDataTypeOK
<1>3. ThreadTypeOK
  BY <1>0 DEF Init, ThreadTypeOK
<1>4. EventsTypeOK
  BY DEF Init, EventsTypeOK
<1>5. RingInv
  <2>1. Wrap(0) = 0
    <3>1. 0 \in 0 .. 2 * FIFOsize - 1
      BY <1>0
    <3> QED
      BY <1>0, <3>1, WrapValue
  <2>2. \A b \in BoardSet : ReadSlot(b) = 0
    BY DEF Init, ReadSlot
  <2> QED
    BY <2>1, <2>2 DEF Init, RingInv
<1>6. BlockInv /\ DriverInv
  BY <1>0 DEF Init, BlockInv, DriverInv
<1>7. DataInv
  BY DEF Init, DataInv, ReadOnceInOrder
<1> QED
  BY <1>1, <1>2, <1>3, <1>4, <1>5, <1>6, <1>7 DEF IInv, TypeOK

\* Every step keeps it.
LEMMA IInvStep ==
  ASSUME IInv, [Next]_vars PROVE IInv'
BY FirmwareTypeStep, ReadDataTypeStep, ThreadTypeStep, EventsTypeStep, RingStep,
   BlockStep, DriverStep, DataStep DEF IInv, TypeOK

\* The invariant is inductive.
LEMMA InductiveInvariant == Spec => []IInv
BY IInvStep, InitIInv, PTL DEF Spec

\* Every variable keeps its type: the offset and the pointers stay in the
\* memory, and no more words are taken than have been announced.
THEOREM TypeCorrect == Spec => []TypeOK
BY InductiveInvariant, PTL DEF IInv

\* ReadData returns the next words of its board, each once and in the order
\* written, for every memory size and any number of turns around it.
THEOREM ReadsOnceInOrder == Spec => []ReadOnceInOrder
<1>1. IInv => ReadOnceInOrder
  BY DEF IInv, DataInv
<1> QED
  BY <1>1, InductiveInvariant, PTL
-----------------------------------------------------------------------------
(* The raw file and the fresh events.                                      *)

\* The last event handed to the raw file.
LastSaved(b) == IF saved[b] = << >> THEN savedUpTo[b] ELSE saved[b][Len(saved[b])]

\* The words of a board that have been read and not yet handed over.
Pending(b) == IF pc = "second" /\ b = board THEN Len(pData) ELSE 0

\* What is read next has not been handed over.
RawInv ==
  /\ pc \in {"wait", "sample", "read"} => pData = << >>
  /\ \A b \in BoardSet : LastSaved(b) + Pending(b) <= resetAt[b] + taken[b]
  /\ RawFileInOrder

\* The events of a board that it has written since the burst began.
Fresh(data) == \A i \in DOMAIN data : data[i].board = board /\ data[i].id > since

\* The thread measures in a measurement, and what it reads is not older than
\* the burst.
BurstInv ==
  /\ pc \in {"group", "burst", "attempt", "wait", "check", "fill"} => mode = "measure"
  /\ pc = "attempt" => since <= written[board]
  /\ mode = "measure" /\ pc \in {"wait", "sample", "read", "second", "check"} => since <= resetAt[board]
  /\ pc \in {"sample", "read", "second", "decode", "check"} => Len(pData) <= taken[board]
  /\ pc = "fill" => pData \in {decodedEvents, << >>} /\ Fresh(decodedEvents)
  /\ NoStaleEvents

\* What a readout has read last is known.
LEMMA LastSavedType ==
  ASSUME ReadDataTypeOK, NEW b \in BoardSet
  PROVE  /\ LastSaved(b) \in Nat /\ Pending(b) \in Nat /\ Len(pData) \in Nat
         /\ saved[b] \in Seq(Nat) /\ resetAt[b] \in Nat /\ taken[b] \in Nat
<1>1. saved[b] \in Seq(Nat) /\ savedUpTo[b] \in Nat /\ pData \in Seq(Word)
      /\ resetAt[b] \in Nat /\ taken[b] \in Nat
  BY DEF ReadDataTypeOK
<1>2. saved[b] # << >> => saved[b][Len(saved[b])] \in Nat
  BY <1>1
<1>3. Len(pData) \in Nat
  BY <1>1
<1> QED
  BY <1>1, <1>2, <1>3 DEF LastSaved, Pending

\* Data that go on behind what was handed over last keep the raw file in order.
LEMMA SavedInOrder ==
  ASSUME NEW data, NEW n \in Nat, DOMAIN data = 1 .. n, Len(data) = n, NEW first \in Int,
         \A i \in 1 .. n : data[i].id = first + i,
         NEW b \in BoardSet, b = board, ReadDataTypeOK, RawFileInOrder,
         LastSaved(b) <= first, SaveToFile(data)
  PROVE  /\ RawFileInOrder'
         /\ LastSaved(b)' \in Int /\ LastSaved(b)' <= first + n
         /\ \A c \in BoardSet : c # b => LastSaved(c)' = LastSaved(c)
<1>1. LastSaved(b) \in Nat
  BY LastSavedType
<1>2. CASE data = << >>
  <2>1. UNCHANGED <<saved, savedUpTo>>
    BY <1>2 DEF SaveToFile
  <2> QED
    BY <1>1, <2>1 DEF RawFileInOrder, LastSaved
<1>3. CASE data # << >>
  <2> DEFINE ids == [i \in 1 .. n |-> data[i].id]
  <2>1. /\ saved' = [saved EXCEPT ![b] = ids]
        /\ savedUpTo' = [savedUpTo EXCEPT ![b] = LastSaved(b)]
    BY <1>3 DEF SaveToFile, LastSaved
  <2>2. saved \in [BoardSet -> Seq(Nat)] /\ savedUpTo \in [BoardSet -> Nat]
    BY DEF ReadDataTypeOK
  <2>3. saved'[b] = ids /\ savedUpTo'[b] = LastSaved(b)
    BY <2>1, <2>2
  <2>4. \A c \in BoardSet : c # b => saved'[c] = saved[c] /\ savedUpTo'[c] = savedUpTo[c]
    BY <2>1, <2>2
  <2>5. DOMAIN ids = 1 .. n /\ \A i \in 1 .. n : ids[i] = first + i
    OBVIOUS
  <2>6. Len(ids) = n
    BY <2>5
  <2>7. ASSUME NEW i \in 1 .. n
        PROVE  ids[i] > (IF i = 1 THEN LastSaved(b) ELSE ids[i - 1])
    <3>1. CASE i = 1
      <4>1. ids[i] = first + 1
        BY <2>5, <3>1
      <4> HIDE DEF ids
      <4> QED
        BY <1>1, <3>1, <4>1
    <3>2. CASE i # 1
      <4>1. i - 1 \in 1 .. n
        BY <3>2
      <4>2. ids[i - 1] = first + (i - 1) /\ ids[i] = first + i
        BY <2>5, <4>1
      <4> HIDE DEF ids
      <4> QED
        BY <3>2, <4>2
    <3> QED
      BY <3>1, <3>2
  <2> HIDE DEF ids
  <2>8. RawFileInOrder'
    <3>1. ASSUME NEW c \in BoardSet, NEW i \in DOMAIN saved'[c]
          PROVE  saved'[c][i] > (IF i = 1 THEN savedUpTo'[c] ELSE saved'[c][i - 1])
      <4>1. CASE c = b
        BY <2>3, <2>5, <2>7, <4>1
      <4>2. CASE c # b
        BY <2>4, <4>2 DEF RawFileInOrder
      <4> QED
        BY <4>1, <4>2
    <3> QED
      BY <3>1 DEF RawFileInOrder
  <2>9. LastSaved(b)' \in Int /\ LastSaved(b)' <= first + n
    <3>1. CASE ids = << >>
      BY <1>1, <2>3, <3>1 DEF LastSaved
    <3>2. CASE ids # << >>
      <4>1. n # 0
        BY <2>5, <3>2
      <4>2. n \in 1 .. n
        BY <4>1
      <4>3. ids[n] = first + n
        BY <2>5, <4>2
      <4> QED
        BY <2>3, <2>6, <3>2, <4>3 DEF LastSaved
    <3> QED
      BY <3>1, <3>2
  <2>10. \A c \in BoardSet : c # b => LastSaved(c)' = LastSaved(c)
    BY <2>4 DEF LastSaved
  <2> QED
    BY <2>8, <2>9, <2>10
<1> QED
  BY <1>2, <1>3

\* What is handed to the raw file next is newer than what it has.
LEMMA RawStep ==
  ASSUME IInv, RawInv, [Next]_vars PROVE RawInv'
<1>1. /\ ReadDataTypeOK /\ FirmwareTypeOK /\ ThreadTypeOK /\ DataInv /\ board \in BoardSet
      /\ FIFOsize \in Nat \ {0}
  BY BoardIsABoard, ReadoutAssumption DEF IInv, TypeOK
<1>2. IInv' /\ ReadDataTypeOK'
  BY IInvStep DEF IInv, TypeOK
<1>3. \A b \in BoardSet : /\ LastSaved(b) \in Nat /\ Pending(b) \in Nat
                          /\ resetAt[b] \in Nat /\ taken[b] \in Nat
  BY <1>1, LastSavedType
<1>4. CASE \/ (\E b \in BoardSet : Trigger(b) \/ WriteEvent(b)) \/ Done \/ UNCHANGED vars
  <2>1. UNCHANGED <<readData, resetAt, pc, boardIndex>>
    BY <1>4 DEF Trigger, WriteEvent, Done, vars, progress
  <2> QED
    BY <2>1 DEF RawInv, RawFileInOrder, LastSaved, Pending, board, readData
<1>5. CASE \/ SampleWordsToRead \/ BeginCycle \/ EndRun \/ CallReadData \/ DecodeAndFill \/ NextBoard
           \/ BeginGroup \/ BeginBurst \/ WaitForTriggers \/ CheckReadout \/ FillGroup
  <2>1. UNCHANGED <<saved, savedUpTo, resetAt, taken>>
    BY <1>5 DEF SampleWordsToRead, BeginCycle, EndRun, CallReadData, DecodeAndFill, NextBoard,
         BeginGroup, BeginBurst, WaitForTriggers, CheckReadout, FillGroup, readData
  <2>2. pc' # "second" /\ (pc' \in {"wait", "sample", "read"} => pData' = << >>)
    BY <1>5 DEF RawInv, SampleWordsToRead, BeginCycle, EndRun, CallReadData, DecodeAndFill, NextBoard,
         BeginGroup, BeginBurst, WaitForTriggers, CheckReadout, FillGroup
  <2>3. \A b \in BoardSet : LastSaved(b)' = LastSaved(b) /\ Pending(b)' = 0
    BY <2>1, <2>2 DEF LastSaved, Pending
  <2>4. \A b \in BoardSet : LastSaved(b) + 0 <= resetAt[b] + taken[b]
    BY <1>3 DEF RawInv
  <2> QED
    BY <2>1, <2>2, <2>3, <2>4 DEF RawInv, RawFileInOrder
<1>6. CASE ReadFirstBlock
  <2>1. /\ pc = "read" /\ pc' = "second" /\ ReadBlock(ddr3Offset[board], ToTheEnd)
        /\ UNCHANGED <<saved, savedUpTo, resetAt, boardIndex>>
    BY <1>6 DEF ReadFirstBlock, progress
  <2>2. ddr3Offset[board] \in Nat /\ ToTheEnd \in Nat /\ ddr3Offset[board] + ToTheEnd <= FIFOsize
    BY <1>1 DEF ReadDataTypeOK, ToTheEnd
  <2> DEFINE block == Block(ddr3Offset[board], ToTheEnd)
  <2>3. block \in Seq(Word) /\ Len(block) = ToTheEnd
    BY <1>1, <2>2, BlockType
  <2>4. pData = << >> /\ pData' = pData \o block /\ taken' = [taken EXCEPT ![board] = @ + ToTheEnd]
    BY <2>1 DEF ReadBlock, RawInv
  <2>5. Len(pData') = ToTheEnd
    <3> HIDE DEF block
    <3> QED
      BY <2>3, <2>4
  <2>6. board' = board /\ \A b \in BoardSet : LastSaved(b)' = LastSaved(b)
    BY <2>1 DEF board, LastSaved
  <2>7. /\ taken'[board] = taken[board] + ToTheEnd
        /\ \A b \in BoardSet : b # board => taken'[b] = taken[b]
    BY <1>1, <2>4 DEF ReadDataTypeOK
  <2>8. ASSUME NEW b \in BoardSet PROVE LastSaved(b)' + Pending(b)' <= resetAt'[b] + taken'[b]
    <3>1. LastSaved(b) <= resetAt[b] + taken[b]
      BY <1>3, <2>1 DEF RawInv, Pending
    <3>2. Pending(b)' = IF b = board THEN ToTheEnd ELSE 0
      BY <2>1, <2>5, <2>6 DEF Pending
    <3> QED
      BY <1>3, <2>1, <2>2, <2>6, <2>7, <3>1, <3>2
  <2> QED
    BY <2>1, <2>8 DEF RawInv, RawFileInOrder
<1>7. CASE FinishReadData
  <2>1. /\ pc \in {"read", "second"} /\ pc' \in {"check", "decode"} /\ SaveToFile(pData')
        /\ UNCHANGED <<resetAt, boardIndex>> /\ board' = board
    BY <1>7 DEF FinishReadData, ReadLastBlock, progress, board
  <2>2. /\ ReadSlot(board) \in Nat /\ LastSize \in Nat /\ ReadSlot(board) + LastSize <= FIFOsize
        /\ ReadBlock(ReadSlot(board), LastSize)
    BY <1>7, LastBlock DEF FinishReadData
  <2> DEFINE block == Block(ReadSlot(board), LastSize)
             n == Len(pData')
             first == resetAt[board] + taken'[board] - n
  <2>3. block \in Seq(Word) /\ Len(block) = LastSize
    BY <1>1, <2>2, BlockType
  <2>4. pData' = pData \o block /\ taken' = [taken EXCEPT ![board] = @ + LastSize]
    BY <2>2 DEF ReadBlock
  <2>5. /\ Len(pData) \in Nat /\ n = Len(pData) + LastSize
        /\ DOMAIN pData' = 1 .. n
    <3>1. pData \in Seq(Word)
      BY <1>1 DEF ReadDataTypeOK
    <3> HIDE DEF block
    <3>2. pData \o block \in Seq(Word) /\ Len(pData \o block) = Len(pData) + Len(block)
      BY <2>3, <3>1
    <3>3. Len(pData') = Len(pData) + LastSize /\ DOMAIN pData' = 1 .. Len(pData')
      BY <2>3, <2>4, <3>2
    <3> QED
      BY <3>1, <3>3
  <2>6. /\ taken'[board] = taken[board] + LastSize
        /\ \A b \in BoardSet : b # board => taken'[b] = taken[b]
    BY <1>1, <2>4 DEF ReadDataTypeOK
  <2>7. first = resetAt[board] + taken[board] - Len(pData)
    BY <1>1, <1>3, <2>2, <2>5, <2>6
  <2>8. LastSaved(board) <= first
    <3>1. Pending(board) = Len(pData)
      BY <2>1 DEF RawInv, Pending
    <3>2. LastSaved(board) + Len(pData) <= resetAt[board] + taken[board]
      BY <1>1, <3>1 DEF RawInv
    <3> HIDE DEF first, n
    <3> QED
      BY <1>1, <1>3, <2>5, <2>7, <3>2
  <2>9. \A i \in 1 .. n : pData'[i].id = first + i
    BY <1>2, <2>1, <2>5 DEF IInv, DataInv, ReadOnceInOrder
  <2>10. first \in Int /\ n \in Nat /\ first + n = resetAt[board] + taken'[board]
    <3>1. n \in Nat
      BY <2>2, <2>5
    <3>2. resetAt[board] \in Nat /\ taken'[board] \in Nat
      BY <1>1, <1>3, <2>2, <2>6
    <3> HIDE DEF n
    <3> QED
      BY <3>1, <3>2
  <2> PICK a \in BoardSet : a = board
    BY <1>1
  <2>11. /\ RawFileInOrder' /\ LastSaved(a)' \in Int /\ LastSaved(a)' <= first + n
         /\ \A c \in BoardSet : c # a => LastSaved(c)' = LastSaved(c)
    <3>1. RawFileInOrder
      BY DEF RawInv
    <3> HIDE DEF first, n
    <3> QED
      BY <1>1, <2>1, <2>5, <2>8, <2>9, <2>10, <3>1, SavedInOrder DEF n
  <2>12. ASSUME NEW b \in BoardSet PROVE LastSaved(b)' + Pending(b)' <= resetAt'[b] + taken'[b]
    <3>1. Pending(b)' = 0
      BY <2>1 DEF Pending
    <3>2. LastSaved(b)' \in Int
      BY <1>3, <2>11
    <3>3. CASE b = a
      <4> HIDE DEF first, n
      <4> QED
        BY <2>1, <2>10, <2>11, <3>1, <3>2, <3>3
    <3>4. CASE b # a
      <4>1. LastSaved(b) <= resetAt[b] + taken[b]
        BY <1>3, <3>4 DEF RawInv, Pending
      <4> QED
        BY <2>1, <2>6, <2>11, <3>1, <3>2, <3>4, <4>1
    <3> QED
      BY <3>3, <3>4
  <2> QED
    BY <2>1, <2>11, <2>12 DEF RawInv
<1>8. CASE BeginAttempt
  <2>1. /\ pc' = "wait" /\ pData' = << >> /\ UNCHANGED <<saved, savedUpTo, boardIndex>>
        /\ resetAt' = [resetAt EXCEPT ![board] = written[board]]
        /\ taken' = [taken EXCEPT ![board] = 0]
    BY <1>8 DEF BeginAttempt, ClearedData, Start
  <2>2. \A b \in BoardSet : LastSaved(b)' = LastSaved(b) /\ Pending(b)' = 0
    BY <2>1 DEF LastSaved, Pending
  <2>3. ASSUME NEW b \in BoardSet PROVE resetAt[b] + taken[b] <= resetAt'[b] + taken'[b]
    <3>1. CASE b = board
      <4>1. written[b] = resetAt[b] + taken[b] + wordsToRead[b]
        BY DEF IInv, RingInv
      <4>2. wordsToRead[b] \in Nat
        BY <1>1 DEF FirmwareTypeOK
      <4>3. resetAt'[b] = written[b] /\ taken'[b] = 0
        BY <1>1, <2>1, <3>1 DEF ReadDataTypeOK
      <4> QED
        BY <1>3, <4>1, <4>2, <4>3
    <3>2. CASE b # board
      <4>1. resetAt'[b] = resetAt[b] /\ taken'[b] = taken[b]
        BY <1>1, <2>1, <3>2 DEF ReadDataTypeOK
      <4> QED
        BY <1>3, <4>1
    <3> QED
      BY <3>1, <3>2
  <2>4. ASSUME NEW b \in BoardSet PROVE LastSaved(b)' + Pending(b)' <= resetAt'[b] + taken'[b]
    <3>1. resetAt'[b] \in Nat /\ taken'[b] \in Nat
      BY <1>2, LastSavedType DEF ReadDataTypeOK
    <3>2. LastSaved(b) <= resetAt[b] + taken[b]
      BY <1>3, <1>8 DEF RawInv
    <3> QED
      BY <1>3, <2>2, <2>3, <3>1, <3>2
  <2> QED
    BY <2>1, <2>4 DEF RawInv, RawFileInOrder
<1> QED
  BY <1>4, <1>5, <1>6, <1>7, <1>8 DEF Next, Thread, Physics, Measure

\* Nothing that is read is older than the burst it is read for.
LEMMA BurstStep ==
  ASSUME IInv, RawInv, BurstInv, [Next]_vars PROVE BurstInv'
<1>1. /\ ReadDataTypeOK /\ FirmwareTypeOK /\ ThreadTypeOK /\ EventsTypeOK /\ DriverInv
      /\ board \in BoardSet /\ FIFOsize \in Nat \ {0}
  BY BoardIsABoard, ReadoutAssumption DEF IInv, TypeOK
<1>2. /\ resetAt[board] \in Nat /\ taken[board] \in Nat /\ written[board] \in Nat
      /\ since \in Nat /\ pData \in Seq(Word) /\ Len(pData) \in Nat
  BY <1>1, LastSavedType DEF ReadDataTypeOK, FirmwareTypeOK, ThreadTypeOK
<1>3. ASSUME NEW b \in BoardSet, Trigger(b) \/ WriteEvent(b) PROVE BurstInv'
  <2>1. UNCHANGED <<readData, events, progress, resetAt, mode, pc>>
    BY <1>3 DEF Trigger, WriteEvent
  <2>2. written'[board] \in {written[board], written[board] + 1}
    <3>1. CASE Trigger(b)
      BY <3>1 DEF Trigger
    <3>2. CASE WriteEvent(b)
      <4>1. written' = [written EXCEPT ![b] = @ + 1] /\ written \in [BoardSet -> Nat]
        BY <1>1, <3>2 DEF WriteEvent, FirmwareTypeOK
      <4> QED
        BY <1>1, <4>1
    <3> QED
      BY <1>3, <3>1, <3>2
  <2>3. pc = "attempt" => since <= written'[board]
    BY <1>2, <2>2 DEF BurstInv
  <2> QED
    BY <2>1, <2>3 DEF BurstInv, NoStaleEvents, Fresh, board, readData, events, progress
<1>4. CASE Done \/ UNCHANGED vars
  BY <1>4 DEF BurstInv, NoStaleEvents, Fresh, board, Done, vars, readData, events, progress, firmware
<1>5. CASE SampleWordsToRead
  BY <1>5 DEF BurstInv, NoStaleEvents, board, SampleWordsToRead, progress
<1>6. CASE BeginCycle \/ EndRun \/ DecodeAndFill \/ NextBoard
  <2>1. pc' \in {"call", "done", "next", "cycle"}
    BY <1>6 DEF BeginCycle, EndRun, DecodeAndFill, NextBoard
  <2> QED
    BY <2>1 DEF BurstInv, NoStaleEvents
<1>7. CASE CallReadData
  <2>1. /\ mode = "physics" /\ UNCHANGED <<mode, taken, boardIndex>>
        /\ pc' = "next" \/ (pc' = "sample" /\ pData' = << >>)
    BY <1>1, <1>7 DEF CallReadData, DriverInv, progress
  <2> QED
    BY <1>2, <2>1 DEF BurstInv, NoStaleEvents, board
<1>8. CASE ReadFirstBlock
  <2>1. /\ pc = "read" /\ pc' = "second" /\ ReadBlock(ddr3Offset[board], ToTheEnd)
        /\ pData = << >> /\ UNCHANGED <<resetAt, boardIndex, since, mode>> /\ board' = board
    BY <1>8 DEF ReadFirstBlock, progress, RawInv, board
  <2>2. ddr3Offset[board] \in Nat /\ ToTheEnd \in Nat /\ ddr3Offset[board] + ToTheEnd <= FIFOsize
    BY <1>1 DEF ReadDataTypeOK, ToTheEnd
  <2> DEFINE block == Block(ddr3Offset[board], ToTheEnd)
  <2>3. block \in Seq(Word) /\ Len(block) = ToTheEnd
    BY <1>1, <2>2, BlockType
  <2>4. Len(pData') = ToTheEnd
    <3>1. pData' = << >> \o block
      BY <2>1 DEF ReadBlock
    <3> HIDE DEF block
    <3> QED
      BY <2>3, <3>1
  <2>5. taken'[board] = taken[board] + ToTheEnd
    BY <1>1, <2>1 DEF ReadBlock, ReadDataTypeOK
  <2>6. Len(pData') <= taken'[board]
    BY <1>2, <2>2, <2>4, <2>5
  <2> QED
    BY <2>1, <2>6 DEF BurstInv, NoStaleEvents
<1>9. CASE FinishReadData
  <2>1. /\ pc \in {"read", "second"} /\ pc' = (IF mode = "measure" THEN "check" ELSE "decode")
        /\ UNCHANGED <<resetAt, boardIndex, since, mode>> /\ board' = board
    BY <1>9 DEF FinishReadData, ReadLastBlock, progress, board
  <2>2. /\ ReadSlot(board) \in Nat /\ LastSize \in Nat /\ ReadSlot(board) + LastSize <= FIFOsize
        /\ ReadBlock(ReadSlot(board), LastSize)
    BY <1>9, LastBlock DEF FinishReadData
  <2> DEFINE block == Block(ReadSlot(board), LastSize)
  <2>3. block \in Seq(Word) /\ Len(block) = LastSize
    BY <1>1, <2>2, BlockType
  <2>4. Len(pData') = Len(pData) + LastSize
    <3>1. pData' = pData \o block
      BY <2>2 DEF ReadBlock
    <3> HIDE DEF block
    <3>2. Len(pData \o block) = Len(pData) + Len(block)
      BY <1>2, <2>3
    <3> QED
      BY <2>3, <3>1, <3>2
  <2>5. taken'[board] = taken[board] + LastSize
    BY <1>1, <2>2 DEF ReadBlock, ReadDataTypeOK
  <2>6. Len(pData) <= taken[board]
    BY <1>2, <2>1 DEF BurstInv
  <2>7. Len(pData') <= taken'[board]
    BY <1>2, <2>2, <2>4, <2>5, <2>6
  <2> QED
    BY <1>1, <2>1, <2>7 DEF BurstInv, NoStaleEvents, ThreadTypeOK
<1>10. CASE BeginGroup
  <2>1. /\ pc = "group" /\ pc' \in {"group", "burst", "done"} /\ UNCHANGED mode
        /\ pc' = "burst" => burstNumbers' = NumberOfBursts
    BY <1>10 DEF BeginGroup
  <2> QED
    BY <2>1, BurstNumbersType DEF BurstInv, NoStaleEvents
<1>11. CASE BeginBurst
  <2>1. /\ pc = "burst" /\ UNCHANGED <<mode, written, boardIndex>>
        /\ pc' = "group" \/ (pc' = "attempt" /\ since' = written[board])
    BY <1>11 DEF BeginBurst
  <2> QED
    BY <1>2, <2>1 DEF BurstInv, NoStaleEvents, board
<1>12. CASE BeginAttempt
  <2>1. /\ pc = "attempt" /\ pc' = "wait" /\ UNCHANGED <<mode, since, boardIndex>>
        /\ resetAt' = [resetAt EXCEPT ![board] = written[board]]
    BY <1>12 DEF BeginAttempt, Start
  <2>2. resetAt'[board] = written[board]
    BY <1>1, <2>1 DEF ReadDataTypeOK
  <2> QED
    BY <2>1, <2>2 DEF BurstInv, NoStaleEvents, board
<1>13. CASE WaitForTriggers
  <2>1. /\ pc = "wait" /\ pc' \in {"wait", "sample"} /\ pData = << >>
        /\ UNCHANGED <<mode, since, boardIndex, resetAt, pData, taken>>
    BY <1>13 DEF WaitForTriggers, progress, RawInv
  <2> QED
    BY <1>2, <2>1 DEF BurstInv, NoStaleEvents, board
<1>14. CASE CheckReadout
  <2>1. /\ pc = "check" /\ pc' \in {"attempt", "fill"} /\ decodedEvents' = pData
        /\ pData' \in {pData, << >>} /\ mode = "measure"
        /\ UNCHANGED <<mode, since, boardIndex, written, resetAt>>
    BY <1>14 DEF CheckReadout, DecodedAnew, BurstInv, progress
  <2>2. since <= resetAt[board] /\ Len(pData) <= taken[board]
    BY <2>1 DEF BurstInv
  <2>3. written[board] = resetAt[board] + taken[board] + wordsToRead[board] /\ wordsToRead[board] \in Nat
    BY <1>1 DEF IInv, RingInv, FirmwareTypeOK
  <2>4. since <= written[board]
    BY <1>2, <2>2, <2>3
  <2>5. ASSUME NEW i \in DOMAIN pData PROVE pData[i].board = board /\ pData[i].id > since
    <3>1. pData[i].board = board /\ pData[i].id = resetAt[board] + taken[board] - Len(pData) + i
      BY <2>1 DEF IInv, DataInv, ReadOnceInOrder
    <3>2. i \in Nat /\ i >= 1
      BY <1>2
    <3> QED
      BY <1>2, <2>2, <3>1, <3>2
  <2> QED
    BY <2>1, <2>4, <2>5 DEF BurstInv, NoStaleEvents, Fresh, board
<1>15. CASE FillGroup
  <2>1. /\ pc = "fill" /\ pc' = "burst" /\ fEventList' = Decode(pData)
        /\ UNCHANGED <<mode, since, boardIndex>>
    BY <1>15 DEF FillGroup
  <2>2. Decode(pData) = decodedEvents /\ Fresh(decodedEvents)
    BY <2>1 DEF BurstInv, Decode
  <2> QED
    BY <2>1, <2>2 DEF BurstInv, NoStaleEvents, Fresh, board
<1> QED
  BY <1>3, <1>4, <1>5, <1>6, <1>7, <1>8, <1>9, <1>10, <1>11, <1>12, <1>13, <1>14, <1>15
     DEF Next, Thread, Physics, Measure

\* A run starts with an empty burst and nothing in the raw file.
LEMMA InitBurst == Init => RawInv /\ BurstInv
<1> SUFFICES ASSUME Init PROVE RawInv /\ BurstInv
  OBVIOUS
<1>1. \A b \in BoardSet : LastSaved(b) = 0 /\ Pending(b) = 0 /\ resetAt[b] = 0 /\ taken[b] = 0
  BY DEF Init, LastSaved, Pending
<1>2. RawInv
  BY <1>1 DEF Init, RawInv, RawFileInOrder
<1>3. BurstInv
  BY BurstNumbersType DEF Init, BurstInv, NoStaleEvents, Fresh
<1> QED
  BY <1>2, <1>3

\* The invariants of the readout, of the raw file and of the bursts.
LEMMA BurstInvariant == Spec => [](IInv /\ RawInv /\ BurstInv)
<1>1. IInv /\ RawInv /\ BurstInv /\ [Next]_vars => (IInv /\ RawInv /\ BurstInv)'
  BY IInvStep, RawStep, BurstStep
<1> QED
  BY <1>1, InitIInv, InitBurst, PTL DEF Spec

\* No event is handed to the raw file twice and none out of order, for any
\* number of boards, bursts and repetitions.
THEOREM RawFileStaysInOrder == Spec => []RawFileInOrder
<1>1. RawInv => RawFileInOrder
  BY DEF RawInv
<1> QED
  BY <1>1, BurstInvariant, PTL

\* The events filled for a burst were written by its board after it had begun.
THEOREM EventsAreFresh == Spec => []NoStaleEvents
<1>1. BurstInv => NoStaleEvents
  BY DEF BurstInv
<1> QED
  BY <1>1, BurstInvariant, PTL
-----------------------------------------------------------------------------
(* A physics run with one board.                                           *)

\* The words read and not yet filled.
Unfilled == IF pc \in {"second", "decode"} THEN Len(pData) ELSE 0

\* The events of the cycle that are filled and not yet counted.
Uncounted == IF pc = "next" THEN Len(decodedEvents) ELSE 0

RunInv ==
  mode = "physics" /\ Len(Boards) = 1 =>
    /\ resetAt[board] = 0
    /\ pc \in {"call", "sample", "read", "second", "decode"} => decodedEvents = << >>
    /\ Len(filled[board]) + Unfilled = taken[board]
    /\ \A i \in DOMAIN filled[board] : filled[board][i].id = i
    /\ numberOfEventsPerRun + Uncounted = Len(filled[board])

\* The mode is fixed for a behaviour.
LEMMA ModeStep ==
  ASSUME [Next]_vars PROVE UNCHANGED <<mode, silentRunning>>
BY DEF Next, Thread, Physics, Measure, Trigger, WriteEvent, SampleWordsToRead, ReadFirstBlock,
       FinishReadData, BeginCycle, EndRun, CallReadData, DecodeAndFill, NextBoard, BeginGroup,
       BeginBurst, BeginAttempt, WaitForTriggers, CheckReadout, FillGroup, Done, vars

\* Reading a block appends its words and takes them.
LEMMA ReadingAppends ==
  ASSUME IInv, NEW from \in Nat, NEW size \in Nat, from + size <= FIFOsize, ReadBlock(from, size)
  PROVE  Len(pData') = Len(pData) + size /\ taken'[board] = taken[board] + size
<1>1. /\ FirmwareTypeOK /\ ThreadTypeOK /\ board \in BoardSet
      /\ pData \in Seq(Word) /\ taken \in [BoardSet -> Nat]
  BY BoardIsABoard DEF IInv, TypeOK, ReadDataTypeOK
<1> DEFINE block == Block(from, size)
<1>2. block \in Seq(Word) /\ Len(block) = size
  BY <1>1, BlockType
<1>3. pData' = pData \o block /\ taken' = [taken EXCEPT ![board] = @ + size]
  BY DEF ReadBlock
<1> HIDE DEF block
<1>4. Len(pData \o block) = Len(pData) + Len(block)
  BY <1>1, <1>2
<1> QED
  BY <1>1, <1>2, <1>3, <1>4

\* In a physics run with one board every event read is filled and counted.
LEMMA RunStep ==
  ASSUME IInv, RawInv, BurstInv, RunInv, [Next]_vars PROVE RunInv'
<1> SUFFICES ASSUME mode' = "physics", Len(Boards) = 1 PROVE RunInv'
  BY DEF RunInv
<1>0. mode = "physics"
  BY ModeStep
<1>1. /\ ReadDataTypeOK /\ FirmwareTypeOK /\ ThreadTypeOK /\ EventsTypeOK /\ DriverInv
      /\ board \in BoardSet /\ FIFOsize \in Nat \ {0}
  BY BoardIsABoard, ReadoutAssumption DEF IInv, TypeOK
<1>2. boardIndex = 1 /\ boardIndex' = 1 /\ board' = board
  <2>1. DOMAIN Boards = 1 .. 1
    BY ReadoutAssumption
  <2>2. ThreadTypeOK'
    BY IInvStep DEF IInv, TypeOK
  <2> QED
    BY <1>1, <2>1, <2>2 DEF ThreadTypeOK, board
<1>3. pc \notin {"group", "burst", "attempt", "wait", "check", "fill"}
  BY <1>0 DEF BurstInv
<1>4. /\ resetAt[board] = 0
      /\ pc \in {"call", "sample", "read", "second", "decode"} => decodedEvents = << >>
      /\ Len(filled[board]) + Unfilled = taken[board]
      /\ \A i \in DOMAIN filled[board] : filled[board][i].id = i
      /\ numberOfEventsPerRun + Uncounted = Len(filled[board])
  BY <1>0 DEF RunInv
<1>5. /\ taken[board] \in Nat /\ pData \in Seq(Word) /\ Len(pData) \in Nat
      /\ filled[board] \in Seq(Word) /\ Len(filled[board]) \in Nat
      /\ decodedEvents \in Seq(Word) /\ Len(decodedEvents) \in Nat
      /\ numberOfEventsPerRun \in Nat
  BY <1>1 DEF ReadDataTypeOK, EventsTypeOK
<1> DEFINE Kept == UNCHANGED <<resetAt, filled, numberOfEventsPerRun>>
<1>6. ASSUME Kept, Unfilled' = Unfilled, taken' = taken, Uncounted' = Uncounted,
             pc' \in {"call", "sample", "read", "second", "decode"} => decodedEvents' = << >>
      PROVE  RunInv'
  BY <1>2, <1>4, <1>6 DEF RunInv
<1>7. CASE (\E b \in BoardSet : Trigger(b) \/ WriteEvent(b)) \/ Done \/ UNCHANGED vars
  <2>1. UNCHANGED <<readData, resetAt, filled, counters, events, pc>>
    BY <1>7 DEF Trigger, WriteEvent, Done, vars, filling
  <2> QED
    BY <1>4, <1>6, <2>1 DEF readData, counters, events, Unfilled, Uncounted
<1>8. CASE SampleWordsToRead \/ EndRun
  <2>1. /\ UNCHANGED <<pData, taken, resetAt, filled, counters, events>>
        /\ pc \in {"sample", "cycle"} /\ pc' \in {"sample", "read", "done"}
        /\ pc' \in {"sample", "read"} => pc = "sample"
    BY <1>8 DEF SampleWordsToRead, EndRun, filling, readData
  <2> QED
    BY <1>4, <1>6, <2>1 DEF counters, events, Unfilled, Uncounted
<1>9. CASE BeginCycle \/ CallReadData
  <2>1. /\ UNCHANGED <<taken, resetAt, filled, counters>> /\ pc \in {"cycle", "call"}
        /\ decodedEvents' = << >> /\ pc' \in {"call", "next", "sample"}
    BY <1>4, <1>9 DEF BeginCycle, CallReadData, filling, readData, events
  <2>2. Unfilled = 0 /\ Unfilled' = 0 /\ Uncounted = 0 /\ Uncounted' = 0
    BY <2>1 DEF Unfilled, Uncounted
  <2> QED
    BY <1>6, <2>1, <2>2 DEF counters
<1>10. CASE ReadFirstBlock \/ FinishReadData
  <2>1. /\ UNCHANGED <<resetAt, filled, counters, events>>
        /\ pc \in {"read", "second"} /\ pc' \in {"second", "decode"}
    BY <1>0, <1>10 DEF ReadFirstBlock, FinishReadData, ReadLastBlock, filling
  <2>2. PICK size \in Nat : Len(pData') = Len(pData) + size /\ taken'[board] = taken[board] + size
    <3>1. CASE ReadFirstBlock
      <4>1. ddr3Offset[board] \in Nat /\ ToTheEnd \in Nat /\ ddr3Offset[board] + ToTheEnd <= FIFOsize
        BY <1>1 DEF ReadDataTypeOK, ToTheEnd
      <4> QED
        BY <3>1, <4>1, ReadingAppends DEF ReadFirstBlock
    <3>2. CASE FinishReadData
      BY <3>2, LastBlock, ReadingAppends DEF FinishReadData
    <3> QED
      BY <1>10, <3>1, <3>2
  <2>3. Unfilled = Len(pData) /\ Unfilled' = Len(pData')
    BY <2>1 DEF RawInv, Unfilled
  <2>4. Len(filled[board]) + Unfilled' = taken'[board]
    <3>1. Unfilled' = Len(pData) + size
      BY <2>2, <2>3
    <3>2. Len(filled[board]) + Len(pData) = taken[board]
      BY <1>4, <2>3
    <3>3. taken'[board] = taken[board] + size
      BY <2>2
    <3> DEFINE f == Len(filled[board])
               p == Len(pData)
               t == taken[board]
    <3>4. f \in Nat /\ p \in Nat /\ t \in Nat
      BY <1>5
    <3>5. Unfilled' = p + size /\ f + p = t /\ taken'[board] = t + size
      BY <3>1, <3>2, <3>3
    <3> HIDE DEF f, p, t
    <3>6. f + Unfilled' = taken'[board]
      BY <3>4, <3>5
    <3> QED
      BY <3>6 DEF f
  <2>5. Uncounted = 0 /\ Uncounted' = 0
    BY <2>1 DEF Uncounted
  <2> QED
    BY <1>2, <1>4, <2>1, <2>4, <2>5 DEF RunInv, counters, events
<1>11. CASE DecodeAndFill
  <2>1. /\ pc = "decode" /\ pc' = "next" /\ decodedEvents = << >>
        /\ UNCHANGED <<taken, resetAt, counters>>
    BY <1>4, <1>11 DEF DecodeAndFill
  <2>2. Len(filled[board]) + Len(pData) = taken[board] /\ numberOfEventsPerRun = Len(filled[board])
    BY <1>4, <1>5, <2>1 DEF Unfilled, Uncounted
  <2>3. CASE pData = << >>
    <3>1. UNCHANGED <<filled, decodedEvents>>
      BY <1>11, <2>3 DEF DecodeAndFill, events
    <3>2. Unfilled = 0 /\ Unfilled' = 0 /\ Uncounted = 0 /\ Uncounted' = 0
      BY <2>1, <2>3, <3>1 DEF Unfilled, Uncounted
    <3> QED
      BY <1>6, <2>1, <3>1, <3>2 DEF counters
  <2>4. CASE pData # << >>
    <3>1. decodedEvents' = pData /\ filled' = [filled EXCEPT ![board] = @ \o pData]
      BY <1>11, <2>1, <2>4 DEF DecodeAndFill, Decode
    <3>2. filled'[board] = filled[board] \o pData
      BY <1>1, <3>1 DEF EventsTypeOK
    <3> DEFINE f == filled[board]
    <3>3. /\ Len(f \o pData) = Len(f) + Len(pData) /\ DOMAIN (f \o pData) = 1 .. Len(f) + Len(pData)
          /\ \A i \in 1 .. Len(f) + Len(pData) :
               (f \o pData)[i] = IF i <= Len(f) THEN f[i] ELSE pData[i - Len(f)]
      <4> HIDE DEF f
      <4> QED
        BY <1>5 DEF f
    <3>4. \A i \in DOMAIN pData : pData[i].id = Len(f) + i
      <4>1. \A i \in DOMAIN pData : pData[i].id = 0 + taken[board] - Len(pData) + i
        BY <1>4, <2>1 DEF IInv, DataInv, ReadOnceInOrder
      <4> QED
        BY <1>5, <2>2, <4>1
    <3>5. ASSUME NEW i \in DOMAIN (f \o pData) PROVE (f \o pData)[i].id = i
      <4>1. CASE i <= Len(f)
        BY <1>4, <1>5, <3>3, <4>1
      <4>2. CASE i > Len(f)
        <5>1. i - Len(f) \in DOMAIN pData /\ (f \o pData)[i] = pData[i - Len(f)]
          BY <1>5, <3>3, <4>2
        <5>2. pData[i - Len(f)].id = Len(f) + (i - Len(f))
          BY <3>4, <5>1
        <5> QED
          BY <1>5, <3>3, <5>1, <5>2
      <4> QED
        BY <1>5, <3>3, <4>1, <4>2
    <3>6. Unfilled' = 0 /\ Uncounted' = Len(pData)
      BY <2>1, <3>1 DEF Unfilled, Uncounted
    <3> QED
      BY <1>2, <1>4, <1>5, <2>1, <2>2, <3>2, <3>3, <3>5, <3>6 DEF RunInv, counters
  <2> QED
    BY <2>3, <2>4
<1>12. CASE NextBoard
  <2>1. /\ pc = "next" /\ pc' = "cycle" /\ UNCHANGED <<taken, resetAt, filled>>
        /\ numberOfEventsPerRun' = numberOfEventsPerRun + Len(decodedEvents)
    BY <1>2, <1>12 DEF NextBoard, readData, filling
  <2>2. Unfilled = 0 /\ Unfilled' = 0 /\ Uncounted' = 0
    BY <2>1 DEF Unfilled, Uncounted
  <2> QED
    BY <1>2, <1>4, <1>5, <2>1, <2>2 DEF RunInv, Uncounted
<1>13. CASE Measure
  BY <1>3, <1>13 DEF Measure, BeginGroup, BeginBurst, BeginAttempt, WaitForTriggers, CheckReadout, FillGroup
<1> QED
  BY <1>7, <1>8, <1>9, <1>10, <1>11, <1>12, <1>13 DEF Next, Thread, Physics

\* In a physics run with one board every event read is filled once, in the
\* order written, and counted once, whatever was skipped in between.
THEOREM EventsAreFilledOnce == Spec => []EachEventOnce
<1>1. Init => RunInv
  <2>1. ASSUME Init PROVE RunInv
    <3>1. board \in BoardSet
      BY <2>1, ReadoutAssumption DEF Init, board, BoardSet
    <3>2. Unfilled = 0 /\ Uncounted = 0
      BY <2>1 DEF Init, Unfilled, Uncounted
    <3> QED
      BY <2>1, <3>1, <3>2 DEF Init, RunInv
  <2> QED
    BY <2>1
<1>2. IInv /\ RawInv /\ BurstInv /\ RunInv /\ [Next]_vars => RunInv'
  BY RunStep
<1>3. IInv /\ RunInv => EachEventOnce
  BY DEF IInv, TypeOK, EventsTypeOK, RunInv, EachEventOnce, Uncounted
<1> QED
  BY <1>1, <1>2, <1>3, BurstInvariant, PTL DEF Spec
-----------------------------------------------------------------------------
(* A measurement.                                                          *)

\* The events a group has been measured with when r bursts remain.
Measured(r) == IF r = 0 THEN NEvents ELSE (NumberOfBursts - r) * NEventsPerBurst

\* The groups of the i-th board that are done.
GroupsDone(i) ==
  IF i < boardIndex THEN NumberOfGroups ELSE IF i = boardIndex THEN groupNumber ELSE 0

\* The events the channels of group g of the i-th board have been measured with.
Expected(i, g) ==
  IF g < GroupsDone(i) THEN NEvents
  ELSE IF g = GroupsDone(i) /\ i = boardIndex /\ pc \notin {"group", "done"}
       THEN Measured(burstNumbers) ELSE 0

ExposureInv ==
  mode = "measure" =>
    /\ groupNumber <= NumberOfGroups /\ burstNumbers <= NumberOfBursts
    /\ pc \notin {"group", "done"} => groupNumber < NumberOfGroups
    /\ pc = "done" => boardIndex = Len(Boards) /\ groupNumber = NumberOfGroups
    /\ ~ silentRunning =>
         /\ pc = "fill" /\ NcorruptedNevents[board] = 0 =>
              /\ Len(decodedEvents) = CurrentNumberOfEvents
              /\ \A i \in DOMAIN decodedEvents : decodedEvents[i].good
         /\ \A i \in DOMAIN Boards : NcorruptedNevents[Boards[i]] = 0 =>
              \A g \in 0 .. NumberOfGroups - 1 : \A channel \in TestGroup(g) :
                exposure[Boards[i]][channel] = Expected(i, g)

\* Nothing checks DoOnlyNGroups of the settings against the groups there are.
GroupsFit == OneGroup \/ OnlyNGroups <= Step

\* The bursts add up to the events to measure.
LEMMA BurstsAddUp ==
  /\ NumberOfBursts \in Nat \ {0}
  /\ Measured(NumberOfBursts) = 0
  /\ \A r \in 1 .. NumberOfBursts :
       /\ Measured(r) \in Int
       /\ Measured(r - 1) = Measured(r) + (IF r = 1 THEN LastBurst ELSE NEventsPerBurst)
<1> DEFINE e == NEventsPerBurst
           n == NumberOfBursts
<1>1. NEvents \in Nat \ {0} /\ e \in Int
  BY ReadoutAssumption
<1>2. n \in Nat \ {0} /\ LastBurst \in Int /\ (n - 1) * e + LastBurst = NEvents
  <2>1. CASE e <= 0
    <3>1. n = 1 /\ LastBurst = NEvents /\ (1 - 1) * e = 0
      BY <1>1, <2>1 DEF NumberOfBursts, LastBurst
    <3> QED
      BY <1>1, <3>1
  <2>2. CASE ~ (e <= 0)
    <3> DEFINE q == NEvents \div e
               m == NEvents % e
    <3>1. e \in Nat \ {0}
      BY <1>1, <2>2
    <3>2. q \in Nat /\ m \in 0 .. e - 1 /\ NEvents = e * q + m /\ e * q \in Nat
      BY <1>1, <3>1, Division
    <3>3. q * e = e * q /\ (q - 1) * e = q * e - e
      <4>1. q \in Nat /\ e \in Nat
        BY <3>1, <3>2
      <4> HIDE DEF q, e
      <4>2. q * e = e * q
        BY <4>1
      <4>3. (q - 1) * e = q * e - e
        BY <4>1
      <4> QED
        BY <4>2, <4>3
    <3>4. n = q + (IF m > 0 THEN 1 ELSE 0) /\ LastBurst = IF m > 0 THEN m ELSE e
      BY <2>2 DEF NumberOfBursts, LastBurst
    <3>5. q = 0 => e * q = 0
      BY <3>1
    <3> HIDE DEF q, m, n, e
    <3>6. CASE m > 0
      <4>1. n = q + 1 /\ LastBurst = m
        BY <3>4, <3>6
      <4>2. n \in Nat \ {0} /\ n - 1 = q /\ LastBurst \in Int
        BY <3>1, <3>2, <4>1
      <4> QED
        BY <3>2, <3>3, <4>1, <4>2
    <3>7. CASE ~ (m > 0)
      <4>1. m = 0 /\ n = q /\ LastBurst = e
        BY <3>1, <3>2, <3>4, <3>7
      <4>2. q # 0
        BY <1>1, <3>2, <3>5, <4>1
      <4> QED
        BY <1>1, <3>1, <3>2, <3>3, <4>1, <4>2
    <3> QED
      BY <3>6, <3>7
  <2> QED
    BY <2>1, <2>2
<1>3. \A r \in Nat : Measured(r) = IF r = 0 THEN NEvents ELSE (n - r) * e
  BY DEF Measured
<1> HIDE DEF e, n
<1>4. Measured(n) = 0
  <2>1. (n - n) * e = 0
    BY <1>1, <1>2
  <2> QED
    BY <1>2, <1>3, <2>1
<1>5. ASSUME NEW r \in 1 .. n
      PROVE  /\ Measured(r) \in Int
             /\ Measured(r - 1) = Measured(r) + (IF r = 1 THEN LastBurst ELSE e)
  <2>1. r \in Nat /\ r # 0 /\ r - 1 \in Nat /\ n - r \in Int
    BY <1>2
  <2>2. Measured(r) = (n - r) * e /\ Measured(r) \in Int
    BY <1>1, <1>3, <2>1
  <2>3. CASE r = 1
    BY <1>2, <1>3, <2>1, <2>2, <2>3
  <2>4. CASE r # 1
    <3>1. Measured(r - 1) = (n - (r - 1)) * e
      BY <1>3, <2>1, <2>4
    <3>2. n - (r - 1) = (n - r) + 1
      BY <1>2, <2>1
    <3>3. ((n - r) + 1) * e = (n - r) * e + e
      BY <1>1, <2>1
    <3> QED
      BY <2>2, <2>4, <3>1, <3>2, <3>3
  <2> QED
    BY <2>2, <2>3, <2>4
<1> QED
  BY <1>2, <1>4, <1>5 DEF e, n

\* The groups of a measurement are apart.
LEMMA GroupsApart ==
  ASSUME GroupsFit
  PROVE  /\ NumberOfGroups \in Nat
         /\ \A g1, g2 \in 0 .. NumberOfGroups - 1 : g1 # g2 => TestGroup(g1) \cap TestGroup(g2) = {}
<1>1. OnlyNGroups \in Nat /\ Step \in Nat
  BY GroupAssumption, Sizes
<1>2. CASE OneGroup
  <2>1. NumberOfGroups = 1
    BY <1>2 DEF NumberOfGroups
  <2>2. \A g1, g2 \in 0 .. 1 - 1 : g1 = g2
    OBVIOUS
  <2> QED
    BY <2>1, <2>2
<1>3. CASE ~ OneGroup
  <2>1. NumberOfGroups \in Nat /\ NumberOfGroups <= Step
    BY <1>1, <1>3 DEF NumberOfGroups, GroupsFit, Step
  <2>2. \A g \in 0 .. NumberOfGroups - 1 : g \in 0 .. Step - 1
    BY <1>1, <2>1
  <2> QED
    BY <1>3, <2>1, <2>2, GroupsAreDisjoint
<1> QED
  BY <1>2, <1>3

\* Events that are all good count in full.
LEMMA AllGood ==
  ASSUME NEW s \in Seq(Word), \A i \in DOMAIN s : s[i].good
  PROVE  Cardinality({i \in DOMAIN s : s[i].good}) = Len(s)
<1> DEFINE n == Len(s)
<1>1. {i \in DOMAIN s : s[i].good} = 1 .. n /\ n \in Nat
  OBVIOUS
<1> HIDE DEF n
<1>2. Cardinality(1 .. n) = IF 1 > n THEN 0 ELSE n - 1 + 1
  BY <1>1, FS_Interval
<1>3. Cardinality(1 .. n) = n
  BY <1>1, <1>2
<1> QED
  BY <1>1, <1>3 DEF n

\* Where the loops over bursts, groups and boards stand, and what the channels
\* were measured with, stays as it is.
LEMMA ExposureKept ==
  ASSUME ExposureInv,
         UNCHANGED <<mode, silentRunning, exposure, NcorruptedNevents, boardIndex, groupNumber, burstNumbers>>,
         \/ pc' = pc /\ decodedEvents' = decodedEvents
         \/ {pc, pc'} \cap {"group", "done", "fill"} = {}
  PROVE  ExposureInv'
<1>1. board' = board /\ CurrentNumberOfEvents' = CurrentNumberOfEvents
  BY DEF board, CurrentNumberOfEvents
<1>2. \A i, g : Expected(i, g)' = Expected(i, g)
  BY DEF Expected, GroupsDone
<1> QED
  BY <1>1, <1>2 DEF ExposureInv

\* What fill finds decoded is what the attempt has decoded.
LEMMA FilledIsDecoded ==
  ASSUME IInv, BurstInv, FillGroup
  PROVE  decodedEvents' = decodedEvents /\ fEventList' = decodedEvents
BY DEF FillGroup, BurstInv, Decode

\* The counts of the channels follow the loops.
LEMMA ExposureStep ==
  ASSUME GroupsFit, IInv, BurstInv, ExposureInv, [Next]_vars
  PROVE  ExposureInv'
<1> SUFFICES ASSUME mode' = "measure" PROVE ExposureInv'
  BY DEF ExposureInv
<1>0. mode = "measure" /\ UNCHANGED <<mode, silentRunning>>
  BY ModeStep
<1>1. /\ ThreadTypeOK /\ EventsTypeOK /\ DriverInv /\ board \in BoardSet
      /\ boardIndex \in 1 .. Len(Boards) /\ Len(Boards) \in Nat
      /\ groupNumber \in Nat /\ burstNumbers \in Nat
  BY BoardIsABoard, ReadoutAssumption DEF IInv, TypeOK, ThreadTypeOK
<1>2. pc \notin {"cycle", "call", "decode", "next"}
  BY <1>0, <1>1 DEF DriverInv
<1>3. NumberOfGroups \in Nat /\ NumberOfBursts \in Nat \ {0}
  BY GroupsApart, BurstsAddUp
<1>4. /\ groupNumber <= NumberOfGroups /\ burstNumbers <= NumberOfBursts
      /\ pc \notin {"group", "done"} => groupNumber < NumberOfGroups
      /\ pc = "done" => boardIndex = Len(Boards) /\ groupNumber = NumberOfGroups
  BY <1>0 DEF ExposureInv
<1>5. ~ silentRunning => \A i \in DOMAIN Boards : NcorruptedNevents[Boards[i]] = 0 =>
        \A g \in 0 .. NumberOfGroups - 1 : \A channel \in TestGroup(g) :
          exposure[Boards[i]][channel] = Expected(i, g)
  BY <1>0 DEF ExposureInv
<1>6. CASE (\E b \in BoardSet : Trigger(b) \/ WriteEvent(b)) \/ Done \/ UNCHANGED vars
  <2>1. UNCHANGED <<counters, filling, progress, pc, events>>
    BY <1>6 DEF Trigger, WriteEvent, Done, vars
  <2> QED
    BY <1>0, <2>1, ExposureKept DEF counters, filling, progress, events
<1>7. CASE SampleWordsToRead \/ ReadFirstBlock \/ FinishReadData \/ BeginAttempt \/ WaitForTriggers
  <2>1. UNCHANGED <<exposure, NcorruptedNevents, boardIndex, groupNumber, burstNumbers>>
    BY <1>7 DEF SampleWordsToRead, ReadFirstBlock, FinishReadData, BeginAttempt, WaitForTriggers,
         counters, filling, progress
  <2>2. {pc, pc'} \cap {"group", "done", "fill"} = {}
    BY <1>7 DEF SampleWordsToRead, ReadFirstBlock, FinishReadData, ReadLastBlock, BeginAttempt, WaitForTriggers
  <2> QED
    BY <1>0, <2>1, <2>2, ExposureKept
<1>8. CASE Physics
  BY <1>2, <1>8 DEF Physics, BeginCycle, EndRun, CallReadData, DecodeAndFill, NextBoard
<1>9. CASE BeginGroup
  <2>1. /\ pc = "group" /\ pc' # "fill" /\ UNCHANGED <<exposure, NcorruptedNevents>>
        /\ \/ /\ groupNumber < NumberOfGroups /\ burstNumbers' = NumberOfBursts /\ pc' = "burst"
              /\ UNCHANGED <<boardIndex, groupNumber>>
           \/ /\ groupNumber = NumberOfGroups /\ boardIndex < Len(Boards)
              /\ boardIndex' = boardIndex + 1 /\ groupNumber' = 0 /\ pc' = "group"
              /\ UNCHANGED burstNumbers
           \/ /\ groupNumber = NumberOfGroups /\ boardIndex = Len(Boards) /\ pc' = "done"
              /\ UNCHANGED <<boardIndex, groupNumber, burstNumbers>>
    BY <1>1, <1>3, <1>4, <1>9 DEF BeginGroup, counters, filling
  <2>2. ASSUME NEW i \in DOMAIN Boards, NEW g \in 0 .. NumberOfGroups - 1
        PROVE  Expected(i, g)' = Expected(i, g)
    <3>1. i \in Nat /\ g \in Nat /\ g < NumberOfGroups
      BY <1>1, <1>3, ReadoutAssumption
    <3>2. Measured(NumberOfBursts) = 0
      BY BurstsAddUp
    <3>3. CASE pc' = "burst"
      BY <2>1, <3>1, <3>2, <3>3 DEF Expected, GroupsDone
    <3>4. CASE pc' = "group"
      BY <1>1, <1>3, <2>1, <3>1, <3>4 DEF Expected, GroupsDone
    <3>5. CASE pc' = "done"
      BY <2>1, <3>1, <3>5 DEF Expected, GroupsDone
    <3> QED
      BY <2>1, <3>3, <3>4, <3>5
  <2>3. /\ groupNumber' <= NumberOfGroups /\ burstNumbers' <= NumberOfBursts
        /\ pc' \notin {"group", "done"} => groupNumber' < NumberOfGroups
        /\ pc' = "done" => boardIndex' = Len(Boards) /\ groupNumber' = NumberOfGroups
    BY <1>3, <1>4, <2>1
  <2> QED
    BY <1>0, <1>5, <2>1, <2>2, <2>3 DEF ExposureInv
<1>10. CASE BeginBurst
  <2>1. /\ pc = "burst" /\ pc' # "fill"
        /\ UNCHANGED <<exposure, NcorruptedNevents, boardIndex, burstNumbers>>
        /\ \/ pc' = "attempt" /\ UNCHANGED groupNumber
           \/ pc' = "group" /\ burstNumbers = 0 /\ groupNumber' = groupNumber + 1
    BY <1>1, <1>10 DEF BeginBurst, counters, filling
  <2>2. ASSUME NEW i \in DOMAIN Boards, NEW g \in 0 .. NumberOfGroups - 1
        PROVE  Expected(i, g)' = Expected(i, g)
    <3>1. i \in Nat /\ g \in Nat /\ g < NumberOfGroups
      BY <1>1, <1>3, ReadoutAssumption
    <3>2. Measured(0) = NEvents
      BY DEF Measured
    <3>3. CASE pc' = "attempt"
      BY <2>1, <3>1, <3>3 DEF Expected, GroupsDone
    <3>4. CASE pc' = "group"
      <4>1. /\ burstNumbers = 0 /\ groupNumber' = groupNumber + 1 /\ boardIndex' = boardIndex
        BY <2>1, <3>4
      <4>2. CASE i # boardIndex
        BY <2>1, <3>4, <4>1, <4>2 DEF Expected, GroupsDone
      <4>3. CASE i = boardIndex
        <5>1. Expected(i, g) = IF g < groupNumber THEN NEvents ELSE IF g = groupNumber THEN NEvents ELSE 0
          BY <1>1, <2>1, <3>2, <4>1, <4>3 DEF Expected, GroupsDone
        <5>2. Expected(i, g)' = IF g < groupNumber + 1 THEN NEvents ELSE 0
          BY <1>1, <3>4, <4>1, <4>3 DEF Expected, GroupsDone
        <5> QED
          BY <1>1, <3>1, <5>1, <5>2
      <4> QED
        BY <4>2, <4>3
    <3> QED
      BY <2>1, <3>3, <3>4
  <2>3. /\ groupNumber' <= NumberOfGroups /\ pc' # "done"
        /\ pc' \notin {"group", "done"} => groupNumber' < NumberOfGroups
    BY <1>1, <1>3, <1>4, <2>1
  <2> QED
    BY <1>0, <1>4, <1>5, <2>1, <2>2, <2>3 DEF ExposureInv
<1>11. CASE CheckReadout
  <2> DEFINE failed == ReadoutFailed(decodedEvents')
             again  == failed /\ ~silentRunning /\ nAttempts < MAXATTEMPTS
  <2>1. /\ pc = "check" /\ pc' = (IF again THEN "attempt" ELSE "fill")
        /\ NcorruptedNevents' = [NcorruptedNevents EXCEPT ![board] =
                                   @ + (IF failed /\ ~again THEN 1 ELSE 0)]
        /\ UNCHANGED <<exposure, boardIndex, groupNumber, burstNumbers>>
    BY <1>11 DEF CheckReadout, filling, progress
  <2>2. board' = board /\ CurrentNumberOfEvents' = CurrentNumberOfEvents
    BY <2>1 DEF board, CurrentNumberOfEvents
  <2> DEFINE lost == IF failed /\ ~again THEN 1 ELSE 0
  <2>3. lost \in {0, 1} /\ (lost = 0 <=> ~ (failed /\ ~again))
    OBVIOUS
  <2>4. NcorruptedNevents \in [BoardSet -> Nat]
    BY <1>1 DEF EventsTypeOK
  <2>5. \A b \in BoardSet : NcorruptedNevents'[b] = 0 => NcorruptedNevents[b] = 0 /\ (b = board => lost = 0)
    <3>1. NcorruptedNevents' = [NcorruptedNevents EXCEPT ![board] = @ + lost]
      BY <2>1
    <3> HIDE DEF lost
    <3> QED
      BY <1>1, <2>3, <2>4, <3>1
  <2>6. \A i \in DOMAIN Boards : \A g : Expected(i, g)' = Expected(i, g)
    BY <2>1 DEF Expected, GroupsDone
  <2>7. ASSUME ~ silentRunning, pc' = "fill", NcorruptedNevents'[board] = 0
        PROVE  /\ Len(decodedEvents') = CurrentNumberOfEvents
               /\ \A i \in DOMAIN decodedEvents' : decodedEvents'[i].good
    <3>1. ~ again /\ lost = 0
      BY <1>1, <2>1, <2>5, <2>7
    <3>2. ~ failed
      BY <2>3, <3>1
    <3> QED
      BY <2>7, <3>2 DEF ReadoutFailed
  <2>8. \A i \in DOMAIN Boards : Boards[i] \in BoardSet
    BY DEF BoardSet
  <2>9. groupNumber < NumberOfGroups /\ pc' \notin {"group", "done"}
    BY <1>4, <2>1
  <2> HIDE DEF failed, again, lost
  <2> QED
    BY <1>0, <1>4, <1>5, <2>1, <2>2, <2>5, <2>6, <2>7, <2>8, <2>9 DEF ExposureInv
<1>12. CASE FillGroup
  <2> DEFINE good == Cardinality({i \in DOMAIN fEventList' : fEventList'[i].good})
  <2>1. /\ pc = "fill" /\ pc' = "burst" /\ burstNumbers' = burstNumbers - 1
        /\ UNCHANGED <<NcorruptedNevents, boardIndex, groupNumber>>
        /\ exposure' = [exposure EXCEPT ![board] =
                          [channel \in RegionOfInterest |->
                             IF channel \in TestGroup(groupNumber) THEN @[channel] + good
                             ELSE @[channel]]]
    BY <1>12 DEF FillGroup, counters
  <2>2. burstNumbers > 0 /\ burstNumbers \in 1 .. NumberOfBursts
    BY <1>1, <1>3, <1>4, <2>1 DEF DriverInv
  <2>3. exposure \in [BoardSet -> [RegionOfInterest -> Nat]]
    BY <1>1 DEF EventsTypeOK
  <2>4. fEventList' = decodedEvents /\ decodedEvents \in Seq(Word)
    BY <1>1, <1>12, FilledIsDecoded DEF EventsTypeOK
  <2>5. ASSUME ~ silentRunning, NcorruptedNevents[board] = 0 PROVE good = CurrentNumberOfEvents
    <3>1. /\ Len(decodedEvents) = CurrentNumberOfEvents
          /\ \A i \in DOMAIN decodedEvents : decodedEvents[i].good
      BY <1>0, <2>1, <2>5 DEF ExposureInv
    <3>2. good = Cardinality({i \in DOMAIN decodedEvents : decodedEvents[i].good})
      BY <2>4
    <3> QED
      BY <2>4, <3>1, <3>2, AllGood
  <2> HIDE DEF good
  <2>6. \A b \in BoardSet : b # board => exposure'[b] = exposure[b]
    BY <2>1, <2>3
  <2>7. \A channel \in RegionOfInterest :
          exposure'[board][channel] = IF channel \in TestGroup(groupNumber)
                                      THEN exposure[board][channel] + good ELSE exposure[board][channel]
    BY <1>1, <2>1, <2>3
  <2>8. ASSUME ~ silentRunning, NEW i \in DOMAIN Boards, NcorruptedNevents[Boards[i]] = 0,
               NEW g \in 0 .. NumberOfGroups - 1, NEW channel \in TestGroup(g)
        PROVE  exposure'[Boards[i]][channel] = Expected(i, g)'
    <3>1. exposure[Boards[i]][channel] = Expected(i, g) /\ channel \in RegionOfInterest
      BY <1>5, <2>8 DEF TestGroup
    <3>2. CASE i # boardIndex
      <4>1. Boards[i] \in BoardSet /\ Boards[i] # board
        BY <1>1, <3>2, ReadoutAssumption DEF board, BoardSet
      <4>2. Expected(i, g)' = Expected(i, g)
        BY <2>1, <3>2 DEF Expected, GroupsDone
      <4> QED
        BY <2>6, <3>1, <4>1, <4>2
    <3>3. CASE i = boardIndex /\ g # groupNumber
      <4>1. channel \notin TestGroup(groupNumber)
        <5>1. groupNumber \in 0 .. NumberOfGroups - 1
          BY <1>1, <1>3, <1>4, <2>1
        <5> QED
          BY <3>3, <5>1, GroupsApart
      <4>2. Expected(i, g)' = Expected(i, g)
        BY <2>1, <3>3 DEF Expected, GroupsDone
      <4> QED
        BY <2>7, <3>1, <3>3, <4>1, <4>2 DEF board
    <3>4. CASE i = boardIndex /\ g = groupNumber
      <4>1. Expected(i, g) = Measured(burstNumbers) /\ Expected(i, g)' = Measured(burstNumbers - 1)
        BY <1>1, <2>1, <3>4 DEF Expected, GroupsDone, Measured
      <4>2. good = CurrentNumberOfEvents
        BY <2>5, <2>8, <3>4 DEF board
      <4>3. Measured(burstNumbers - 1) = Measured(burstNumbers) + good
        BY <2>2, <4>2, BurstsAddUp DEF CurrentNumberOfEvents
      <4> QED
        BY <2>7, <3>1, <3>4, <4>1, <4>3 DEF board
    <3> QED
      BY <3>2, <3>3, <3>4
  <2>9. burstNumbers' <= NumberOfBursts /\ groupNumber < NumberOfGroups
    BY <1>1, <1>3, <1>4, <2>1, <2>2
  <2> QED
    BY <1>0, <1>4, <2>1, <2>8, <2>9 DEF ExposureInv
<1> QED
  BY <1>6, <1>7, <1>8, <1>9, <1>10, <1>11, <1>12 DEF Next, Thread, Measure

\* With groups that are apart, every channel of a measurement that is not silent
\* and gave up no readout is filled with exactly the events asked for, for any
\* matrix, bursts and boards.
THEOREM ChannelsAreExposedOnce == GroupsFit => (Spec => []ExposedOnce)
<1> SUFFICES ASSUME GroupsFit PROVE Spec => []ExposedOnce
  OBVIOUS
<1>1. Init => ExposureInv
  <2>1. ASSUME Init PROVE ExposureInv
    <3>1. NumberOfGroups \in Nat /\ NumberOfBursts \in Nat
      BY GroupsApart, BurstsAddUp
    <3>2. \A i \in DOMAIN Boards : Boards[i] \in BoardSet
      BY DEF BoardSet
    <3>3. ASSUME mode = "measure", NEW i \in DOMAIN Boards, NEW g \in 0 .. NumberOfGroups - 1,
                 NEW channel \in TestGroup(g)
          PROVE  exposure[Boards[i]][channel] = Expected(i, g)
      <4>1. exposure[Boards[i]][channel] = 0
        BY <2>1, <3>2 DEF Init, TestGroup
      <4>2. i \in Nat /\ i >= 1 /\ g \in Nat
        BY <3>1, ReadoutAssumption
      <4>3. Expected(i, g) = 0
        BY <2>1, <3>3, <4>2 DEF Init, Expected, GroupsDone
      <4> QED
        BY <4>1, <4>3
    <3>4. mode = "measure" => pc = "group" /\ groupNumber = 0 /\ burstNumbers = 0
      BY <2>1 DEF Init
    <3> QED
      BY <3>1, <3>3, <3>4 DEF ExposureInv
  <2> QED
    BY <2>1
<1>2. IInv /\ BurstInv /\ ExposureInv /\ [Next]_vars => ExposureInv'
  BY ExposureStep
<1>3. IInv /\ ExposureInv => ExposedOnce
  <2>1. ASSUME IInv, ExposureInv, pc = "done", mode = "measure", ~ silentRunning,
               NEW b \in BoardSet, NcorruptedNevents[b] = 0, NEW channel \in AllChannelGroup
        PROVE  exposure[b][channel] = NEvents
    <3>1. PICK i \in DOMAIN Boards : b = Boards[i]
      BY DEF BoardSet
    <3>2. PICK g \in 0 .. NumberOfGroups - 1 : channel \in TestGroup(g)
      BY DEF AllChannelGroup
    <3>3. boardIndex = Len(Boards) /\ groupNumber = NumberOfGroups
      BY <2>1 DEF ExposureInv
    <3>4. exposure[b][channel] = Expected(i, g)
      BY <2>1, <3>1, <3>2 DEF ExposureInv
    <3>5. GroupsDone(i) = NumberOfGroups
      <4>1. i \in 1 .. Len(Boards) /\ Len(Boards) \in Nat
        BY ReadoutAssumption
      <4> QED
        BY <3>3, <4>1 DEF GroupsDone
    <3>6. g < NumberOfGroups
      BY GroupsApart
    <3> QED
      BY <3>4, <3>5, <3>6 DEF Expected
  <2> QED
    BY <2>1 DEF ExposedOnce
<1> QED
  BY <1>1, <1>2, <1>3, BurstInvariant, PTL DEF Spec
===============================================================================
