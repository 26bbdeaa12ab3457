-------------------------- MODULE RD53DecodersProofs --------------------------
(***************************************************************************)
(* For any number of threads and of events: the chunks of the decoding     *)
(* threads are a partition of the events, the vectors the threads share    *)
(* with the readout are never used by both at a time, and a call returns   *)
(* the events of its readout in their order.                               *)
(***************************************************************************)
EXTENDS RD53Decoders, SequenceTheorems, WellFoundedInduction, TLAPS

-----------------------------------------------------------------------------
(* The partition.                                                          *)

\* A longer run of chunks is no shorter in events.
LEMMA ProductMonotonic ==
  ASSUME NEW k \in Nat, NEW i \in Nat, NEW j \in Nat, i <= j
  PROVE  k * i \in Nat /\ k * j \in Nat /\ k * i <= k * j
<1>1. PICK d \in Nat : j = i + d
  <2>1. j - i \in Nat /\ j = i + (j - i)
    OBVIOUS
  <2> QED
    BY <2>1
<1>2. k * i \in Nat /\ k * d \in Nat
  OBVIOUS
<1>3. k * j = k * i + k * d
  BY <1>1
<1> QED
  BY <1>2, <1>3

\* nEvents is positive and enough for all the events: the ceiling of n / NTHREADS.
LEMMA ChunkSizeCovers ==
  ASSUME NEW n \in Nat \ {0}
  PROVE  ChunkSize(n) \in Nat \ {0} /\ ChunkSize(n) * NTHREADS >= n
<1> DEFINE m == n + NTHREADS - 1
           q == m \div NTHREADS
<1>1. NTHREADS \in Nat \ {0} /\ m \in Nat /\ m >= NTHREADS
  BY ThreadsAssumption
<1>2. m = NTHREADS * q + (m % NTHREADS) /\ m % NTHREADS \in 0..NTHREADS - 1 /\ q \in Int
  BY <1>1
<1> QED
  BY <1>1, <1>2 DEF ChunkSize

\* There is a least thread at which the loop leaves, so LastChunk is that one.
LEMMA LastChunkIsLeast ==
  ASSUME NEW n \in Nat \ {0}
  PROVE  /\ LastChunk(n) \in Threads
         /\ Leaves(n, LastChunk(n))
         /\ \A j \in 0..LastChunk(n) - 1 : ~Leaves(n, j)
<1> DEFINE T == {i \in Threads : Leaves(n, i)}
<1>1. T \subseteq Nat /\ NTHREADS - 1 \in T
  BY ThreadsAssumption DEF Threads, Leaves
<1>2. \A i, j \in Nat : <<i, j>> \in OpToRel(<, Nat) <=> i < j
  BY DEF OpToRel
<1>3. PICK i \in T : \A j \in T : ~(<<j, i>> \in OpToRel(<, Nat))
  <2> HIDE DEF T
  <2> QED
    BY <1>1, WFMin, NatLessThanWellFounded
<1>4. i \in Threads /\ Leaves(n, i) /\ \A j \in 0..i - 1 : ~Leaves(n, j)
  <2>1. ASSUME NEW j \in 0..i - 1, Leaves(n, j) PROVE FALSE
    <3>1. j \in T /\ j < i
      BY <1>1, <2>1 DEF Threads
    <3> QED
      BY <1>1, <1>2, <1>3, <3>1
  <2> QED
    BY <2>1
<1> QED
  BY <1>4 DEF LastChunk

\* No event is in two chunks: no two threads decode it.
THEOREM ChunksAreDisjoint ==
  ASSUME NEW n \in Nat \ {0}, NEW i \in Threads, NEW j \in Threads, i < j
  PROVE  Chunk(n, i) \cap Chunk(n, j) = {}
<1> DEFINE k == ChunkSize(n)
<1>1. i \in Nat /\ j \in Nat /\ i + 1 \in Nat /\ i + 1 <= j
  BY ThreadsAssumption DEF Threads
<1>2. k \in Nat /\ LastChunk(n) \in Nat
  BY ChunkSizeCovers, LastChunkIsLeast, ThreadsAssumption DEF Threads
<1>3. k * (i + 1) \in Nat /\ k * j \in Nat /\ k * (i + 1) <= k * j
  <2> HIDE DEF k
  <2> QED
    BY <1>1, <1>2, ProductMonotonic
<1>4. CASE j <= LastChunk(n)
  <2>1. LastOf(n, i) = k * (i + 1) /\ FirstOf(n, j) = k * j + 1
    BY <1>1, <1>2, <1>4 DEF LastOf, FirstOf
  <2>2. ASSUME NEW e \in Chunk(n, i), e \in Chunk(n, j) PROVE FALSE
    <3>1. e \in FirstOf(n, i)..LastOf(n, i) /\ e \in FirstOf(n, j)..LastOf(n, j)
      BY <2>2, <1>4, <1>1, <1>2 DEF Chunk
    <3>2. e <= LastOf(n, i) /\ FirstOf(n, j) <= e /\ e \in Int
      BY <3>1
    <3> HIDE DEF k
    <3> QED
      BY <1>3, <2>1, <3>2
  <2> QED
    BY <2>2
<1>5. CASE ~(j <= LastChunk(n))
  BY <1>5 DEF Chunk
<1> QED
  BY <1>4, <1>5

\* Every event is in a chunk, and the chunks have events of the readout only:
\* the threads decode all of it and nothing else.
THEOREM ChunksCoverEvents ==
  ASSUME NEW n \in Nat \ {0}
  PROVE  UNION {Chunk(n, i) : i \in Threads} = 1..n
<1> DEFINE k == ChunkSize(n)
           L == LastChunk(n)
<1>1. k \in Nat \ {0} /\ L \in Threads /\ L \in Nat
  BY ChunkSizeCovers, LastChunkIsLeast, ThreadsAssumption DEF Threads
<1>2. \A i \in 0..L - 1 : k * (i + 1) < n
  BY LastChunkIsLeast, <1>1 DEF Leaves
<1>3. ASSUME NEW i \in Threads, NEW e \in Chunk(n, i) PROVE e \in 1..n
  <2>1. i \in Nat /\ i <= L /\ e \in FirstOf(n, i)..LastOf(n, i)
    BY <1>3, ThreadsAssumption DEF Chunk, Threads
  <2>2. k * i \in Nat
    BY <1>1, <2>1, ProductMonotonic
  <2>3. LastOf(n, i) \in Int /\ LastOf(n, i) <= n
    BY <1>1, <1>2, <2>1 DEF LastOf
  <2>4. FirstOf(n, i) \in Nat /\ FirstOf(n, i) >= 1
    BY <2>2 DEF FirstOf
  <2> QED
    BY <2>1, <2>3, <2>4
<1>4. ASSUME NEW e \in 1..n PROVE \E i \in Threads : e \in Chunk(n, i)
  <2> DEFINE q == (e - 1) \div k
  <2>1. q \in Nat /\ k * q <= e - 1 /\ e - 1 < k * q + k
    BY <1>1
  <2>2. k * (q + 1) = k * q + k /\ k * q \in Nat
    BY <1>1, <2>1
  <2>3. CASE q < L
    <3>1. q \in Threads
      <4> HIDE DEF q, k, L
      <4> QED
        BY <1>1, <2>1, <2>3, ThreadsAssumption DEF Threads
    <3>2. FirstOf(n, q) = k * q + 1 /\ LastOf(n, q) = k * (q + 1)
      BY <2>3 DEF FirstOf, LastOf
    <3> HIDE DEF q, k
    <3>3. e \in FirstOf(n, q)..LastOf(n, q)
      BY <1>1, <2>1, <2>2, <3>2
    <3> QED
      BY <1>1, <2>1, <2>3, <3>1, <3>3 DEF Chunk
  <2>4. CASE L <= q
    <3>1. k * L <= k * q /\ k * L \in Nat
      BY <1>1, <2>1, <2>4, ProductMonotonic
    <3>2. FirstOf(n, L) = k * L + 1 /\ LastOf(n, L) = n
      BY <1>1 DEF FirstOf, LastOf
    <3> HIDE DEF q, k
    <3>3. e \in FirstOf(n, L)..LastOf(n, L)
      BY <2>1, <2>2, <3>1, <3>2
    <3> QED
      BY <1>1, <3>3 DEF Chunk
  <2> QED
    BY <1>1, <2>1, <2>3, <2>4
<1> QED
  BY <1>3, <1>4

-----------------------------------------------------------------------------
(* The hand-over of the chunks.                                            *)

\* A thread at work has not reported; the flags are all raised, or the threads
\* gone, while a call puts the chunks together.
HandOver ==
  /\ pc = [w \in Threads |-> pc[w]]
  /\ vecWorkDone \in [Threads -> BOOLEAN]
  /\ \A w \in Threads : pc[w] \in {"decode", "report"} => ~ vecWorkDone[w]
  /\ mainPc # "idle" => runPc = "idle"
  /\ runPc = "idle" => \A w \in Threads : vecEventStart[w] = << >>
  /\ mainPc = "idle" /\ runPc \in {"idle", "post"} =>
       (\A w \in Threads : vecWorkDone[w]) \/ (\A w \in Threads : pc[w] = "exited")

\* The invariant of the hand-over holds at the start,
LEMMA HandOverInit == Init => HandOver
BY DEF Init, HandOver

\* A thread that goes on leaves the others where they are.
LEMMA GotoEffect ==
  ASSUME HandOver, NEW w \in Threads, NEW from, NEW to, Goto(w, from, to)
  PROVE  /\ pc[w] = from /\ pc'[w] = to
         /\ pc' = [v \in Threads |-> pc'[v]]
         /\ \A v \in Threads \ {w} : pc'[v] = pc[v]
BY DEF Goto, HandOver

\* A thread at work is neither gone nor one that has reported.
LEMMA ThreadStep ==
  ASSUME HandOver, NEW w \in Threads, Works(w) \/ SpuriousWakeUp(w)
  PROVE  HandOver'
<1>1. UNCHANGED <<mainPc, runPc, vecEventStart>> /\ vecWorkDone' \in [Threads -> BOOLEAN]
  BY DEF HandOver, Works, TestKeepRunning, CheckWork, Block, Decode, Report, SpuriousWakeUp,
         control, decoding, readout
<1>2. CASE Report(w)
  <2>1. Goto(w, "report", "test") /\ vecWorkDone' = [vecWorkDone EXCEPT ![w] = TRUE]
    BY <1>2 DEF Report
  <2>2. /\ pc[w] = "report" /\ pc'[w] = "test" /\ pc' = [v \in Threads |-> pc'[v]]
        /\ \A v \in Threads \ {w} : pc'[v] = pc[v]
    BY <2>1, GotoEffect
  <2>3. vecWorkDone'[w] = TRUE /\ \A v \in Threads \ {w} : vecWorkDone'[v] = vecWorkDone[v]
    BY <2>1 DEF HandOver
  <2> QED
    BY <1>1, <2>2, <2>3 DEF HandOver
<1>3. CASE ~ Report(w)
  <2>1. UNCHANGED vecWorkDone
    BY <1>3 DEF Works, TestKeepRunning, CheckWork, Block, Decode, SpuriousWakeUp, decoding
  <2>2. PICK from, to : /\ Goto(w, from, to) /\ from # "exited"
                        /\ to = "decode" => ~ vecWorkDone[w]
                        /\ to = "report" => from = "decode"
    <3>1. CASE TestKeepRunning(w)
      BY <3>1 DEF TestKeepRunning
    <3>2. CASE CheckWork(w)
      <4>1. CASE vecWorkDone[w]
        BY <3>2, <4>1 DEF CheckWork
      <4>2. CASE ~ vecWorkDone[w]
        BY <3>2, <4>2 DEF CheckWork
      <4> QED
        BY <4>1, <4>2
    <3>3. CASE Block(w)
      BY <3>3 DEF Block
    <3>4. CASE \E corrupted \in BOOLEAN : Decode(w, corrupted)
      BY <3>4 DEF Decode
    <3>5. CASE SpuriousWakeUp(w)
      BY <3>5 DEF SpuriousWakeUp
    <3> QED
      BY <1>3, <3>1, <3>2, <3>3, <3>4, <3>5 DEF Works
  <2>3. /\ pc[w] = from /\ pc'[w] = to /\ pc' = [v \in Threads |-> pc'[v]]
        /\ \A v \in Threads \ {w} : pc'[v] = pc[v]
    BY <2>2, GotoEffect
  <2> QED
    BY <1>1, <2>1, <2>2, <2>3 DEF HandOver
<1> QED
  BY <1>2, <1>3

\* Waking the blocked threads sends none of them to work.
LEMMA WakeUpEffect ==
  ASSUME WakeUpAll
  PROVE  /\ pc' = [w \in Threads |-> pc'[w]]
         /\ \A w \in Threads : pc'[w] \in {"decode", "report"} => pc[w] \in {"decode", "report"}
BY DEF WakeUpAll

\* and no step breaks it.
LEMMA HandOverStep ==
  ASSUME HandOver, [Next]_vars
  PROVE  HandOver'
<1>1. CASE \E w \in Threads : Works(w) \/ SpuriousWakeUp(w)
  BY <1>1, ThreadStep
<1>2. CASE \E n \in EventCounts : \E withErrors \in SUBSET (FlaggedEvents \cap 1..n) : BeginDecoding(n, withErrors)
  BY <1>2 DEF BeginDecoding, TakeTurns, HandOver, control
<1>12. CASE \E error \in {"EMPTY", "EVSIZE", "NOEVHEADER"} : RefuseData(error)
  BY <1>12 DEF RefuseData, HandOver, control, decoding
<1>3. CASE PostWork
  BY <1>3 DEF PostWork, HandOver, control
<1>4. CASE NotifyWork
  BY <1>4, WakeUpEffect DEF NotifyWork, HandOver, control, decoding
<1>5. CASE PackEvents
  BY <1>5 DEF PackEvents, AllWorkDone, HandOver, control
<1>6. CASE \E toFork \in BOOLEAN : BeginJoin(toFork)
  BY <1>6 DEF BeginJoin, TakeTurns, HandOver, decoding, readout
<1>7. CASE PostExit
  BY <1>7 DEF PostExit, HandOver, readout
<1>8. CASE NotifyExit
  BY <1>8, WakeUpEffect DEF NotifyExit, HandOver, decoding, readout
<1>9. CASE EndJoin
  BY <1>9 DEF EndJoin, HandOver, decoding, readout
<1>10. CASE ForkThreads
  BY <1>10 DEF ForkThreads, HandOver, readout
<1>11. CASE UNCHANGED vars
  BY <1>11 DEF vars, HandOver, control, decoding, readout
<1> QED
  BY <1>1, <1>2, <1>3, <1>4, <1>5, <1>6, <1>7, <1>8, <1>9, <1>10, <1>11, <1>12
  DEF Next, Calls, ReadoutWorks, Main

\* No thread works on its vectors while the readout fills or empties them,
\* although no lock guards them: the flags alone keep the two apart.
THEOREM VectorsAreHandedOver == Spec => []NoSharedAccess
<1>1. HandOver => NoSharedAccess
  BY DEF HandOver, NoSharedAccess
<1>2. HandOver /\ [Next]_vars => HandOver'
  BY HandOverStep
<1> QED
  BY HandOverInit, <1>1, <1>2, PTL DEF Spec
-----------------------------------------------------------------------------
(* Induction over the naturals, for sets of them.                          *)

\* A set of numbers that has 0 and with each number the next has all of them.
LEMMA InductionOnSet ==
  ASSUME NEW T, 0 \in T, \A i \in Nat : i \in T => i + 1 \in T
  PROVE  \A i \in Nat : i \in T
<1> DEFINE Out == Nat \ T
<1>1. SUFFICES ASSUME Out # {} PROVE FALSE
  OBVIOUS
<1>2. \A i, j \in Nat : <<i, j>> \in OpToRel(<, Nat) <=> i < j
  BY DEF OpToRel
<1>3. PICK i \in Out : \A j \in Out : ~(<<j, i>> \in OpToRel(<, Nat))
  <2>1. Out \subseteq Nat
    OBVIOUS
  <2> HIDE DEF Out
  <2> QED
    BY <1>1, <2>1, WFMin, NatLessThanWellFounded
<1>4. i \in Nat /\ i # 0 /\ i \notin T
  OBVIOUS
<1>5. i - 1 \in Nat /\ i - 1 < i /\ (i - 1) + 1 = i
  BY <1>4
<1>6. i - 1 \in Out
  BY <1>4, <1>5
<1> QED
  BY <1>2, <1>3, <1>4, <1>5, <1>6

-----------------------------------------------------------------------------
(* The events of the threads, put together.                                *)

\* The events before those of thread i.
UpTo(n, i) == IF i <= LastChunk(n) THEN ChunkSize(n) * i ELSE n

\* The chunks lie one behind the other, from the first event to the last.
LEMMA ChunksInLine ==
  ASSUME NEW n \in Nat \ {0}
  PROVE  /\ UpTo(n, 0) = 0 /\ UpTo(n, NTHREADS) = n
         /\ \A i \in 0..NTHREADS : UpTo(n, i) \in Nat /\ UpTo(n, i) <= n
         /\ \A w \in Threads :
              /\ UpTo(n, w) <= UpTo(n, w + 1)
              /\ w <= LastChunk(n) => /\ FirstOf(n, w) = UpTo(n, w) + 1
                                      /\ LastOf(n, w) = UpTo(n, w + 1)
              /\ w > LastChunk(n) => UpTo(n, w + 1) = UpTo(n, w)
<1> DEFINE k == ChunkSize(n)
           L == LastChunk(n)
<1>1. k \in Nat \ {0} /\ L \in Nat /\ L < NTHREADS /\ NTHREADS \in Nat \ {0}
  BY ChunkSizeCovers, LastChunkIsLeast, ThreadsAssumption DEF Threads
<1>2. \A i \in 0..L - 1 : k * (i + 1) < n
  BY LastChunkIsLeast, <1>1 DEF Leaves
<1>3. \A i \in Nat : i <= L => k * i \in Nat /\ k * i < n
  <2> SUFFICES ASSUME NEW i \in Nat, i <= L PROVE k * i \in Nat /\ k * i < n
    OBVIOUS
  <2>1. CASE i = 0
    BY <1>1, <2>1
  <2>2. CASE i # 0
    <3>1. i - 1 \in 0..L - 1 /\ (i - 1) + 1 = i
      BY <1>1, <2>2
    <3>2. k * ((i - 1) + 1) < n
      BY <1>2, <3>1
    <3> QED
      BY <1>1, <3>1, <3>2
  <2> QED
    BY <2>1, <2>2
<1>4. \A i \in Nat : k * (i + 1) = k * i + k
  BY <1>1
<1>5. k * 0 = 0
  BY <1>1
<1>6. \A i \in Nat : UpTo(n, i) = IF i <= L THEN k * i ELSE n
  BY DEF UpTo
<1>7. \A w \in Nat : FirstOf(n, w) = k * w + 1 /\ LastOf(n, w) = IF w < L THEN k * (w + 1) ELSE n
  BY DEF FirstOf, LastOf
<1> HIDE DEF k, L
<1>8. UpTo(n, 0) = 0 /\ UpTo(n, NTHREADS) = n
  BY <1>1, <1>5, <1>6
<1>9. \A i \in 0..NTHREADS : UpTo(n, i) \in Nat /\ UpTo(n, i) <= n
  BY <1>3, <1>6
<1>10. ASSUME NEW w \in Threads
       PROVE  /\ UpTo(n, w) <= UpTo(n, w + 1)
              /\ w <= L => FirstOf(n, w) = UpTo(n, w) + 1 /\ LastOf(n, w) = UpTo(n, w + 1)
              /\ w > L => UpTo(n, w + 1) = UpTo(n, w)
  <2>1. w \in Nat /\ w + 1 \in Nat
    BY <1>1 DEF Threads
  <2>2. k * (w + 1) = k * w + k
    BY <1>4, <2>1
  <2>3. CASE w < L
    <3>1. UpTo(n, w) = k * w /\ UpTo(n, w + 1) = k * (w + 1)
      BY <1>1, <1>6, <2>1, <2>3
    <3>2. k * w \in Nat
      BY <1>1, <1>3, <2>1, <2>3
    <3> QED
      BY <1>1, <1>7, <2>1, <2>2, <2>3, <3>1, <3>2
  <2>4. CASE w = L
    <3>1. UpTo(n, w) = k * w /\ UpTo(n, w + 1) = n
      BY <1>1, <1>6, <2>1, <2>4
    <3>2. UpTo(n, w) \in Nat /\ UpTo(n, w) < n
      BY <1>3, <2>1, <2>4, <3>1
    <3>3. FirstOf(n, w) = k * w + 1 /\ LastOf(n, w) = n
      BY <1>7, <2>1, <2>4
    <3>4. ~ (w > L) /\ n \in Nat
      BY <1>1, <2>4
    <3> QED
      BY <3>1, <3>2, <3>3, <3>4
  <2>5. CASE w > L
    BY <1>1, <1>6, <2>1, <2>5
  <2> QED
    BY <1>1, <2>1, <2>3, <2>4, <2>5
<1> QED
  BY <1>8, <1>9, <1>10 DEF L

\* The events of readout b that thread w is given.
Part(b, n, w) == [k \in 1..UpTo(n, w + 1) - UpTo(n, w) |-> <<b, UpTo(n, w) + k>>]

\* Events of readout b, in order and none behind number m.
InOrder(s, b, m) ==
  /\ s \in Seq(Events) /\ Len(s) <= m
  /\ \A i \in DOMAIN s : s[i] \in {b} \X (1..m)
  /\ \A i, j \in DOMAIN s : i < j => s[i][2] < s[j][2]

\* The events of a thread, one by one.
LEMMA PartElements ==
  ASSUME NEW n \in Nat \ {0}, NEW b \in Nat, NEW w \in Threads
  PROVE  /\ UpTo(n, w) \in Nat /\ UpTo(n, w + 1) \in Nat /\ UpTo(n, w) <= UpTo(n, w + 1)
         /\ Part(b, n, w) \in Seq(Events) /\ Len(Part(b, n, w)) = UpTo(n, w + 1) - UpTo(n, w)
         /\ \A k \in 1..UpTo(n, w + 1) - UpTo(n, w) : Part(b, n, w)[k] = <<b, UpTo(n, w) + k>>
<1> DEFINE m == UpTo(n, w)
           l == UpTo(n, w + 1)
           d == l - m
           u == [k \in 1..d |-> <<b, m + k>>]
<1>1. m \in Nat /\ l \in Nat /\ m <= l
  BY ChunksInLine, ThreadsAssumption DEF Threads
<1>2. \A k \in 1..d : <<b, m + k>> \in Events
  <2> HIDE DEF m, l
  <2> QED
    BY <1>1 DEF Events
<1>3. Part(b, n, w) = u
  BY DEF Part
<1>4. d \in Nat
  BY <1>1
<1>5. \A k \in 1..d : u[k] \in Events
  BY <1>2
<1> HIDE DEF Events, m, l, d
<1>6. DOMAIN u = 1..d /\ \A k \in 1..d : u[k] = <<b, m + k>>
  OBVIOUS
<1>7. u \in [1..d -> Events]
  BY <1>5
<1> HIDE DEF u
<1>8. u \in Seq(Events) /\ Len(u) = d
  BY <1>4, <1>6, <1>7
<1> QED
  BY <1>1, <1>3, <1>6, <1>8 DEF d, l, m

\* The events of a thread are behind those of the threads before it.
LEMMA PartFollows ==
  ASSUME NEW n \in Nat \ {0}, NEW b \in Nat, NEW w \in Threads, NEW s, InOrder(s, b, UpTo(n, w))
  PROVE  /\ InOrder(s \o Part(b, n, w), b, UpTo(n, w + 1))
         /\ InOrder(s \o << >>, b, UpTo(n, w + 1))
         /\ Len(s \o Part(b, n, w)) = Len(s) + (UpTo(n, w + 1) - UpTo(n, w))
         /\ Len(s \o << >>) = Len(s)
<1> DEFINE m == UpTo(n, w)
           l == UpTo(n, w + 1)
           t == s \o Part(b, n, w)
<1>1. m \in Nat /\ l \in Nat /\ m <= l
  BY PartElements
<1>2. Part(b, n, w) \in Seq(Events) /\ Len(Part(b, n, w)) = l - m
      /\ \A k \in 1..l - m : Part(b, n, w)[k] = <<b, m + k>>
  BY PartElements
<1>3. /\ s \in Seq(Events) /\ Len(s) \in Nat /\ Len(s) <= m /\ DOMAIN s = 1..Len(s)
      /\ \A i \in 1..Len(s) : s[i] \in {b} \X (1..m)
      /\ \A i, j \in 1..Len(s) : i < j => s[i][2] < s[j][2]
  BY DEF InOrder
<1> HIDE DEF m, l
<1>4. /\ t \in Seq(Events) /\ Len(t) = Len(s) + (l - m)
      /\ DOMAIN t = 1..Len(s) + (l - m)
      /\ \A i \in 1..Len(s) : t[i] = s[i]
      /\ \A i \in 1..l - m : t[Len(s) + i] = <<b, m + i>>
  <2> DEFINE u == Part(b, n, w)
  <2>1. u \in Seq(Events) /\ Len(u) = l - m /\ \A k \in 1..l - m : u[k] = <<b, m + k>>
    BY <1>2
  <2> HIDE DEF u, Events
  <2>2. /\ s \o u \in Seq(Events) /\ Len(s \o u) = Len(s) + (l - m)
        /\ DOMAIN (s \o u) = 1..Len(s) + (l - m)
        /\ \A i \in 1..Len(s) : (s \o u)[i] = s[i]
        /\ \A i \in 1..l - m : (s \o u)[Len(s) + i] = u[i]
    <3> DEFINE e == l - m
    <3>1. e \in Nat /\ Len(u) = e
      BY <1>1, <2>1
    <3> HIDE DEF e
    <3>2. /\ s \o u \in Seq(Events) /\ Len(s \o u) = Len(s) + Len(u)
          /\ \A i \in 1..Len(s) + Len(u) : (s \o u)[i] = IF i <= Len(s) THEN s[i] ELSE u[i - Len(s)]
      BY <1>3, <2>1, ConcatProperties
    <3>3. \A i \in 1..Len(s) : (s \o u)[i] = s[i]
      BY <1>3, <3>1, <3>2
    <3>4. \A i \in 1..Len(u) : (s \o u)[Len(s) + i] = u[i]
      BY <1>3, <3>1, <3>2
    <3>5. DOMAIN (s \o u) = 1..Len(s) + e
      BY <1>3, <3>1, <3>2
    <3> QED
      BY <3>1, <3>2, <3>3, <3>4, <3>5 DEF e
  <2> QED
    BY <2>1, <2>2 DEF u
<1> HIDE DEF t
<1>5. InOrder(t, b, l)
  <2>1. Len(t) <= l
    BY <1>1, <1>3, <1>4
  <2>2. ASSUME NEW i \in DOMAIN t
        PROVE  /\ t[i] \in {b} \X (1..l)
               /\ i <= Len(s) => t[i] = s[i] /\ t[i][2] \in 1..m
               /\ i > Len(s) => t[i][2] = m + (i - Len(s))
    <3>1. i \in Nat /\ i >= 1 /\ i <= Len(s) + (l - m)
      BY <1>1, <1>3, <1>4
    <3>2. CASE i <= Len(s)
      <4>1. t[i] = s[i] /\ s[i] \in {b} \X (1..m)
        BY <1>3, <1>4, <3>1, <3>2
      <4> QED
        BY <1>1, <1>3, <3>1, <3>2, <4>1
    <3>3. CASE i > Len(s)
      <4>1. i - Len(s) \in 1..l - m /\ Len(s) + (i - Len(s)) = i
        BY <1>1, <1>3, <3>1, <3>3
      <4>2. t[i] = <<b, m + (i - Len(s))>>
        BY <1>4, <4>1
      <4> QED
        BY <1>1, <1>3, <3>3, <4>1, <4>2
    <3> QED
      BY <1>3, <3>1, <3>2, <3>3
  <2>3. ASSUME NEW i \in DOMAIN t, NEW j \in DOMAIN t, i < j PROVE t[i][2] < t[j][2]
    <3>1. i \in Nat /\ j \in Nat /\ i \in 1..Len(t) /\ j \in 1..Len(t)
      BY <1>1, <1>3, <1>4
    <3>2. CASE j <= Len(s)
      BY <1>3, <2>2, <2>3, <3>1, <3>2
    <3>3. CASE i <= Len(s) /\ j > Len(s)
      BY <1>1, <1>3, <2>2, <3>1, <3>3
    <3>4. CASE i > Len(s)
      <4>1. t[i][2] = m + (i - Len(s))
        BY <1>3, <2>2, <3>1, <3>4
      <4>2. j > Len(s)
        BY <1>3, <2>3, <3>1, <3>4
      <4>3. t[j][2] = m + (j - Len(s))
        BY <1>3, <2>2, <3>1, <4>2
      <4> QED
        BY <1>1, <1>3, <2>3, <3>1, <4>1, <4>3
    <3> QED
      BY <1>3, <3>1, <3>2, <3>3, <3>4
  <2> QED
    BY <1>4, <2>1, <2>2, <2>3 DEF InOrder
<1>6. s \o << >> = s
  BY <1>3
<1>7. InOrder(s, b, l)
  <2>1. \A i \in DOMAIN s : s[i] \in {b} \X (1..l)
    BY <1>1, <1>3
  <2> QED
    BY <1>1, <1>3, <2>1 DEF InOrder
<1> QED
  BY <1>4, <1>5, <1>6, <1>7 DEF t, l, m

\* u has, for each i up to n, what the threads before i decoded, in a row.
Rows(u, ev, n) == u = [i \in 0..n |-> IF i = 0 THEN << >> ELSE u[i - 1] \o ev[i - 1]]

\* The rows can be built one behind the other, so the recursion of
\* Concatenation defines a function.
LEMMA RowsExist ==
  ASSUME NEW ev
  PROVE  \A n \in Nat : \E u : Rows(u, ev, n)
<1> DEFINE T == {n \in Nat : \E u : Rows(u, ev, n)}
<1>1. 0 \in T
  <2>1. Rows([i \in 0..0 |-> << >>], ev, 0)
    BY DEF Rows
  <2> QED
    BY <2>1
<1>2. ASSUME NEW n \in Nat, n \in T PROVE n + 1 \in T
  <2>1. PICK u : Rows(u, ev, n)
    BY <1>2
  <2> DEFINE v == [i \in 0..n + 1 |-> IF i = n + 1 THEN u[n] \o ev[n] ELSE u[i]]
  <2>2. \A i \in 0..n : v[i] = u[i] /\ u[i] = IF i = 0 THEN << >> ELSE u[i - 1] \o ev[i - 1]
    BY <1>2, <2>1 DEF Rows
  <2>3. v[n + 1] = v[n] \o ev[n] /\ n + 1 # 0 /\ (n + 1) - 1 = n
    <3>1. n + 1 \in 0..n + 1 /\ n \in 0..n + 1 /\ n # n + 1 /\ n + 1 # 0 /\ (n + 1) - 1 = n
      BY <1>2
    <3>2. v[n + 1] = u[n] \o ev[n]
      BY <3>1
    <3>3. v[n] = u[n]
      BY <3>1
    <3> QED
      BY <3>1, <3>2, <3>3
  <2>4. DOMAIN v = 0..n + 1 /\ v = [i \in 0..n + 1 |-> v[i]]
    OBVIOUS
  <2> HIDE DEF v
  <2>5. ASSUME NEW i \in 0..n + 1
        PROVE  v[i] = IF i = 0 THEN << >> ELSE v[i - 1] \o ev[i - 1]
    <3>1. CASE i = n + 1
      BY <2>3, <3>1
    <3>2. CASE i # n + 1
      <4>1. i \in 0..n /\ (i # 0 => i - 1 \in 0..n)
        BY <1>2, <3>2
      <4> QED
        BY <2>2, <4>1
    <3> QED
      BY <3>1, <3>2
  <2>6. Rows(v, ev, n + 1)
    BY <2>4, <2>5 DEF Rows
  <2> QED
    BY <1>2, <2>6
<1> QED
  <2> HIDE DEF T
  <2>1. \A i \in Nat : i \in T
    BY <1>1, <1>2, InductionOnSet
  <2> QED
    BY <2>1 DEF T

\* Concatenation is the last of the rows.
LEMMA ConcatenationIsLastRow ==
  \E u : Rows(u, vecEvents, NTHREADS) /\ Concatenation = u[NTHREADS]
<1> DEFINE c == CHOOSE u : Rows(u, vecEvents, NTHREADS)
<1>1. Rows(c, vecEvents, NTHREADS)
  BY RowsExist, ThreadsAssumption
<1>2. Concatenation = c[NTHREADS]
  BY DEF Concatenation, Rows
<1> QED
  BY <1>1, <1>2

\* Whatever chunks were lost, what the threads before i decoded is in order, and
\* complete exactly if each of them decoded its chunk.
LEMMA RowsInOrder ==
  ASSUME NEW n \in Nat \ {0}, NEW b \in Nat, NEW ev, NEW u, Rows(u, ev, NTHREADS),
         \A w \in Threads : ev[w] = << >> \/ ev[w] = Part(b, n, w)
  PROVE  /\ InOrder(u[NTHREADS], b, n)
         /\ Len(u[NTHREADS]) = n <=> \A w \in Threads : ev[w] = Part(b, n, w)
<1> DEFINE Good(i) == /\ InOrder(u[i], b, UpTo(n, i))
                      /\ Len(u[i]) = UpTo(n, i) <=> \A w \in 0..i - 1 : ev[w] = Part(b, n, w)
           T == {i \in Nat : i <= NTHREADS => Good(i)}
<1>1. NTHREADS \in Nat \ {0} /\ Threads = 0..NTHREADS - 1
  BY ThreadsAssumption DEF Threads
<1>2. \A i \in 0..NTHREADS : u[i] = IF i = 0 THEN << >> ELSE u[i - 1] \o ev[i - 1]
  BY DEF Rows
<1>3. 0 \in T
  <2>1. u[0] = << >> /\ UpTo(n, 0) = 0
    <3>1. 0 \in 0..NTHREADS
      BY <1>1
    <3>2. UpTo(n, 0) = 0
      BY ChunksInLine
    <3> QED
      BY <1>2, <3>1, <3>2
  <2>2. InOrder(<< >>, b, 0)
    BY DEF InOrder
  <2>3. 0..0 - 1 = {}
    OBVIOUS
  <2> QED
    BY <2>1, <2>2, <2>3
<1>4. ASSUME NEW i \in Nat, i \in T PROVE i + 1 \in T
  <2> SUFFICES ASSUME i + 1 <= NTHREADS PROVE Good(i + 1)
    OBVIOUS
  <2> DEFINE m == UpTo(n, i)
             l == UpTo(n, i + 1)
  <2>1. i \in Threads /\ i + 1 \in 0..NTHREADS /\ i + 1 # 0 /\ (i + 1) - 1 = i /\ i <= NTHREADS
    BY <1>1, <1>4
  <2>2. InOrder(u[i], b, m) /\ (Len(u[i]) = m <=> \A w \in 0..i - 1 : ev[w] = Part(b, n, w))
    BY <1>4, <2>1
  <2>3. u[i + 1] = u[i] \o ev[i]
    BY <1>2, <2>1
  <2>4. 0..(i + 1) - 1 = (0..i - 1) \cup {i}
    BY <1>4
  <2>5. m \in Nat /\ l \in Nat /\ m <= l
    <3>1. i \in 0..NTHREADS
      BY <1>4, <2>1
    <3> QED
      BY <2>1, <3>1, ChunksInLine
  <2>6. Len(u[i]) \in Nat /\ Len(u[i]) <= m
    BY <2>2 DEF InOrder
  <2>7. /\ InOrder(u[i] \o Part(b, n, i), b, l) /\ InOrder(u[i] \o << >>, b, l)
        /\ Len(u[i] \o Part(b, n, i)) = Len(u[i]) + (l - m) /\ Len(u[i] \o << >>) = Len(u[i])
    <3>1. i \in Threads
      BY <2>1
    <3>2. InOrder(u[i], b, UpTo(n, i))
      BY <2>2
    <3> HIDE DEF m, l, T
    <3>3. InOrder(u[i] \o Part(b, n, i), b, UpTo(n, i + 1))
      BY <3>1, <3>2, PartFollows
    <3>4. InOrder(u[i] \o << >>, b, UpTo(n, i + 1))
      BY <3>1, <3>2, PartFollows
    <3>5. Len(u[i] \o << >>) = Len(u[i])
      BY <3>1, <3>2, PartFollows
    <3>6. Len(u[i] \o Part(b, n, i)) = Len(u[i]) + (UpTo(n, i + 1) - UpTo(n, i))
      BY <3>1, <3>2, PartFollows, Zenon
    <3> QED
      BY <3>3, <3>4, <3>5, <3>6 DEF m, l
  <2>8. m = l => Part(b, n, i) = << >>
    BY <2>5 DEF Part
  <2>9. InOrder(u[i + 1], b, l)
    BY <2>1, <2>3, <2>7
  <2>10. Len(u[i + 1]) = l <=> Len(u[i]) = m /\ ev[i] = Part(b, n, i)
    <3> HIDE DEF m, l
    <3>1. CASE ev[i] = Part(b, n, i)
      BY <2>3, <2>5, <2>6, <2>7, <3>1
    <3>2. CASE ev[i] # Part(b, n, i)
      <4>1. ev[i] = << >> /\ m # l
        BY <2>1, <2>8, <3>2
      <4> QED
        BY <2>3, <2>5, <2>6, <2>7, <3>2, <4>1
    <3> QED
      BY <3>1, <3>2
  <2> QED
    BY <2>2, <2>4, <2>9, <2>10
<1>5. Good(NTHREADS)
  <2> HIDE DEF T
  <2>1. NTHREADS \in T
    BY <1>1, <1>3, <1>4, InductionOnSet
  <2> QED
    BY <1>1, <2>1 DEF T
<1> QED
  BY <1>1, <1>5, ChunksInLine

\* What a call puts together: events of its readout in order, all of them if
\* every thread decoded its chunk and only then.
LEMMA ConcatenationInOrder ==
  ASSUME NEW n \in Nat \ {0}, NEW b \in Nat,
         \A w \in Threads : vecEvents[w] = << >> \/ vecEvents[w] = Part(b, n, w)
  PROVE  /\ InOrder(Concatenation, b, n)
         /\ Len(Concatenation) = n <=> \A w \in Threads : vecEvents[w] = Part(b, n, w)
BY ConcatenationIsLastRow, RowsInOrder

\* s has an event whose number is in E.
Holds(s, E) == \E i \in DOMAIN s : s[i][2] \in E

\* Two rows together have the events of both.
LEMMA BothHold ==
  ASSUME NEW s \in Seq(Events), NEW t \in Seq(Events), NEW E
  PROVE  Holds(s \o t, E) <=> Holds(s, E) \/ Holds(t, E)
<1> DEFINE c == s \o t
<1>1. /\ Len(s) \in Nat /\ Len(t) \in Nat /\ DOMAIN s = 1..Len(s) /\ DOMAIN t = 1..Len(t)
      /\ DOMAIN c = 1..Len(s) + Len(t)
      /\ \A i \in 1..Len(s) + Len(t) : c[i] = IF i <= Len(s) THEN s[i] ELSE t[i - Len(s)]
  <2> HIDE DEF Events
  <2> QED
    BY ConcatProperties, LenProperties
<1> HIDE DEF c
<1>2. ASSUME NEW i \in DOMAIN c, c[i][2] \in E PROVE Holds(s, E) \/ Holds(t, E)
  <2>1. CASE i <= Len(s)
    BY <1>1, <1>2, <2>1 DEF Holds
  <2>2. CASE ~ (i <= Len(s))
    <3>1. i - Len(s) \in DOMAIN t /\ c[i] = t[i - Len(s)]
      BY <1>1, <2>2
    <3> QED
      BY <1>2, <3>1 DEF Holds
  <2> QED
    BY <2>1, <2>2
<1>3. ASSUME NEW i \in DOMAIN s, s[i][2] \in E PROVE Holds(c, E)
  <2>1. i \in DOMAIN c /\ c[i] = s[i]
    BY <1>1
  <2> QED
    BY <1>3, <2>1 DEF Holds
<1>4. ASSUME NEW i \in DOMAIN t, t[i][2] \in E PROVE Holds(c, E)
  <2>1. Len(s) + i \in DOMAIN c /\ c[Len(s) + i] = t[i]
    <3>1. Len(s) + i \in 1..Len(s) + Len(t) /\ ~ (Len(s) + i <= Len(s)) /\ (Len(s) + i) - Len(s) = i
      BY <1>1
    <3> QED
      BY <1>1, <3>1
  <2> QED
    BY <1>4, <2>1 DEF Holds
<1> QED
  BY <1>2, <1>3, <1>4 DEF Holds, c

\* What is put together has the events of the threads and no others.
LEMMA RowsHold ==
  ASSUME NEW ev, NEW u, NEW E, Rows(u, ev, NTHREADS), \A w \in Threads : ev[w] \in Seq(Events)
  PROVE  Holds(u[NTHREADS], E) <=> \E w \in Threads : Holds(ev[w], E)
<1> DEFINE Good(i) == /\ u[i] \in Seq(Events)
                      /\ Holds(u[i], E) <=> \E w \in 0..i - 1 : Holds(ev[w], E)
           T == {i \in Nat : i <= NTHREADS => Good(i)}
<1>1. NTHREADS \in Nat \ {0} /\ Threads = 0..NTHREADS - 1
  BY ThreadsAssumption DEF Threads
<1>2. \A i \in 0..NTHREADS : u[i] = IF i = 0 THEN << >> ELSE u[i - 1] \o ev[i - 1]
  BY DEF Rows
<1>3. 0 \in T
  <2>1. u[0] = << >> /\ << >> \in Seq(Events)
    BY <1>1, <1>2
  <2>2. ~ Holds(<< >>, E) /\ 0..0 - 1 = {}
    BY DEF Holds
  <2> QED
    BY <2>1, <2>2
<1>4. ASSUME NEW i \in Nat, i \in T PROVE i + 1 \in T
  <2> SUFFICES ASSUME i + 1 <= NTHREADS PROVE Good(i + 1)
    OBVIOUS
  <2>1. i \in Threads /\ i + 1 \in 0..NTHREADS /\ i + 1 # 0 /\ (i + 1) - 1 = i /\ i <= NTHREADS
    BY <1>1, <1>4
  <2>2. Good(i)
    BY <1>4, <2>1
  <2>3. u[i + 1] = u[i] \o ev[i]
    BY <1>2, <2>1
  <2>4. 0..(i + 1) - 1 = (0..i - 1) \cup {i}
    BY <1>4
  <2>5. u[i] \in Seq(Events) /\ ev[i] \in Seq(Events)
    BY <2>1, <2>2
  <2>6. u[i] \o ev[i] \in Seq(Events) /\ (Holds(u[i] \o ev[i], E) <=> Holds(u[i], E) \/ Holds(ev[i], E))
    <3> HIDE DEF T, Events
    <3> QED
      BY <2>5, BothHold, ConcatProperties
  <2> HIDE DEF Events
  <2> QED
    BY <2>2, <2>3, <2>4, <2>6
<1>5. Good(NTHREADS)
  <2> HIDE DEF T
  <2>1. NTHREADS \in T
    BY <1>1, <1>3, <1>4, InductionOnSet
  <2> QED
    BY <1>1, <2>1 DEF T
<1> QED
  BY <1>1, <1>5

\* Of the vectors of the threads: their bits are the bits of the whole.
LEMMA ConcatenationHolds ==
  ASSUME NEW E, \A w \in Threads : vecEvents[w] \in Seq(Events)
  PROVE  Holds(Concatenation, E) <=> \E w \in Threads : Holds(vecEvents[w], E)
BY ConcatenationIsLastRow, RowsHold

\* Every event of the readout is given to a thread.
LEMMA EveryEventIsGiven ==
  ASSUME NEW n \in Nat \ {0}, NEW b \in Nat, NEW e \in 1..n, NEW E, e \in E
  PROVE  \E w \in Threads : Holds(Part(b, n, w), E)
<1>1. PICK w \in Threads : e \in Chunk(n, w)
  BY ChunksCoverEvents
<1> DEFINE m == UpTo(n, w)
           l == UpTo(n, w + 1)
<1>2. m \in Nat /\ l \in Nat /\ m <= l /\ e \in m + 1..l
  <2>1. w <= LastChunk(n) /\ e \in FirstOf(n, w)..LastOf(n, w)
    BY <1>1 DEF Chunk
  <2>2. FirstOf(n, w) = m + 1 /\ LastOf(n, w) = l
    BY <2>1, ChunksInLine
  <2>3. m \in Nat /\ l \in Nat /\ m <= l
    BY PartElements
  <2> HIDE DEF m, l
  <2> QED
    BY <2>1, <2>2, <2>3
<1>3. /\ Part(b, n, w) \in Seq(Events) /\ Len(Part(b, n, w)) = l - m
      /\ \A k \in 1..l - m : Part(b, n, w)[k] = <<b, m + k>>
  BY PartElements
<1> HIDE DEF m, l
<1>4. e - m \in 1..l - m /\ m + (e - m) = e
  BY <1>2
<1>5. e - m \in DOMAIN Part(b, n, w) /\ Part(b, n, w)[e - m][2] = e
  <2>1. DOMAIN Part(b, n, w) = 1..l - m
    <3> HIDE DEF Events
    <3> QED
      BY <1>3, LenProperties
  <2> QED
    BY <1>3, <1>4, <2>1
<1> QED
  BY <1>5 DEF Holds

\* The chunk a call gives to a thread.
LEMMA ChunkEventsArePart ==
  ASSUME NEW n \in Nat \ {0}, NEW w \in Threads
  PROVE  ChunkEvents(n, w) = Part(batch + 1, n, w)
<1> DEFINE m == UpTo(n, w)
           l == UpTo(n, w + 1)
<1>1. w \in Nat /\ LastChunk(n) \in Nat
  BY LastChunkIsLeast, ThreadsAssumption DEF Threads
<1>2. m \in Nat /\ l \in Nat /\ m <= l
  BY ChunksInLine, ThreadsAssumption DEF Threads
<1>3. CASE w <= LastChunk(n)
  <2>1. FirstOf(n, w) = m + 1 /\ LastOf(n, w) = l
    BY <1>3, ChunksInLine
  <2> HIDE DEF m, l
  <2>2. LastOf(n, w) - FirstOf(n, w) + 1 = l - m /\ \A k \in Nat : FirstOf(n, w) + k - 1 = m + k
    BY <1>2, <2>1
  <2> QED
    BY <1>3, <2>2 DEF ChunkEvents, Part, m, l
<1>4. CASE ~ (w <= LastChunk(n))
  <2>1. l = m
    BY <1>1, <1>4, ChunksInLine
  <2> HIDE DEF m, l
  <2>2. l - m = 0
    BY <1>2, <2>1
  <2> QED
    BY <1>4, <2>2 DEF ChunkEvents, Part, m, l
<1> QED
  BY <1>3, <1>4

-----------------------------------------------------------------------------
(* What the threads and the readout have in hand.                          *)

\* The chunk was decoded and the status has the bits of its events, or it is lost
\* and was not empty.
Decoded(w) ==
  \/ vecEvents[w] = Part(batch, count, w) /\ vecEventStatus[w] = BitsOf(Part(batch, count, w))
  \/ vecEvents[w] = << >> /\ Part(batch, count, w) # << >> /\ vecEventStatus[w] = {"CORRUPTED"}

\* A thread has its chunk as long as the call lasts, and its events from the
\* moment it has decoded until the call puts them together.
ChunkInHand ==
  \A w \in Threads :
    /\ vecEventStart[w] = IF runPc = "idle" THEN << >> ELSE Part(batch, count, w)
    /\ IF runPc \in {"notify", "spin"} /\ (pc[w] = "report" \/ vecWorkDone[w])
       THEN Decoded(w)
       ELSE vecEvents[w] = << >> /\ vecEventStatus[w] = GOOD

\* What the last call returned.
Returned ==
  runPc = "idle" /\ batch > 0 =>
    /\ InOrder(decodedEvents, batch, count)
    /\ "CORRUPTED" \in eventStatus <=> Len(decodedEvents) # count
    /\ "FLAGGED" \in eventStatus <=> Holds(decodedEvents, flagged)
    /\ eventStatus = GOOD => count > 0 /\ flagged = {}

\* A readout in the hands of the threads has events, some of them with errors.
InHand == (runPc # "idle" => count # 0) /\ flagged \subseteq 1..count

DataInv == TypeOK /\ HandOver /\ ChunkInHand /\ Returned /\ InHand

\* What is returned is packed in order.
LEMMA ReturnedIsPacked == DataInv => PackedInOrder
BY DEF DataInv, Returned, PackedInOrder, InOrder, Holds, GOOD

\* The invariant of the data holds at the start,
LEMMA DataInit == Init => DataInv
<1> SUFFICES ASSUME Init PROVE DataInv
  OBVIOUS
<1>1. << >> \in Seq(Events)
  OBVIOUS
<1>2. TypeOK
  <2> HIDE DEF Events
  <2> QED
    BY <1>1 DEF Init, TypeOK, Status, GOOD
<1>3. ChunkInHand /\ Returned
  BY DEF Init, ChunkInHand, Returned
<1> QED
  BY <1>2, <1>3, HandOverInit DEF DataInv, InHand, Init

\* A thread that goes on elsewhere than to and from its report changes nothing
\* of what is in hand; decoding and reporting keep account of it.
LEMMA ThreadData ==
  ASSUME DataInv, NEW w \in Threads, Works(w) \/ SpuriousWakeUp(w)
  PROVE  DataInv'
<1>1. UNCHANGED <<control, readout, vecEventStart>>
  BY DEF Works, TestKeepRunning, CheckWork, Block, Decode, Report, SpuriousWakeUp, control, decoding, readout
<1>2. HandOver'
  BY ThreadStep DEF DataInv
<1>3. Returned' /\ InHand'
  BY <1>1 DEF DataInv, Returned, InHand, readout
<1>4. PICK from, to : /\ Goto(w, from, to) /\ (from = "report" <=> Report(w))
                      /\ to \in {"exited", "test", "check", "falling", "blocked", "decode", "report"}
                      /\ to = "report" <=> \E corrupted \in BOOLEAN : Decode(w, corrupted)
  BY DEF Works, TestKeepRunning, CheckWork, Block, Decode, Report, SpuriousWakeUp, Goto
<1>5. /\ pc[w] = from /\ pc'[w] = to /\ pc' = [v \in Threads |-> pc'[v]]
      /\ \A v \in Threads \ {w} : pc'[v] = pc[v]
  BY <1>4, GotoEffect DEF DataInv
<1>6. TypeOK /\ pc' \in [Threads -> {"exited", "test", "check", "falling", "blocked", "decode", "report"}]
  <2>1. TypeOK
    BY DEF DataInv
  <2> QED
    BY <1>4, <1>5, <2>1 DEF TypeOK
<1>7. CASE \E corrupted \in BOOLEAN : Decode(w, corrupted)
  <2>1. PICK corrupted \in BOOLEAN : Decode(w, corrupted)
    BY <1>7
  <2>2. from = "decode" /\ to = "report" /\ UNCHANGED vecWorkDone /\ ~ vecWorkDone[w]
    BY <1>4, <1>5, <2>1 DEF Decode, Goto, HandOver, DataInv
  <2>3. ChunkInHand
    BY DEF DataInv
  <2>4. /\ vecEvents[w] = << >> /\ vecEventStatus[w] = GOOD
        /\ vecEventStart[w] = IF runPc = "idle" THEN << >> ELSE Part(batch, count, w)
    BY <1>5, <2>2, <2>3 DEF ChunkInHand
  <2>5. vecEventStart[w] \in Seq(Events) /\ << >> \in Seq(Events)
    BY <1>6 DEF TypeOK
  <2>6. << >> \o vecEventStart[w] = vecEventStart[w]
    BY <2>5, ConcatEmptySeq
  <2>7. /\ vecEvents' = [vecEvents EXCEPT ![w] = vecEvents'[w]]
        /\ vecEventStatus' = [vecEventStatus EXCEPT ![w] = vecEventStatus'[w]]
        /\ vecEvents'[w] = IF corrupted THEN << >> ELSE vecEventStart[w]
        /\ vecEventStatus'[w] = IF corrupted THEN {"CORRUPTED"} ELSE BitsOf(vecEventStart[w])
        /\ corrupted => vecEventStart[w] # << >>
    <3>1. BitsOf(<< >>) = GOOD
      BY DEF BitsOf
    <3> QED
      BY <1>6, <2>1, <2>4, <2>6, <3>1 DEF Decode, TypeOK
  <2>8. /\ vecEvents' \in [Threads -> Seq(Events)] /\ vecEventStatus' \in [Threads -> Status]
        /\ \A v \in Threads \ {w} : vecEvents'[v] = vecEvents[v] /\ vecEventStatus'[v] = vecEventStatus[v]
    <3>1. vecEvents'[w] \in Seq(Events) /\ vecEventStatus'[w] \in Status
      BY <2>5, <2>7 DEF Status, BitsOf, GOOD
    <3> HIDE DEF Events, Status
    <3> QED
      BY <1>6, <2>7, <3>1 DEF TypeOK
  <2>9. TypeOK'
    BY <1>1, <1>6, <2>2, <2>8 DEF TypeOK, control, readout
  <2>10. runPc # "idle" => runPc \in {"notify", "spin"}
    <3>1. ASSUME runPc = "post" PROVE FALSE
      BY <1>5, <2>2, <3>1, <1>6 DEF HandOver, DataInv, TypeOK
    <3> QED
      BY <1>6, <3>1 DEF TypeOK
  <2>11. ASSUME NEW v \in Threads PROVE ChunkInHand!(v)'
    <3>1. CASE v = w
      BY <1>1, <1>5, <2>2, <2>4, <2>7, <2>10, <3>1 DEF Decoded, BitsOf, readout
    <3>2. CASE v # w
      BY <1>1, <1>5, <2>2, <2>3, <2>8, <3>2 DEF Decoded, BitsOf, readout, ChunkInHand
    <3> QED
      BY <3>1, <3>2
  <2> QED
    BY <1>2, <1>3, <2>9, <2>11 DEF DataInv, ChunkInHand
<1>8. CASE Report(w)
  <2>1. /\ from = "report" /\ to = "test" /\ UNCHANGED <<vecEvents, vecEventStatus>>
        /\ vecWorkDone' = [vecWorkDone EXCEPT ![w] = TRUE]
    BY <1>4, <1>5, <1>8 DEF Report, Goto
  <2>2. vecWorkDone' \in [Threads -> BOOLEAN] /\ \A v \in Threads \ {w} : vecWorkDone'[v] = vecWorkDone[v]
    BY <1>6, <2>1 DEF TypeOK
  <2>3. TypeOK'
    BY <1>1, <1>6, <2>1, <2>2 DEF TypeOK, control, readout
  <2>4. ChunkInHand'
    BY <1>1, <1>5, <2>1, <2>2 DEF ChunkInHand, Decoded, BitsOf, readout, DataInv
  <2> QED
    BY <1>2, <1>3, <2>3, <2>4 DEF DataInv
<1>9. CASE ~ Report(w) /\ ~ \E corrupted \in BOOLEAN : Decode(w, corrupted)
  <2>1. UNCHANGED decoding
    BY <1>9 DEF Works, TestKeepRunning, CheckWork, Block, SpuriousWakeUp, decoding
  <2>2. \A v \in Threads : pc'[v] = "report" <=> pc[v] = "report"
    BY <1>4, <1>5, <1>9
  <2>3. TypeOK'
    BY <1>1, <1>6, <2>1 DEF TypeOK, control, readout, decoding
  <2>4. ChunkInHand'
    BY <1>1, <2>1, <2>2 DEF ChunkInHand, Decoded, BitsOf, readout, decoding, DataInv
  <2> QED
    BY <1>2, <1>3, <2>3, <2>4 DEF DataInv
<1> QED
  BY <1>7, <1>8, <1>9

\* The readout hands the chunks out, and takes the decoded events when every
\* thread has reported.
LEMMA ReadoutData ==
  ASSUME DataInv, Calls \/ ReadoutWorks
  PROVE  TypeOK' /\ ChunkInHand' /\ Returned' /\ InHand'
<1> USE DecodersAssumption
<1>1. TypeOK /\ HandOver /\ ChunkInHand /\ Returned /\ InHand
  BY DEF DataInv
<1>2. CASE \E n \in EventCounts : \E withErrors \in SUBSET (FlaggedEvents \cap 1..n) : BeginDecoding(n, withErrors)
  <2> PICK n \in EventCounts : \E withErrors \in SUBSET (FlaggedEvents \cap 1..n) : BeginDecoding(n, withErrors)
    BY <1>2
  <2>1. PICK withErrors \in SUBSET (FlaggedEvents \cap 1..n) : BeginDecoding(n, withErrors)
    OBVIOUS
  <2>2. n \in Nat \ {0} /\ batch \in Nat /\ batch + 1 \in Nat
    BY <1>1 DEF TypeOK
  <2>3. /\ runPc = "idle" /\ runPc' = "post" /\ batch' = batch + 1 /\ count' = n
        /\ flagged' = withErrors /\ withErrors \subseteq 1..n
        /\ decodedEvents' = << >> /\ eventStatus' = GOOD
        /\ UNCHANGED <<control, pc, vecWorkDone, vecEvents, vecEventStatus>>
    BY <2>1 DEF BeginDecoding, TakeTurns
  <2>4. \A w \in Threads : Part(batch + 1, n, w) \in Seq(Events)
    BY <2>2, PartElements
  <2>5. vecEventStart' = [w \in Threads |-> Part(batch + 1, n, w)]
    <3>1. \A w \in Threads : vecEventStart[w] = << >> /\ ChunkEvents(n, w) = Part(batch + 1, n, w)
      BY <1>1, <2>2, <2>3, ChunkEventsArePart DEF ChunkInHand
    <3>2. \A w \in Threads : << >> \o Part(batch + 1, n, w) = Part(batch + 1, n, w)
      BY <2>4, ConcatEmptySeq
    <3>3. vecEventStart' = [w \in Threads |-> vecEventStart[w] \o ChunkEvents(n, w)]
      BY <2>1 DEF BeginDecoding
    <3> QED
      BY <3>1, <3>2, <3>3
  <2>6. vecEventStart' \in [Threads -> Seq(Events)] /\ << >> \in Seq(Events)
    <3> HIDE DEF Events
    <3> QED
      BY <2>4, <2>5
  <2>7. TypeOK'
    <3>1. flagged' \subseteq Nat /\ eventStatus' \in Status
      BY <2>2, <2>3 DEF Status, GOOD
    <3> HIDE DEF Events, Status
    <3> QED
      BY <1>1, <2>2, <2>3, <2>6, <3>1 DEF TypeOK, control
  <2>8. ChunkInHand'
    BY <1>1, <2>3, <2>5 DEF ChunkInHand
  <2> QED
    BY <2>2, <2>3, <2>7, <2>8 DEF Returned, InHand
<1>6. CASE \E error \in {"EMPTY", "EVSIZE", "NOEVHEADER"} : RefuseData(error)
  <2>1. PICK error \in {"EMPTY", "EVSIZE", "NOEVHEADER"} : RefuseData(error)
    BY <1>6
  <2>2. /\ runPc = "idle" /\ batch' = batch + 1 /\ count' = 0 /\ flagged' = {}
        /\ decodedEvents' = << >> /\ eventStatus' = {error}
        /\ UNCHANGED <<control, pc, decoding, runPc>>
    BY <2>1 DEF RefuseData, TakeTurns
  <2>3. << >> \in Seq(Events) /\ {error} \in Status /\ batch + 1 \in Nat
    BY <1>1 DEF Status, TypeOK
  <2>4. TypeOK'
    <3> HIDE DEF Events, Status
    <3> QED
      BY <1>1, <2>2, <2>3 DEF TypeOK, control, decoding
  <2>5. ChunkInHand'
    BY <1>1, <2>2 DEF ChunkInHand, decoding
  <2>6. InOrder(<< >>, batch + 1, 0) /\ ~ Holds(<< >>, {})
    BY DEF InOrder, Holds
  <2>7. Returned'
    BY <2>2, <2>6 DEF Returned, GOOD
  <2> QED
    BY <2>2, <2>4, <2>5, <2>7 DEF InHand
<1>3. CASE PostWork
  <2>1. /\ runPc = "post" /\ runPc' = "notify" /\ vecWorkDone' = [w \in Threads |-> FALSE]
        /\ UNCHANGED <<control, pc, vecEventStart, vecEvents, vecEventStatus, batch, count, flagged, decodedEvents, eventStatus>>
    BY <1>3 DEF PostWork
  <2>2. \A w \in Threads : pc[w] # "report"
    BY <1>1, <2>1 DEF HandOver
  <2>3. TypeOK'
    BY <1>1, <2>1 DEF TypeOK, control
  <2>4. ChunkInHand'
    BY <1>1, <2>1, <2>2 DEF ChunkInHand
  <2> QED
    BY <1>1, <2>1, <2>3, <2>4 DEF Returned, InHand
<1>4. CASE NotifyWork
  <2>1. /\ runPc = "notify" /\ runPc' = "spin" /\ WakeUpAll
        /\ UNCHANGED <<control, decoding, batch, count, flagged, decodedEvents, eventStatus>>
    BY <1>4 DEF NotifyWork
  <2>2. /\ \A w \in Threads : pc'[w] = "report" <=> pc[w] = "report"
        /\ pc' \in [Threads -> {"exited", "test", "check", "falling", "blocked", "decode", "report"}]
    BY <1>1, <2>1 DEF WakeUpAll, TypeOK
  <2>3. TypeOK'
    BY <1>1, <2>1, <2>2 DEF TypeOK, control, decoding
  <2>4. ChunkInHand'
    BY <1>1, <2>1, <2>2 DEF ChunkInHand, Decoded, BitsOf, decoding
  <2> QED
    BY <1>1, <2>1, <2>3, <2>4 DEF Returned, InHand
<1>5. CASE PackEvents
  <2>1. /\ runPc = "spin" /\ runPc' = "idle" /\ AllWorkDone /\ decodedEvents' = Concatenation
        /\ eventStatus' = UNION {vecEventStatus[w] : w \in Threads}
        /\ vecEvents' = [w \in Threads |-> << >>] /\ vecEventStart' = [w \in Threads |-> << >>]
        /\ vecEventStatus' = [w \in Threads |-> GOOD]
        /\ UNCHANGED <<control, pc, vecWorkDone, batch, count, flagged>>
    BY <1>5 DEF PackEvents
  <2>2. \A w \in Threads : Decoded(w) /\ vecEventStatus[w] \in Status /\ vecEvents[w] \in Seq(Events)
    BY <1>1, <2>1 DEF ChunkInHand, AllWorkDone, TypeOK
  <2>3. count \in Nat \ {0} /\ batch \in Nat /\ flagged \subseteq 1..count
    BY <1>1, <2>1 DEF TypeOK, InHand
  <2>4. \A w \in Threads : vecEvents[w] = << >> \/ vecEvents[w] = Part(batch, count, w)
    BY <2>2 DEF Decoded
  <2>5. /\ InOrder(Concatenation, batch, count)
        /\ Len(Concatenation) = count <=> \A w \in Threads : vecEvents[w] = Part(batch, count, w)
    BY <2>3, <2>4, ConcatenationInOrder
  <2>6. ASSUME NEW w \in Threads
        PROVE  /\ "CORRUPTED" \in vecEventStatus[w] <=> vecEvents[w] # Part(batch, count, w)
               /\ "FLAGGED" \in vecEventStatus[w] <=> Holds(vecEvents[w], flagged)
    <3>1. CASE vecEvents[w] = Part(batch, count, w) /\ vecEventStatus[w] = BitsOf(Part(batch, count, w))
      BY <3>1 DEF BitsOf, Holds, GOOD
    <3>2. CASE vecEvents[w] = << >> /\ Part(batch, count, w) # << >> /\ vecEventStatus[w] = {"CORRUPTED"}
      BY <3>2 DEF Holds
    <3> QED
      BY <2>2, <3>1, <3>2 DEF Decoded
  <2>7. /\ "CORRUPTED" \in eventStatus' <=> Len(Concatenation) # count
        /\ "FLAGGED" \in eventStatus' <=> Holds(Concatenation, flagged)
    <3>1. Holds(Concatenation, flagged) <=> \E w \in Threads : Holds(vecEvents[w], flagged)
      BY <2>2, ConcatenationHolds
    <3> QED
      BY <2>1, <2>5, <2>6, <3>1
  <2>8. ASSUME eventStatus' = GOOD PROVE flagged = {}
    <3>1. SUFFICES ASSUME NEW e \in flagged PROVE FALSE
      OBVIOUS
    <3>2. \A w \in Threads : vecEvents[w] = Part(batch, count, w) /\ ~ Holds(vecEvents[w], flagged)
      BY <2>1, <2>6, <2>8 DEF GOOD
    <3>3. \E w \in Threads : Holds(Part(batch, count, w), flagged)
      BY <2>3, EveryEventIsGiven
    <3> QED
      BY <3>2, <3>3
  <2>9. Concatenation \in Seq(Events) /\ << >> \in Seq(Events) /\ GOOD \in Status /\ eventStatus' \in Status
    <3>1. eventStatus' \in Status
      BY <2>1, <2>2 DEF Status
    <3> QED
      BY <2>5, <3>1 DEF InOrder, Status, GOOD
  <2>10. TypeOK'
    <3> HIDE DEF Events, Status
    <3> QED
      BY <1>1, <2>1, <2>9 DEF TypeOK, control
  <2>11. ChunkInHand'
    BY <2>1 DEF ChunkInHand
  <2>12. Returned'
    BY <2>1, <2>3, <2>5, <2>7, <2>8 DEF Returned
  <2> QED
    BY <2>1, <2>3, <2>10, <2>11, <2>12 DEF InHand
<1> QED
  BY <1>2, <1>3, <1>4, <1>5, <1>6 DEF Calls, ReadoutWorks

\* Forking and joining find no chunk in hand and leave none.
LEMMA MainData ==
  ASSUME DataInv, Main
  PROVE  TypeOK' /\ ChunkInHand' /\ Returned' /\ InHand'
<1>1. TypeOK /\ HandOver /\ ChunkInHand /\ Returned /\ InHand
  BY DEF DataInv
<1>2. UNCHANGED readout
  BY DEF Main, BeginJoin, PostExit, NotifyExit, EndJoin, ForkThreads
<1>3. Returned' /\ InHand'
  BY <1>1, <1>2 DEF Returned, InHand, readout
<1>4. runPc = "idle"
  BY <1>1 DEF Main, BeginJoin, PostExit, NotifyExit, EndJoin, ForkThreads, TakeTurns, HandOver
<1>5. CASE ForkThreads
  <2>1. << >> \in Seq(Events) /\ GOOD \in Status
    BY DEF Status, GOOD
  <2>2. TypeOK'
    <3> HIDE DEF Events, Status
    <3> QED
      BY <1>1, <1>2, <1>5, <2>1 DEF TypeOK, ForkThreads, readout
  <2>3. ChunkInHand'
    BY <1>2, <1>4, <1>5 DEF ChunkInHand, ForkThreads, readout
  <2> QED
    BY <1>3, <2>2, <2>3
<1>6. CASE ~ ForkThreads
  <2>1. /\ UNCHANGED <<forked, vecEventStart, vecEvents, vecEventStatus>>
        /\ vecWorkDone' = vecWorkDone \/ vecWorkDone' = [w \in Threads |-> FALSE]
        /\ pc' = pc \/ WakeUpAll
        /\ keepDecodersRunning' \in {keepDecodersRunning, FALSE} /\ forking' \in {forking, TRUE, FALSE}
        /\ mainPc' \in {"idle", "post", "notify", "join"}
    BY <1>6 DEF Main, BeginJoin, PostExit, NotifyExit, EndJoin, decoding
  <2>2. TypeOK'
    BY <1>1, <1>2, <2>1 DEF TypeOK, WakeUpAll, readout
  <2>3. ChunkInHand'
    BY <1>1, <1>2, <1>4, <2>1 DEF ChunkInHand, readout
  <2> QED
    BY <1>3, <2>2, <2>3
<1> QED
  BY <1>5, <1>6

\* and no step breaks it.
LEMMA DataStep ==
  ASSUME DataInv, [Next]_vars
  PROVE  DataInv'
<1>1. HandOver'
  BY HandOverStep DEF DataInv
<1>2. CASE \E w \in Threads : Works(w) \/ SpuriousWakeUp(w)
  BY <1>2, ThreadData
<1>3. CASE Calls \/ ReadoutWorks
  BY <1>1, <1>3, ReadoutData DEF DataInv
<1>4. CASE Main
  BY <1>1, <1>4, MainData DEF DataInv
<1>5. CASE UNCHANGED vars
  BY <1>1, <1>5 DEF DataInv, TypeOK, ChunkInHand, Decoded, BitsOf, Returned, InHand, vars, control, decoding, readout
<1> QED
  BY <1>2, <1>3, <1>4, <1>5 DEF Next

\* Every variable keeps its range, the vectors of events included.
THEOREM TypeCorrect == Spec => []TypeOK
<1>1. DataInv => TypeOK
  BY DEF DataInv
<1>2. DataInv /\ [Next]_vars => DataInv'
  BY DataStep
<1> QED
  BY DataInit, <1>1, <1>2, PTL DEF Spec

\* However the threads were scheduled, a call returns the events of its readout in
\* their order, and a status that tells whether events are missing and whether
\* events returned carry error bits: a good one promises a complete, clean readout.
THEOREM EventsArePackedInOrder == Spec => []PackedInOrder
<1>1. DataInv /\ [Next]_vars => DataInv'
  BY DataStep
<1> QED
  BY DataInit, ReturnedIsPacked, <1>1, PTL DEF Spec
===============================================================================
