--------------------------- MODULE EventPartition ---------------------------
(***************************************************************************)
(* How RD53Event::DecodeEventsMultiThreads shares the events of a readout  *)
(* among the decoding threads 0..NTHREADS-1.  The events are numbered from *)
(* 1; a thread gets the consecutive events of Chunk(n, i).                 *)
(***************************************************************************)
EXTENDS Integers

CONSTANTS NTHREADS   \* half the hardware threads, rounded

\* NTHREADS is zero where the number of hardware threads is unknown; the
\* division by it is then a division by zero.
ASSUME ThreadsAssumption == NTHREADS \in Nat \ {0}

Threads == 0..NTHREADS - 1

\* nEvents, the ceiling of n / NTHREADS.
ChunkSize(n) == (n + NTHREADS - 1) \div NTHREADS

\* The loop leaves at the first thread whose chunk would reach the end of the
\* data, and at the last thread at the latest.
Leaves(n, i) == i = NTHREADS - 1 \/ ChunkSize(n) * (i + 1) >= n

LastChunk(n) == CHOOSE i \in Threads : Leaves(n, i) /\ \A j \in 0..i - 1 : ~Leaves(n, j)

\* Fault: the event before the chunk is in it.
FaultyFirstOf(n, i) == ChunkSize(n) * i

FirstOf(n, i) == ChunkSize(n) * i + 1

LastOf(n, i) == IF i < LastChunk(n) THEN ChunkSize(n) * (i + 1) ELSE n

Chunk(n, i) == IF i <= LastChunk(n) THEN FirstOf(n, i)..LastOf(n, i) ELSE {}
=============================================================================
