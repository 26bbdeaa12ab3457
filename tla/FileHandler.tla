----------------------------- MODULE FileHandler -----------------------------
(***************************************************************************)
(* The binary file handler of Utils/FileHandler.{h,cc}, opened for         *)
(* writing: a queue that the readout fills with setData, a thread that     *)
(* drains it into the file, and the two ways in which a handler is         *)
(* destroyed.                                                              *)
(*                                                                         *)
(*   SystemController::closeFileHandler calls closeFile, then deletes.     *)
(*   The firmware interfaces only delete.                                  *)
(*                                                                         *)
(* The owner of the handler is                                             *)
(*   live         nobody destroys the handler                              *)
(*   joining      in closeFile, called by closeFileHandler                 *)
(*   destructing  in the destructor, waiting for the queue to be empty     *)
(*   lastJoin     in closeFile, called by the destructor                   *)
(*   deleted      the handler is gone                                      *)
(* An empty vector is never written, and is left out.                      *)
(***************************************************************************)
EXTENDS Naturals, Sequences

CONSTANTS
  Data,      \* the vectors of words handed to setData
  MaxData    \* bound: number of calls of setData

ASSUME FileHandlerAssumption == MaxData \in Nat

VARIABLES
  fQueue,
  fFileIsOpened,
  fBinaryFile,   \* what has been written to the file
  writer,        \* program point of writeFile
  cData,         \* the data writeFile has taken from the queue, if any
  owner,
  submitted      \* history: the data handed to setData

thread == <<writer, cData>>
vars   == <<fQueue, fFileIsOpened, fBinaryFile, thread, owner, submitted>>

TypeOK ==
  /\ fQueue \in Seq(Data)
  /\ fFileIsOpened \in BOOLEAN
  /\ fBinaryFile \in Seq(Data)
  /\ writer \in {"test", "dequeue", "write", "returned"}
  /\ cData \in Seq(Data) /\ Len(cData) = (IF writer = "write" THEN 1 ELSE 0)
  /\ owner \in {"live", "joining", "destructing", "lastJoin", "deleted"}
  /\ submitted \in Seq(Data)

\* The constructor opens the file and starts the thread.
Init ==
  /\ fQueue = << >>
  /\ fFileIsOpened = TRUE
  /\ fBinaryFile = << >>
  /\ writer = "test"
  /\ cData = << >>
  /\ owner = "live"
  /\ submitted = << >>

-----------------------------------------------------------------------------
(* The readout.  Its calls end before the handler is destroyed.            *)

SetData(d) ==
  /\ owner = "live" /\ Len(submitted) < MaxData
  /\ fQueue' = Append(fQueue, d)
  /\ submitted' = Append(submitted, d)
  /\ UNCHANGED <<fFileIsOpened, fBinaryFile, thread, owner>>

-----------------------------------------------------------------------------
(* The thread: writeFile.                                                  *)

\* Fault: the thread ends when it finds nothing to do.
FaultyTestOpen ==
  /\ writer = "test"
  /\ writer' = IF fFileIsOpened /\ fQueue # << >> THEN "dequeue" ELSE "returned"
  /\ UNCHANGED <<fQueue, fFileIsOpened, fBinaryFile, cData, owner, submitted>>

TestOpen ==
  /\ writer = "test"
  /\ writer' = IF fFileIsOpened THEN "dequeue" ELSE "returned"
  /\ UNCHANGED <<fQueue, fFileIsOpened, fBinaryFile, cData, owner, submitted>>

FoundEmpty ==
  /\ writer = "dequeue" /\ fQueue = << >>
  /\ writer' = "test"
  /\ UNCHANGED <<fQueue, fFileIsOpened, fBinaryFile, cData, owner, submitted>>

Dequeue ==
  /\ writer = "dequeue" /\ fQueue # << >>
  /\ writer' = "write"
  /\ cData' = <<Head(fQueue)>>
  /\ fQueue' = Tail(fQueue)
  /\ UNCHANGED <<fFileIsOpened, fBinaryFile, owner, submitted>>

Write ==
  /\ writer = "write"
  /\ writer' = "test"
  /\ fBinaryFile' = fBinaryFile \o cData
  /\ cData' = << >>
  /\ UNCHANGED <<fQueue, fFileIsOpened, owner, submitted>>

Writer == TestOpen \/ FoundEmpty \/ Dequeue \/ Write

-----------------------------------------------------------------------------
(* The owner.                                                              *)

\* SystemController::closeFileHandler, which begins with closeFile.
CloseFileHandler ==
  /\ owner = "live"
  /\ fFileIsOpened' = FALSE
  /\ owner' = "joining"
  /\ UNCHANGED <<fQueue, fBinaryFile, thread, submitted>>

\* The rest of that closeFile, then the delete.
JoinThenDelete ==
  /\ owner = "joining" /\ writer = "returned"
  /\ owner' = "destructing"
  /\ UNCHANGED <<fQueue, fFileIsOpened, fBinaryFile, thread, submitted>>

\* ~D19cFWInterface, ~RD53FWInterface.
Delete ==
  /\ owner = "live"
  /\ owner' = "destructing"
  /\ UNCHANGED <<fQueue, fFileIsOpened, fBinaryFile, thread, submitted>>

\* Fault: the destructor does not wait for the queue to be empty.
FaultyQueueIsEmpty ==
  /\ owner = "destructing"
  /\ owner' = IF fFileIsOpened THEN "lastJoin" ELSE "deleted"
  /\ fFileIsOpened' = FALSE
  /\ UNCHANGED <<fQueue, fBinaryFile, thread, submitted>>

\* The destructor sees the queue empty and calls closeFile, which does
\* nothing when the file is already closed.
QueueIsEmpty ==
  /\ owner = "destructing" /\ fQueue = << >>
  /\ owner' = IF fFileIsOpened THEN "lastJoin" ELSE "deleted"
  /\ fFileIsOpened' = FALSE
  /\ UNCHANGED <<fQueue, fBinaryFile, thread, submitted>>

JoinThenReturn ==
  /\ owner = "lastJoin" /\ writer = "returned"
  /\ owner' = "deleted"
  /\ UNCHANGED <<fQueue, fFileIsOpened, fBinaryFile, thread, submitted>>

Owner == CloseFileHandler \/ JoinThenDelete \/ Delete \/ QueueIsEmpty \/ JoinThenReturn

Next == (\E d \in Data : SetData(d)) \/ Writer \/ Owner

Spec == Init /\ [][Next]_vars

\* Both threads are scheduled; whether the handler is ever destroyed is open.
FairSpec ==
  /\ Spec
  /\ WF_vars(Writer)
  /\ WF_vars(JoinThenDelete \/ QueueIsEmpty \/ JoinThenReturn)

-----------------------------------------------------------------------------
(* Properties.                                                             *)

Store == INSTANCE RawDataStore
           WITH stored <- fBinaryFile, released <- (owner = "deleted")

\* The handler implements the data store: the file is a prefix of the data
\* handed to setData, in order, and is complete when the handler is gone.
ImplementsStore == Store!Spec

\* A handler that is only deleted, as the firmware interfaces do it, empties
\* its queue into the file and goes away.
DeleteCompletes == owner = "destructing" /\ fFileIsOpened ~> owner = "deleted"

\* What SaveBinaryData and closeFileHandler stand for: a handler that is being
\* closed stores what it was given and goes away.  TLC refutes it (README.md).
CloseCompletes == owner = "joining" ~> owner = "deleted"
=============================================================================
