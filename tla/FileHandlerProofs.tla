-------------------------- MODULE FileHandlerProofs --------------------------
(***************************************************************************)
(* Theorems about the binary file handler, for any data and any number of  *)
(* calls of setData.                                                       *)
(***************************************************************************)
EXTENDS FileHandler, SequenceTheorems, TLAPS

-----------------------------------------------------------------------------
(* Type correctness.                                                       *)

\* No step leaves the types.
LEMMA TypeStep == TypeOK /\ [Next]_vars => TypeOK'
<1> SUFFICES ASSUME TypeOK, [Next]_vars PROVE TypeOK'
  OBVIOUS
<1> USE DEF TypeOK, thread
<1>1. ASSUME NEW d \in Data, SetData(d) PROVE TypeOK'
  <2>1. fQueue' \in Seq(Data) /\ submitted' \in Seq(Data)
    BY <1>1 DEF SetData
  <2> QED
    BY <1>1, <2>1 DEF SetData
<1>2. CASE TestOpen
  BY <1>2 DEF TestOpen
<1>3. CASE FoundEmpty
  BY <1>3 DEF FoundEmpty
<1>4. CASE Dequeue
  <2>1. Head(fQueue) \in Data /\ Tail(fQueue) \in Seq(Data)
    BY <1>4 DEF Dequeue
  <2>2. cData' \in Seq(Data) /\ Len(cData') = 1 /\ fQueue' \in Seq(Data)
    BY <1>4, <2>1 DEF Dequeue
  <2> QED
    BY <1>4, <2>2 DEF Dequeue
<1>5. CASE Write
  <2>1. fBinaryFile' \in Seq(Data)
    BY <1>5 DEF Write
  <2>2. cData' \in Seq(Data) /\ Len(cData') = 0
    BY <1>5 DEF Write
  <2> QED
    BY <1>5, <2>1, <2>2 DEF Write
<1>6. CASE Owner
  BY <1>6 DEF Owner, CloseFileHandler, JoinThenDelete, Delete, QueueIsEmpty, JoinThenReturn
<1>7. CASE UNCHANGED vars
  BY <1>7 DEF vars
<1> QED
  BY <1>1, <1>2, <1>3, <1>4, <1>5, <1>6, <1>7 DEF Next, Writer

\* The variables keep their types.
THEOREM TypeCorrect == Spec => []TypeOK
<1>1. Init => TypeOK
  BY DEF Init, TypeOK
<1> QED
  BY <1>1, TypeStep, PTL DEF Spec

-----------------------------------------------------------------------------
(* Nothing is lost, duplicated or reordered.                               *)

\* The data handed over is in the file, in the writer's hands or in the queue,
\* in this order; and the handler goes away only once its thread has ended and
\* the queue is empty.
DataInv == submitted = (fBinaryFile \o cData) \o fQueue

OwnerInv ==
  /\ owner = "live" => fFileIsOpened
  /\ owner = "destructing" /\ ~fFileIsOpened => writer = "returned"
  /\ owner = "lastJoin" => fQueue = << >>
  /\ owner = "deleted" => writer = "returned" /\ fQueue = << >>

\* Sequences of data concatenate in any grouping.
LEMMA DataRegroups == \A r, s, u \in Seq(Data) : (r \o s) \o u = r \o (s \o u)
<1> TAKE r, s, u \in Seq(Data)
<1> QED
  BY ConcatAssociative

\* A step of the readout or of the writer moves data along without dropping it.
LEMMA DataStep == TypeOK /\ DataInv /\ [Next]_vars => DataInv'
<1> SUFFICES ASSUME TypeOK, DataInv, [Next]_vars PROVE DataInv'
  OBVIOUS
<1> USE DEF TypeOK, DataInv, thread
<1>1. ASSUME NEW d \in Data, SetData(d) PROVE DataInv'
  <2> DEFINE before == fBinaryFile \o cData
  <2>1. before \in Seq(Data) /\ <<d>> \in Seq(Data) /\ fQueue \in Seq(Data)
    OBVIOUS
  <2> HIDE DEF before, TypeOK
  <2>2. Append(before \o fQueue, d) = (before \o fQueue) \o <<d>>
    BY <2>1, AppendIsConcat, ConcatProperties
  <2>3. (before \o fQueue) \o <<d>> = before \o (fQueue \o <<d>>)
    BY <2>1, ConcatAssociative
  <2>4. fQueue \o <<d>> = Append(fQueue, d)
    BY <2>1, AppendIsConcat
  <2>5. /\ UNCHANGED <<fBinaryFile, cData>>
        /\ submitted' = Append(submitted, d) /\ fQueue' = Append(fQueue, d)
    BY <1>1 DEF SetData
  <2> QED
    BY <2>2, <2>3, <2>4, <2>5 DEF before
<1>2. CASE Dequeue
  <2>1. fQueue = <<Head(fQueue)>> \o Tail(fQueue)
    BY <1>2 DEF Dequeue
  <2>2. cData = << >>
    BY <1>2 DEF Dequeue
  <2>3. cData' \o fQueue' = fQueue /\ fBinaryFile' = fBinaryFile /\ submitted' = submitted
    BY <1>2, <2>1 DEF Dequeue
  <2>4. cData' \in Seq(Data) /\ fQueue' \in Seq(Data)
    BY TypeStep
  <2>5. (fBinaryFile \o cData') \o fQueue' = fBinaryFile \o (cData' \o fQueue')
    <3>1. fBinaryFile \in Seq(Data)
      BY DEF TypeOK
    <3> QED
      BY <2>4, <3>1, DataRegroups, Zenon
  <2>6. submitted = fBinaryFile \o fQueue
    BY <2>2
  <2> QED
    BY <2>3, <2>5, <2>6
<1>3. CASE Write
  <2>1. fBinaryFile' \o cData' = fBinaryFile \o cData
    BY <1>3 DEF Write
  <2> QED
    BY <1>3, <2>1 DEF Write
<1>4. CASE TestOpen \/ FoundEmpty \/ Owner \/ UNCHANGED vars
  BY <1>4 DEF TestOpen, FoundEmpty, Owner, CloseFileHandler, JoinThenDelete, Delete,
     QueueIsEmpty, JoinThenReturn, vars
<1> QED
  BY <1>1, <1>2, <1>3, <1>4 DEF Next, Writer

\* A step of any thread keeps the order in which the handler is taken down.
LEMMA OwnerStep == TypeOK /\ OwnerInv /\ [Next]_vars => OwnerInv'
<1> SUFFICES ASSUME TypeOK, OwnerInv, [Next]_vars PROVE OwnerInv'
  OBVIOUS
<1> USE DEF TypeOK, OwnerInv, thread
<1>1. ASSUME NEW d \in Data, SetData(d) PROVE OwnerInv'
  BY <1>1 DEF SetData
<1>2. CASE Writer
  BY <1>2 DEF Writer, TestOpen, FoundEmpty, Dequeue, Write
<1>3. CASE Owner
  BY <1>3 DEF Owner, CloseFileHandler, JoinThenDelete, Delete, QueueIsEmpty, JoinThenReturn
<1>4. CASE UNCHANGED vars
  BY <1>4 DEF vars
<1> QED
  BY <1>1, <1>2, <1>3, <1>4 DEF Next

-----------------------------------------------------------------------------
(* The refinement.                                                         *)

\* The initial state of the handler is one of the store.
LEMMA InitRefines == Init => Store!Init
BY DEF Init, Store!Init

\* Every step of the handler is one of the store, or changes none of what the
\* store sees.
LEMMA StepRefines ==
  TypeOK /\ DataInv /\ OwnerInv /\ [Next]_vars => [Store!Next]_(Store!storeVars)
<1> SUFFICES ASSUME TypeOK, DataInv, OwnerInv, [Next]_vars
             PROVE  [Store!Next]_(Store!storeVars)
  OBVIOUS
<1> USE DEF Store!storeVars
<1>1. ASSUME NEW d \in Data, SetData(d) PROVE Store!Submit
  BY <1>1 DEF SetData, Store!Submit
<1>2. CASE Write
  <2>1. PICK d \in Data : cData = <<d>>
    <3>1. cData \in Seq(Data) /\ Len(cData) = 1
      BY <1>2 DEF Write, TypeOK
    <3>2. cData[1] \in Data
      BY <3>1, ElementOfSeq
    <3>3. cData = <<cData[1]>>
      BY <3>1, LenProperties
    <3> QED
      BY <3>2, <3>3
  <2>2. owner # "deleted"
    BY <1>2 DEF Write, OwnerInv
  <2>3. Len(submitted) > Len(fBinaryFile) /\ submitted[Len(fBinaryFile) + 1] = d
    BY <2>1 DEF DataInv, TypeOK
  <2>4. fBinaryFile' = Append(fBinaryFile, d) /\ UNCHANGED <<submitted, owner>>
    BY <1>2, <2>1 DEF Write, TypeOK
  <2> QED
    BY <2>2, <2>3, <2>4 DEF Store!Next, Store!Store
<1>3. CASE QueueIsEmpty \/ JoinThenReturn
  <2>1. CASE owner' = "deleted"
    <3>1. owner # "deleted" /\ fQueue = << >> /\ writer = "returned"
      BY <1>3, <2>1 DEF QueueIsEmpty, JoinThenReturn, OwnerInv, TypeOK
    <3>2. cData = << >>
      BY <3>1 DEF TypeOK
    <3>3. fBinaryFile = submitted
      BY <3>1, <3>2 DEF DataInv, TypeOK
    <3>4. UNCHANGED <<submitted, fBinaryFile>>
      BY <1>3 DEF QueueIsEmpty, JoinThenReturn
    <3> QED
      BY <2>1, <3>1, <3>3, <3>4 DEF Store!Next, Store!Release
  <2>2. CASE owner' # "deleted"
    BY <1>3, <2>2 DEF QueueIsEmpty, JoinThenReturn
  <2> QED
    BY <2>1, <2>2
<1>4. CASE \/ TestOpen \/ FoundEmpty \/ Dequeue
           \/ CloseFileHandler \/ JoinThenDelete \/ Delete \/ UNCHANGED vars
  BY <1>4 DEF TestOpen, FoundEmpty, Dequeue, CloseFileHandler, JoinThenDelete, Delete, vars
<1> QED
  BY <1>1, <1>2, <1>3, <1>4 DEF Next, Writer, Owner, Store!Next

\* The handler implements the data store, whatever its threads do.
THEOREM Refinement == Spec => ImplementsStore
<1>1. Init => DataInv /\ OwnerInv
  BY DEF Init, DataInv, OwnerInv
<1>2. TypeOK /\ DataInv /\ OwnerInv /\ [Next]_vars => (DataInv /\ OwnerInv)'
  BY DataStep, OwnerStep
<1>3. Spec => [](TypeOK /\ DataInv /\ OwnerInv)
  BY <1>1, <1>2, TypeCorrect, PTL DEF Spec
<1> QED
  BY <1>3, InitRefines, StepRefines, PTL DEF Spec, ImplementsStore, Store!Spec
=============================================================================
