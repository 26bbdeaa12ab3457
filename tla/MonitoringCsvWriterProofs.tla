---------------------- MODULE MonitoringCsvWriterProofs ----------------------
(***************************************************************************)
(* Theorems about the CSV monitoring writer, for any chips, registers,     *)
(* virtual registers, runs and rotation limits.                            *)
(***************************************************************************)
EXTENDS MonitoringCsvWriter, SequenceTheorems, TLAPS

-----------------------------------------------------------------------------
(* Type correctness.                                                       *)

\* A register that is read gives a row of values, and the columns it adds are
\* columns.
LEMMA RecordValueTypes ==
  ASSUME TypeOK, NEW c \in Chips, NEW r \in Registers, NEW failing, RecordValue(c, r, failing)
  PROVE  /\ fValues' \in [Chips -> [Names -> Nat]]
         /\ fModuleValues' \in [Modules -> [ModuleVirtual -> Nat]]
         /\ fColumns' \subseteq Columns
<1> DEFINE measured == [fValues[c] EXCEPT ![r] = cycle]
           values == [fValues EXCEPT ![c] = UpdatedRow(@, r, failing)]
           aggregate == ModuleEvaluable(values, ModuleOf[c], failing)
<1>1. r \in Names /\ cycle \in Nat /\ fValues[c] \in [Names -> Nat] /\ ModuleOf[c] \in Modules
  BY WriterAssumption DEF TypeOK, Names
<1>2. measured \in [Names -> Nat]
  BY <1>1
<1>3. UpdatedRow(fValues[c], r, failing) \in [Names -> Nat]
  BY <1>1, <1>2 DEF UpdatedRow
<1>4. values \in [Chips -> [Names -> Nat]]
  BY <1>3 DEF TypeOK
<1>5. Evaluable(measured, failing) \subseteq Columns /\ aggregate \subseteq ModuleVirtual
  BY DEF Evaluable, ModuleEvaluable, Columns, Names
<1>6. fModuleValues[ModuleOf[c]] \in [ModuleVirtual -> Nat]
  BY <1>1 DEF TypeOK
<1>7. [v \in ModuleVirtual |-> IF v \in aggregate THEN cycle ELSE fModuleValues[ModuleOf[c]][v]]
        \in [ModuleVirtual -> Nat]
  BY <1>1, <1>6
<1>8. /\ fValues' = values
      /\ fModuleValues' = [fModuleValues EXCEPT ![ModuleOf[c]] =
           [v \in ModuleVirtual |-> IF v \in aggregate THEN cycle ELSE @[v]]]
      /\ fColumns' = fColumns \cup {r} \cup Evaluable(measured, failing) \cup aggregate
  BY DEF RecordValue
<1>9. fModuleValues' \in [Modules -> [ModuleVirtual -> Nat]]
  <2> HIDE DEF aggregate
  <2> QED
    BY <1>7, <1>8 DEF TypeOK
<1>10. fColumns' \subseteq Columns
  <2> HIDE DEF aggregate, measured
  <2> QED
    BY <1>1, <1>5, <1>8 DEF TypeOK, Columns
<1> QED
  BY <1>4, <1>8, <1>9, <1>10

\* The file name and the lines of a write have their types.
LEMMA WriteTypes ==
  ASSUME TypeOK
  PROVE  /\ NewPart \in Nat
         /\ NewStem \in Stems \cup {NoStem}
         /\ MustOpen => NewStem \in Stems
         /\ NewOutput \in Files \cup {NoFile}
         /\ HeaderColumns \subseteq Columns
         /\ HeaderLine \in Lines /\ RowsLine \in Lines
<1>1. NewPart \in Nat
  BY DEF TypeOK, NewPart
<1>2. NewStem \in Stems \cup {NoStem} /\ (MustOpen => NewStem \in Stems)
  <2>1. [meta |-> meta, second |-> second] \in Stems
    BY DEF TypeOK, Stems
  <2> QED
    BY <2>1 DEF TypeOK, NewStem
<1>3. MustOpen => [stem |-> NewStem, part |-> NewPart] \in Files
  BY <1>1, <1>2 DEF Files
<1>4. NewOutput \in Files \cup {NoFile}
  BY <1>3 DEF TypeOK, NewOutput
<1>5. HeaderColumns \subseteq Columns
  BY DEF TypeOK, HeaderColumns
<1>6. HeaderLine \in [kind : {"header"}, columns : SUBSET Columns]
  BY <1>5 DEF HeaderLine
<1>7. RowsLine \in [kind : {"rows"}, columns : SUBSET Columns,
                    chipCells : [Chips -> [Names -> Nat]],
                    moduleCells : [Modules -> [ModuleVirtual -> Nat]]]
  BY <1>5 DEF RowsLine, TypeOK
<1> QED
  BY <1>1, <1>2, <1>4, <1>5, <1>6, <1>7 DEF Lines

\* Appending lines keeps the files files, and touches one of them.
LEMMA AppendTypes ==
  ASSUME TypeOK, NEW f \in Files, NEW lines \in Seq(Lines), AppendTo(f, lines)
  PROVE  /\ DOMAIN disk' = DOMAIN disk \cup {f}
         /\ DOMAIN disk' \subseteq Files
         /\ \A g \in DOMAIN disk' : disk'[g] \in Seq(Lines)
         /\ disk'[f] = Contents(f) \o lines
         /\ \A g \in DOMAIN disk : g # f => disk'[g] = disk[g]
<1>1. Contents(f) \in Seq(Lines)
  BY DEF TypeOK, Contents
<1>2. Contents(f) \o lines \in Seq(Lines)
  BY <1>1, ConcatProperties
<1>3. disk' = [g \in DOMAIN disk \cup {f} |-> IF g = f THEN Contents(f) \o lines ELSE disk[g]]
  BY DEF AppendTo
<1>4. DOMAIN disk \subseteq Files /\ \A g \in DOMAIN disk : disk[g] \in Seq(Lines)
  BY DEF TypeOK
<1>5. \A g \in DOMAIN disk' : disk'[g] = IF g = f THEN Contents(f) \o lines ELSE disk[g]
  BY <1>3
<1>6. DOMAIN disk' = DOMAIN disk \cup {f}
  BY <1>3
<1> HIDE DEF Contents, Files, Lines
<1> QED
  BY <1>2, <1>4, <1>5, <1>6

\* What EndCycleWrites does to the disk, with its two cases as one.
LEMMA EndCycleAppends ==
  ASSUME TypeOK, EndCycleWrites
  PROVE  /\ NewOutput \in Files
         /\ \E lines \in Seq(Lines) :
              /\ lines = IF MustOpen THEN <<HeaderLine, RowsLine>> ELSE <<RowsLine>>
              /\ AppendTo(NewOutput, lines)
<1>1. NewOutput \in Files
  BY WriteTypes DEF NewOutput, MustOpen, TypeOK, Files
<1>2. <<HeaderLine, RowsLine>> \in Seq(Lines) /\ <<RowsLine>> \in Seq(Lines)
  BY WriteTypes
<1> QED
  BY <1>1, <1>2 DEF EndCycleWrites

\* No step leaves the types.
LEMMA TypeStep == TypeOK /\ [Next]_vars => TypeOK'
<1> SUFFICES ASSUME TypeOK, [Next]_vars PROVE TypeOK'
  OBVIOUS
<1> USE DEF flags, naming, output, cells, driver
<1>1. NoValues \in [Chips -> [Names -> Nat]] /\ NoModuleValues \in [Modules -> [ModuleVirtual -> Nat]]
  BY DEF NoValues, NoModuleValues, Absent
<1>2. CASE Tick
  BY <1>2 DEF Tick, TypeOK
<1>3. ASSUME NEW m \in Metas, NEW succeeds \in BOOLEAN, Start(m, succeeds) PROVE TypeOK'
  BY <1>1, <1>3 DEF Start, ClearCells, TypeOK
<1>4. ASSUME NEW m \in Metas, SetRunMetadata(m) PROVE TypeOK'
  BY <1>4 DEF SetRunMetadata, CloseOutputFile, TypeOK
<1>5. CASE Stop
  BY <1>1, <1>5 DEF Stop, CloseOutputFile, ClearCells, TypeOK
<1>6. CASE BeginCycle
  <2>1. CASE fRunning
    BY <1>1, <1>6, <2>1 DEF BeginCycle, ClearCells, TypeOK
  <2>2. CASE ~fRunning
    BY <1>6, <2>2 DEF BeginCycle, TypeOK
  <2> QED
    BY <2>1, <2>2
<1>7. ASSUME NEW c \in Chips, NEW r \in Registers, NEW failing \in SUBSET MayFail,
             Update(c, r, failing)
      PROVE  TypeOK'
  <2>1. /\ fValues' \in [Chips -> [Names -> Nat]]
        /\ fModuleValues' \in [Modules -> [ModuleVirtual -> Nat]]
        /\ fColumns' \subseteq Columns
    BY <1>7, RecordValueTypes DEF Update, TypeOK
  <2>2. pending' \subseteq Chips \X Registers /\ readDuring' \subseteq Metas
    BY <1>7 DEF Update, TypeOK
  <2> QED
    BY <1>7, <2>1, <2>2 DEF Update, TypeOK
<1>8. CASE CycleThrows
  BY <1>8 DEF CycleThrows, TypeOK
<1>9. CASE EndCycleSilently
  BY <1>9 DEF EndCycleSilently, TypeOK
<1>10. CASE EndCycleWrites
  <2>1. PICK lines \in Seq(Lines) : NewOutput \in Files /\ AppendTo(NewOutput, lines)
    BY <1>10, EndCycleAppends
  <2>2. DOMAIN disk' \subseteq Files /\ \A g \in DOMAIN disk' : disk'[g] \in Seq(Lines)
    BY <2>1, AppendTypes
  <2>3. /\ fFilePart' \in Nat /\ fFileStem' \in Stems \cup {NoStem}
        /\ fOutput' \in Files /\ fWrittenColumns' \subseteq Columns
    BY <1>10, <2>1, WriteTypes DEF EndCycleWrites
  <2>4. fFileOpenedAt' \in Nat
    BY <1>10 DEF EndCycleWrites, TypeOK
  <2> QED
    BY <1>10, <2>2, <2>3, <2>4 DEF EndCycleWrites, TypeOK
<1>11. CASE EndCycleThrows
  BY <1>11, WriteTypes DEF EndCycleThrows, CloseOutputFile, TypeOK
<1>12. CASE UNCHANGED vars
  BY <1>12 DEF vars, TypeOK
<1> QED
  BY <1>2, <1>3, <1>4, <1>5, <1>6, <1>7, <1>8, <1>9, <1>10, <1>11, <1>12
     DEF Next, MonitorThread

\* The variables keep their types.
THEOREM TypeCorrect == Spec => []TypeOK
<1>1. ASSUME Init PROVE TypeOK
  <2>1. NoValues \in [Chips -> [Names -> Nat]] /\ NoModuleValues \in [Modules -> [ModuleVirtual -> Nat]]
    BY DEF NoValues, NoModuleValues, Absent
  <2>2. DOMAIN disk = {}
    BY <1>1 DEF Init
  <2> QED
    BY <1>1, <2>1, <2>2 DEF Init, TypeOK
<1> QED
  BY <1>1, TypeStep, PTL DEF Spec

-----------------------------------------------------------------------------
(* The open file.                                                          *)

\* The strengthening: the open file is named by the stem and part in force, the
\* stem by the run in force, and its last line is laid out like the next row.
OpenFileInv ==
  fOutput # NoFile =>
    /\ fRunning /\ fMetadataReady
    /\ fOutput.stem = fFileStem /\ fOutput.part = fFilePart

StemInv == fRunning /\ fMetadataReady /\ fFileStem # NoStem => fFileStem.meta = meta

LastLineInv ==
  fOutput # NoFile =>
    /\ fOutput \in DOMAIN disk
    /\ Len(disk[fOutput]) > 0
    /\ disk[fOutput][Len(disk[fOutput])].columns = fWrittenColumns

\* A stem that is built names the run in force.
LEMMA NewStemNamesRun ==
  ASSUME StemInv, Writes, MustOpen
  PROVE  NewStem.meta = meta
<1>1. fRunning /\ fMetadataReady
  BY DEF Writes
<1>2. CASE fFileStem = NoStem
  BY <1>2 DEF NewStem
<1>3. CASE fFileStem # NoStem
  BY <1>1, <1>3 DEF NewStem, StemInv
<1> QED
  BY <1>2, <1>3

\* A stem is dropped whenever the run changes, so it never names another run.
LEMMA StemStep == TypeOK /\ StemInv /\ [Next]_vars => StemInv'
<1> SUFFICES ASSUME TypeOK, StemInv, [Next]_vars PROVE StemInv'
  OBVIOUS
<1>1. ASSUME NEW m \in Metas, NEW succeeds \in BOOLEAN, Start(m, succeeds) PROVE StemInv'
  BY <1>1 DEF Start, StemInv
<1>2. ASSUME NEW m \in Metas, SetRunMetadata(m) PROVE StemInv'
  BY <1>2 DEF SetRunMetadata, StemInv
<1>3. CASE Stop
  BY <1>3 DEF Stop, StemInv
<1>4. CASE EndCycleWrites \/ EndCycleThrows
  <2>1. /\ Writes /\ fFileStem' = NewStem
        /\ UNCHANGED <<fRunning, fMetadataReady, meta>>
    BY <1>4 DEF EndCycleWrites, EndCycleThrows
  <2>2. CASE MustOpen
    BY <2>1, <2>2, NewStemNamesRun DEF StemInv
  <2>3. CASE ~MustOpen
    BY <2>1, <2>3 DEF NewStem, StemInv
  <2> QED
    BY <2>2, <2>3
<1>5. ASSUME \/ Tick \/ BeginCycle \/ CycleThrows \/ EndCycleSilently \/ UNCHANGED vars
             \/ \E c \in Chips, r \in Registers, failing \in SUBSET MayFail : Update(c, r, failing)
      PROVE  StemInv'
  <2>1. UNCHANGED <<fRunning, fMetadataReady, meta, fFileStem>>
    BY <1>5 DEF Tick, BeginCycle, CycleThrows, EndCycleSilently, Update, vars, flags, naming
  <2> QED
    BY <2>1 DEF StemInv
<1> QED
  BY <1>1, <1>2, <1>3, <1>4, <1>5 DEF Next, MonitorThread

\* A file is open only under the stem in force, and only while the writer runs.
LEMMA OpenFileStep == TypeOK /\ OpenFileInv /\ [Next]_vars => OpenFileInv'
<1> SUFFICES ASSUME TypeOK, OpenFileInv, [Next]_vars PROVE OpenFileInv'
  OBVIOUS
<1>1. ASSUME NEW m \in Metas, NEW succeeds \in BOOLEAN, Start(m, succeeds) PROVE OpenFileInv'
  BY <1>1 DEF Start, OpenFileInv
<1>2. ASSUME NEW m \in Metas, SetRunMetadata(m) PROVE OpenFileInv'
  BY <1>2 DEF SetRunMetadata, CloseOutputFile, OpenFileInv
<1>3. CASE Stop \/ EndCycleThrows
  BY <1>3 DEF Stop, EndCycleThrows, CloseOutputFile, OpenFileInv
<1>4. CASE EndCycleWrites
  <2>1. /\ fRunning /\ fMetadataReady /\ UNCHANGED <<fRunning, fMetadataReady>>
        /\ fOutput' = NewOutput /\ fFileStem' = NewStem /\ fFilePart' = NewPart
    BY <1>4 DEF EndCycleWrites, Writes
  <2>2. CASE MustOpen
    BY <2>1, <2>2 DEF NewOutput, OpenFileInv
  <2>3. CASE ~MustOpen
    BY <2>1, <2>3 DEF MustOpen, NewOutput, NewStem, NewPart, OpenFileInv
  <2> QED
    BY <2>2, <2>3
<1>5. ASSUME \/ Tick \/ BeginCycle \/ CycleThrows \/ EndCycleSilently \/ UNCHANGED vars
             \/ \E c \in Chips, r \in Registers, failing \in SUBSET MayFail : Update(c, r, failing)
      PROVE  OpenFileInv'
  <2>1. UNCHANGED <<fOutput, fRunning, fMetadataReady, fFileStem, fFilePart>>
    BY <1>5 DEF Tick, BeginCycle, CycleThrows, EndCycleSilently, Update, vars, flags, naming, output
  <2> QED
    BY <2>1 DEF OpenFileInv
<1> QED
  BY <1>1, <1>2, <1>3, <1>4, <1>5 DEF Next, MonitorThread

\* No row can be appended to the file of an earlier run.
THEOREM OpenFileBelongsToRun == Spec => []OutputBelongsToRun
<1>1. Init => OpenFileInv /\ StemInv
  BY DEF Init, OpenFileInv, StemInv
<1>2. TypeOK /\ OpenFileInv /\ StemInv => OutputBelongsToRun
  <2> SUFFICES ASSUME TypeOK, OpenFileInv, StemInv, fOutput # NoFile
               PROVE  fRunning /\ fMetadataReady /\ fOutput.stem.meta = meta
    BY DEF OutputBelongsToRun
  <2>1. fOutput.stem \in Stems
    BY DEF TypeOK, Files
  <2>2. NoStem \notin Stems
    BY DEF NoStem, Stems
  <2> QED
    BY <2>1, <2>2 DEF OpenFileInv, StemInv
<1> QED
  BY <1>1, <1>2, TypeCorrect, OpenFileStep, StemStep, PTL DEF Spec

-----------------------------------------------------------------------------
(* The layout of the rows.                                                 *)

\* SelfDescribing for one file.
WellLaid(s) ==
  \A i \in DOMAIN s : s[i].kind = "rows" => i > 1 /\ s[i].columns = s[i - 1].columns

\* A header and a row under it can follow any file.
LEMMA HeaderAndRow ==
  ASSUME TypeOK, NEW s \in Seq(Lines), WellLaid(s)
  PROVE  LET t == s \o <<HeaderLine, RowsLine>>
         IN /\ WellLaid(t) /\ Len(t) > 0
            /\ t[Len(t)].columns = HeaderColumns
<1> DEFINE t == s \o <<HeaderLine, RowsLine>>
           n == Len(s)
<1>1. HeaderLine \in Lines /\ RowsLine \in Lines
  BY WriteTypes
<1>2. /\ n \in Nat /\ DOMAIN s = 1..n
      /\ Len(t) = n + 2 /\ DOMAIN t = 1..n + 2
      /\ \A i \in 1..n : t[i] = s[i]
      /\ t[n + 1] = HeaderLine /\ t[n + 2] = RowsLine
  <2> HIDE DEF Lines, HeaderLine, RowsLine
  <2> QED
    BY <1>1
<1>3. /\ HeaderLine.kind = "header" /\ HeaderLine.columns = HeaderColumns
      /\ RowsLine.columns = HeaderColumns
  BY DEF HeaderLine, RowsLine
<1> HIDE DEF t, n
<1>4. ASSUME NEW i \in DOMAIN t, t[i].kind = "rows" PROVE i > 1 /\ t[i].columns = t[i - 1].columns
  <2>1. CASE i \in 1..n
    <3>1. i > 1 /\ s[i].columns = s[i - 1].columns
      BY <1>2, <1>4, <2>1 DEF WellLaid
    <3> QED
      BY <1>2, <2>1, <3>1
  <2>2. CASE i = n + 2
    <3>1. i > 1 /\ i - 1 = n + 1
      BY <1>2, <2>2
    <3> QED
      BY <1>2, <1>3, <2>2, <3>1
  <2>3. i # n + 1
    BY <1>2, <1>3, <1>4
  <2>4. i \in 1..n \/ i = n + 2
    BY <1>2, <2>3
  <2> QED
    BY <2>1, <2>2, <2>4
<1>5. WellLaid(t)
  BY <1>4 DEF WellLaid
<1>6. Len(t) > 0 /\ t[Len(t)].columns = HeaderColumns
  <2>1. n + 2 > 0 /\ Len(t) = n + 2
    BY <1>2
  <2>2. t[Len(t)] = RowsLine
    BY <1>2, <2>1, Zenon
  <2> QED
    BY <1>3, <2>1, <2>2
<1> QED
  BY <1>5, <1>6, Zenon DEF t

\* A row can follow a line of its layout.
LEMMA RowAlone ==
  ASSUME TypeOK, NEW s \in Seq(Lines), WellLaid(s), Len(s) > 0, s[Len(s)].columns = HeaderColumns
  PROVE  LET t == s \o <<RowsLine>>
         IN /\ WellLaid(t) /\ Len(t) > 0
            /\ t[Len(t)].columns = HeaderColumns
<1> DEFINE t == s \o <<RowsLine>>
           n == Len(s)
<1>1. RowsLine \in Lines
  BY WriteTypes
<1>2. /\ n \in Nat /\ n > 0 /\ DOMAIN s = 1..n
      /\ Len(t) = n + 1 /\ DOMAIN t = 1..n + 1
      /\ \A i \in 1..n : t[i] = s[i]
      /\ t[n + 1] = RowsLine
  <2> HIDE DEF Lines, RowsLine
  <2> QED
    BY <1>1
<1>3. RowsLine.columns = HeaderColumns /\ s[n].columns = HeaderColumns
  BY DEF RowsLine
<1> HIDE DEF t, n
<1>4. ASSUME NEW i \in DOMAIN t, t[i].kind = "rows" PROVE i > 1 /\ t[i].columns = t[i - 1].columns
  <2>1. CASE i \in 1..n
    <3>1. i > 1 /\ s[i].columns = s[i - 1].columns
      BY <1>2, <1>4, <2>1 DEF WellLaid
    <3> QED
      BY <1>2, <2>1, <3>1
  <2>2. CASE i = n + 1
    BY <1>2, <1>3, <2>2
  <2> QED
    BY <1>2, <2>1, <2>2
<1> QED
  BY <1>2, <1>3, <1>4 DEF WellLaid, t

\* What a write leaves in the file it writes to.
LEMMA WriteLaysOut ==
  ASSUME TypeOK, SelfDescribing, LastLineInv, EndCycleWrites
  PROVE  /\ DOMAIN disk' = DOMAIN disk \cup {NewOutput}
         /\ \A g \in DOMAIN disk : g # NewOutput => disk'[g] = disk[g]
         /\ WellLaid(disk'[NewOutput]) /\ Len(disk'[NewOutput]) > 0
         /\ disk'[NewOutput][Len(disk'[NewOutput])].columns = HeaderColumns
<1>1. PICK lines \in Seq(Lines) :
        /\ NewOutput \in Files
        /\ lines = IF MustOpen THEN <<HeaderLine, RowsLine>> ELSE <<RowsLine>>
        /\ AppendTo(NewOutput, lines)
  BY EndCycleAppends
<1>2. /\ DOMAIN disk' = DOMAIN disk \cup {NewOutput}
      /\ \A g \in DOMAIN disk : g # NewOutput => disk'[g] = disk[g]
      /\ disk'[NewOutput] = Contents(NewOutput) \o lines
  BY <1>1, AppendTypes
<1>3. Contents(NewOutput) \in Seq(Lines) /\ WellLaid(Contents(NewOutput))
  <2>1. CASE NewOutput \in DOMAIN disk
    BY <2>1 DEF Contents, TypeOK, SelfDescribing, WellLaid
  <2>2. CASE NewOutput \notin DOMAIN disk
    BY <2>2 DEF Contents, WellLaid
  <2> QED
    BY <2>1, <2>2
<1>4. CASE MustOpen
  BY <1>1, <1>2, <1>3, <1>4, HeaderAndRow
<1>5. CASE ~MustOpen
  <2>1. NewOutput = fOutput /\ fOutput # NoFile /\ HeaderColumns = fWrittenColumns
    BY <1>5 DEF MustOpen, NewOutput, HeaderColumns
  <2>2. Contents(NewOutput) = disk[fOutput]
    BY <2>1 DEF Contents, LastLineInv
  <2>3. /\ Len(Contents(NewOutput)) > 0
        /\ Contents(NewOutput)[Len(Contents(NewOutput))].columns = HeaderColumns
    BY <2>1, <2>2 DEF LastLineInv
  <2> QED
    BY <1>1, <1>2, <1>3, <1>5, <2>3, RowAlone
<1> QED
  BY <1>2, <1>4, <1>5

\* Every step leaves the files laid out and the open file ending in a line of its columns.
LEMMA LayoutStep ==
  TypeOK /\ OpenFileInv /\ LastLineInv /\ SelfDescribing /\ [Next]_vars
    => (LastLineInv /\ SelfDescribing)'
<1> SUFFICES ASSUME TypeOK, OpenFileInv, LastLineInv, SelfDescribing, [Next]_vars
             PROVE  (LastLineInv /\ SelfDescribing)'
  OBVIOUS
<1>1. CASE EndCycleWrites
  <2>1. fOutput' = NewOutput /\ fWrittenColumns' = HeaderColumns
    BY <1>1 DEF EndCycleWrites
  <2>2. LastLineInv'
    BY <1>1, <2>1, WriteLaysOut DEF LastLineInv
  <2>3. ASSUME NEW f \in DOMAIN disk' PROVE WellLaid(disk'[f])
    <3>1. CASE f = NewOutput
      BY <1>1, <3>1, WriteLaysOut
    <3>2. CASE f # NewOutput
      <4>1. f \in DOMAIN disk /\ disk'[f] = disk[f]
        BY <1>1, <2>3, <3>2, WriteLaysOut
      <4> QED
        BY <4>1 DEF SelfDescribing, WellLaid
    <3> QED
      BY <3>1, <3>2
  <2> QED
    BY <2>2, <2>3 DEF SelfDescribing, WellLaid
<1>2. ASSUME ~EndCycleWrites PROVE UNCHANGED disk
  BY <1>2 DEF Next, MonitorThread, Tick, Start, SetRunMetadata, Stop, BeginCycle, Update,
     CycleThrows, EndCycleSilently, EndCycleThrows, CloseOutputFile, output, vars
<1>3. ASSUME ~EndCycleWrites PROVE fOutput' = NoFile \/ UNCHANGED <<fOutput, fWrittenColumns>>
  <2>1. ASSUME NEW m \in Metas, NEW succeeds \in BOOLEAN, Start(m, succeeds)
        PROVE  fOutput' = NoFile
    BY <2>1 DEF Start, OpenFileInv
  <2>2. ASSUME NEW m \in Metas, SetRunMetadata(m) PROVE fOutput' = NoFile
    BY <2>2 DEF SetRunMetadata, CloseOutputFile
  <2>3. ASSUME Stop \/ EndCycleThrows PROVE fOutput' = NoFile
    BY <2>3 DEF Stop, EndCycleThrows, CloseOutputFile
  <2>4. ASSUME \/ Tick \/ BeginCycle \/ CycleThrows \/ EndCycleSilently \/ UNCHANGED vars
               \/ \E c \in Chips, r \in Registers, failing \in SUBSET MayFail : Update(c, r, failing)
        PROVE  UNCHANGED <<fOutput, fWrittenColumns>>
    BY <2>4 DEF Tick, BeginCycle, CycleThrows, EndCycleSilently, Update, vars, output
  <2> QED
    BY <1>3, <2>1, <2>2, <2>3, <2>4 DEF Next, MonitorThread
<1> QED
  BY <1>1, <1>2, <1>3 DEF LastLineInv, SelfDescribing

\* Every row of every file is laid out by the header above it.
THEOREM FilesDescribeThemselves == Spec => []SelfDescribing
<1>1. ASSUME Init PROVE OpenFileInv /\ LastLineInv /\ SelfDescribing
  <2>1. DOMAIN disk = {} /\ fOutput = NoFile
    BY <1>1 DEF Init
  <2> QED
    BY <2>1 DEF OpenFileInv, LastLineInv, SelfDescribing
<1> QED
  BY <1>1, TypeCorrect, OpenFileStep, LayoutStep, PTL DEF Spec

-----------------------------------------------------------------------------
(* Rotation.                                                               *)

\* A step that writes to the open file finds it below both limits.
LEMMA RotationStep ==
  ASSUME TypeOK, OpenFileInv, [Next]_vars,
         NEW f \in DOMAIN disk, disk'[f] # disk[f], fOutput = f
  PROVE  /\ RotateSize = 0 \/ Len(disk[f]) < RotateSize
         /\ RotateSeconds = 0 \/ second - fFileOpenedAt < RotateSeconds
<1>1. EndCycleWrites
  BY DEF Next, MonitorThread, Tick, Start, SetRunMetadata, Stop, BeginCycle, Update,
     CycleThrows, EndCycleSilently, EndCycleThrows, CloseOutputFile, output, vars
<1>2. NewOutput = f
  BY <1>1, EndCycleAppends, AppendTypes
<1>3. f \in Files
  BY DEF TypeOK
<1>4. f # NoFile
  BY <1>3 DEF Files, NoFile
<1>5. ~Closes
  <2>1. ASSUME Closes PROVE FALSE
    <3>1. NewOutput.part = fFilePart + 1
      BY <2>1 DEF NewOutput, MustOpen, NewPart
    <3>2. NewOutput.part = fFilePart /\ fFilePart \in Nat
      BY <1>2, <1>4 DEF OpenFileInv, TypeOK
    <3> QED
      BY <3>1, <3>2
  <2> QED
    BY <2>1
<1>6. ~LimitReached
  BY <1>4, <1>5 DEF Closes
<1>7. Len(disk[f]) \in Nat /\ second \in Nat /\ fFileOpenedAt \in Nat
  BY LenProperties DEF TypeOK
<1> QED
  BY <1>6, <1>7, WriterAssumption DEF LimitReached

\* A file that is open when a limit is reached never grows again.
THEOREM LimitsRespected == Spec => RotationRespected
<1>1. Init => OpenFileInv
  BY DEF Init, OpenFileInv
<1>2. TypeOK /\ OpenFileInv /\ [Next]_vars =>
        [\A f \in DOMAIN disk :
           disk'[f] # disk[f] /\ fOutput = f =>
             /\ RotateSize = 0 \/ Len(disk[f]) < RotateSize
             /\ RotateSeconds = 0 \/ second - fFileOpenedAt < RotateSeconds]_vars
  BY RotationStep
<1> QED
  BY <1>1, <1>2, TypeCorrect, OpenFileStep, PTL DEF Spec, RotationRespected
-----------------------------------------------------------------------------
(* The cells of the rows.                                                  *)

\* The names that have a value now, as MeasuredNames gives them for a line.
PresentNames ==
  {n \in Names : \E c \in Chips : fValues[c][n] # Absent}
    \cup {v \in ModuleVirtual : \E m \in Modules : fModuleValues[m][v] # Absent}

\* The columns are the names that have a value; an open file has columns.
ColumnsInv ==
  /\ fColumns = PresentNames
  /\ fOutput # NoFile => fWrittenColumns # {}

\* An abandoned cycle is not active, and what an active one holds it has read
\* itself: every listed register it is past, and nothing older.
CycleInv ==
  /\ fCycleActive => fRunning
  /\ monitor = "cycle" => cycle > 0
  /\ fCycleActive /\ monitor = "cycle" =>
       /\ \A c \in Chips, n \in Names : fValues[c][n] \in {Absent, cycle}
       /\ \A m \in Modules, v \in ModuleVirtual : fModuleValues[m][v] \in {Absent, cycle}
       /\ \A c \in Chips, r \in Allowlist : <<c, r>> \notin pending => fValues[c][r] # Absent

\* A module value has its inputs, and inputs that are there have been used.
InputsInv ==
  /\ \A c \in Chips, v \in ModuleVirtual :
       fModuleValues[ModuleOf[c]][v] # Absent => InputsPresent(fValues, ModuleOf[c], v)
  /\ \A c \in Chips, v \in ModuleVirtual \ MayFail :
       Present(fValues[c]) # {} /\ InputsPresent(fValues, ModuleOf[c], v)
         => fModuleValues[ModuleOf[c]][v] # Absent
  /\ \A c \in Chips : Present(fValues[c]) # {} => Allowlist # {}

CellsInv == ColumnsInv /\ CycleInv /\ InputsInv

\* What recording register r of chip c does to the cells, if it completes the
\* inputs of the registers in virtual and aggregate.
Recorded(c, r, virtual, aggregate) ==
  /\ \A d \in Chips, n \in Names :
       fValues'[d][n] = IF d = c /\ (n = r \/ n \in virtual) THEN cycle ELSE fValues[d][n]
  /\ \A m \in Modules, v \in ModuleVirtual :
       fModuleValues'[m][v] = IF m = ModuleOf[c] /\ v \in aggregate THEN cycle
                              ELSE fModuleValues[m][v]
  /\ fColumns' = fColumns \cup {r} \cup virtual \cup aggregate
  /\ \A v \in aggregate : InputsPresent(fValues', ModuleOf[c], v)
  /\ \A v \in ModuleVirtual \ MayFail : InputsPresent(fValues', ModuleOf[c], v) => v \in aggregate

\* A register that is read sets its own cell and those of the virtual registers
\* it completes to the cycle, and leaves the other cells.
LEMMA RecordValueEffect ==
  ASSUME TypeOK, NEW c \in Chips, NEW r \in Registers, NEW failing \in SUBSET MayFail,
         RecordValue(c, r, failing)
  PROVE  \E virtual \in SUBSET Names, aggregate \in SUBSET ModuleVirtual :
           Recorded(c, r, virtual, aggregate)
<1> DEFINE measured == [fValues[c] EXCEPT ![r] = cycle]
           values == [fValues EXCEPT ![c] = UpdatedRow(@, r, failing)]
           virtual == Evaluable(measured, failing)
           aggregate == ModuleEvaluable(values, ModuleOf[c], failing)
<1>1. r \in Names /\ cycle \in Nat /\ fValues[c] \in [Names -> Nat] /\ ModuleOf[c] \in Modules
  BY WriterAssumption DEF TypeOK, Names
<1>2. virtual \in SUBSET Names /\ aggregate \in SUBSET ModuleVirtual
  BY DEF Evaluable, ModuleEvaluable, Names
<1>3. /\ fValues' = values
      /\ fModuleValues' = [fModuleValues EXCEPT ![ModuleOf[c]] =
           [v \in ModuleVirtual |-> IF v \in aggregate THEN cycle ELSE @[v]]]
      /\ fColumns' = fColumns \cup {r} \cup virtual \cup aggregate
  BY DEF RecordValue
<1>4. UpdatedRow(fValues[c], r, failing)
        = [n \in Names |-> IF n \in virtual THEN cycle ELSE measured[n]]
  BY DEF UpdatedRow
<1>5. \A n \in Names : measured[n] = IF n = r THEN cycle ELSE fValues[c][n]
  BY <1>1
<1>6. /\ \A v \in aggregate : InputsPresent(fValues', ModuleOf[c], v)
      /\ \A v \in ModuleVirtual \ MayFail : InputsPresent(fValues', ModuleOf[c], v) => v \in aggregate
  <2> HIDE DEF values
  <2> QED
    BY <1>3 DEF ModuleEvaluable
<1> HIDE DEF measured, virtual, aggregate
<1>7. \A d \in Chips, n \in Names :
        fValues'[d][n] = IF d = c /\ (n = r \/ n \in virtual) THEN cycle ELSE fValues[d][n]
  <2>1. TAKE d \in Chips, n \in Names
  <2>2. CASE d = c
    BY <1>3, <1>4, <1>5, <2>2 DEF TypeOK
  <2>3. CASE d # c
    BY <1>3, <2>3 DEF TypeOK
  <2> QED
    BY <2>2, <2>3
<1> HIDE DEF values
<1>8. \A m \in Modules, v \in ModuleVirtual :
        fModuleValues'[m][v] = IF m = ModuleOf[c] /\ v \in aggregate THEN cycle
                               ELSE fModuleValues[m][v]
  <2>1. TAKE m \in Modules, v \in ModuleVirtual
  <2> QED
    BY <1>1, <1>3 DEF TypeOK
<1> QED
  BY <1>2, <1>3, <1>6, <1>7, <1>8 DEF Recorded

\* Nothing has a value in cleared cells.
LEMMA ClearedCells ==
  ASSUME ClearCells
  PROVE  /\ fColumns' = {}
         /\ \A c \in Chips, n \in Names : fValues'[c][n] = Absent
         /\ \A m \in Modules, v \in ModuleVirtual : fModuleValues'[m][v] = Absent
BY DEF ClearCells, NoValues, NoModuleValues

\* An update, as far as the cells are concerned: they stay, or a value is recorded.
LEMMA UpdateEffect ==
  ASSUME NEW c \in Chips, NEW r \in Registers, NEW failing, Update(c, r, failing)
  PROVE  /\ UNCHANGED <<fRunning, fCycleActive, fOutput, fWrittenColumns, monitor, cycle>>
         /\ monitor = "cycle" /\ pending' = pending \ {<<c, r>>}
         /\ \/ UNCHANGED cells /\ ~(fRunning /\ fCycleActive /\ r \in Allowlist)
            \/ RecordValue(c, r, failing) /\ r \in Allowlist
BY DEF Update, flags, output

\* The other steps clear the cells, or leave them.
LEMMA CellsClearedOrKept ==
  ASSUME [Next]_vars,
         ~ \E c \in Chips, r \in Registers, failing \in SUBSET MayFail : Update(c, r, failing)
  PROVE  ClearCells \/ UNCHANGED cells
BY DEF Next, MonitorThread, Tick, Start, SetRunMetadata, Stop, BeginCycle, CycleThrows,
   EndCycleSilently, EndCycleWrites, EndCycleThrows, vars

\* A value gets a column, and only a value does.
LEMMA ColumnsFollowCells ==
  ASSUME TypeOK, fColumns = PresentNames, monitor = "cycle" => cycle > 0, [Next]_vars
  PROVE  fColumns' = PresentNames'
<1>1. ASSUME NEW c \in Chips, NEW r \in Registers, NEW failing \in SUBSET MayFail,
             Update(c, r, failing), RecordValue(c, r, failing)
      PROVE  fColumns' = PresentNames'
  <2>1. PICK virtual \in SUBSET Names, aggregate \in SUBSET ModuleVirtual :
             Recorded(c, r, virtual, aggregate)
    BY <1>1, RecordValueEffect
  <2>2. cycle # Absent /\ ModuleOf[c] \in Modules /\ r \in Names
    BY <1>1, UpdateEffect, WriterAssumption DEF TypeOK, Absent, Names
  <2> DEFINE Old == {n \in Names : \E d \in Chips : fValues[d][n] # Absent}
             OldM == {v \in ModuleVirtual : \E m \in Modules : fModuleValues[m][v] # Absent}
             New == {n \in Names : \E d \in Chips : fValues'[d][n] # Absent}
             NewM == {v \in ModuleVirtual : \E m \in Modules : fModuleValues'[m][v] # Absent}
  <2>3. ASSUME NEW n \in Names PROVE n \in New <=> n \in Old \/ n = r \/ n \in virtual
    BY <2>1, <2>2 DEF Recorded
  <2>4. ASSUME NEW v \in ModuleVirtual PROVE v \in NewM <=> v \in OldM \/ v \in aggregate
    BY <2>1, <2>2 DEF Recorded
  <2>5. New = Old \cup {r} \cup virtual
    BY <2>2, <2>3
  <2>6. NewM = OldM \cup aggregate
    BY <2>4
  <2>7. fColumns = Old \cup OldM /\ PresentNames' = New \cup NewM
    BY DEF PresentNames
  <2> HIDE DEF Old, OldM, New, NewM
  <2> QED
    BY <2>1, <2>5, <2>6, <2>7 DEF Recorded
<1>2. ASSUME ClearCells PROVE fColumns' = PresentNames'
  BY <1>2, ClearedCells DEF PresentNames
<1>3. ASSUME UNCHANGED cells PROVE fColumns' = PresentNames'
  BY <1>3 DEF cells, PresentNames
<1> QED
  BY <1>1, <1>2, <1>3, UpdateEffect, CellsClearedOrKept

\* A cycle with a value has a column.
LEMMA WritesColumns ==
  ASSUME TypeOK, ColumnsInv, Writes
  PROVE  HeaderColumns = fColumns /\ fColumns # {}
<1>1. fColumns # {}
  <2>1. PICK c \in Chips : \E n \in DOMAIN fValues[c] : fValues[c][n] # Absent
    BY DEF Writes, HasValues, Present
  <2>2. DOMAIN fValues[c] = Names
    BY DEF TypeOK
  <2> QED
    BY <2>1, <2>2 DEF ColumnsInv, PresentNames
<1>2. ~ MustOpen => fWrittenColumns = fColumns
  BY DEF MustOpen, Closes, ColumnsChanged, ColumnsInv
<1> QED
  BY <1>1, <1>2 DEF HeaderColumns

\* Columns are dropped only together with the file they head.
LEMMA ColumnsStep == TypeOK /\ OpenFileInv /\ CellsInv /\ [Next]_vars => ColumnsInv'
<1> SUFFICES ASSUME TypeOK, OpenFileInv, CellsInv, [Next]_vars PROVE ColumnsInv'
  OBVIOUS
<1>1. fColumns' = PresentNames'
  BY ColumnsFollowCells DEF CellsInv, ColumnsInv, CycleInv
<1>2. fOutput' # NoFile => fWrittenColumns' # {}
  <2>1. ASSUME NEW m \in Metas, NEW succeeds \in BOOLEAN, Start(m, succeeds)
        PROVE  fOutput' = NoFile
    BY <2>1 DEF Start, OpenFileInv
  <2>2. ASSUME NEW m \in Metas, SetRunMetadata(m) PROVE fOutput' = NoFile
    BY <2>2 DEF SetRunMetadata, CloseOutputFile
  <2>3. ASSUME Stop \/ EndCycleThrows PROVE fOutput' = NoFile
    BY <2>3 DEF Stop, EndCycleThrows, CloseOutputFile
  <2>4. ASSUME EndCycleWrites PROVE fWrittenColumns' # {}
    BY <2>4, WritesColumns DEF EndCycleWrites, CellsInv
  <2>5. ASSUME \/ Tick \/ BeginCycle \/ CycleThrows \/ EndCycleSilently \/ UNCHANGED vars
               \/ \E c \in Chips, r \in Registers, failing \in SUBSET MayFail : Update(c, r, failing)
        PROVE  UNCHANGED <<fOutput, fWrittenColumns>>
    BY <2>5 DEF Tick, BeginCycle, CycleThrows, EndCycleSilently, Update, vars, output
  <2> QED
    BY <2>1, <2>2, <2>3, <2>4, <2>5 DEF Next, MonitorThread, CellsInv, ColumnsInv
<1> QED
  BY <1>1, <1>2 DEF ColumnsInv

\* Only a cycle that has begun in the running writer stays active.
LEMMA CycleStep == TypeOK /\ CycleInv /\ [Next]_vars => CycleInv'
<1> SUFFICES ASSUME TypeOK, CycleInv, [Next]_vars PROVE CycleInv'
  OBVIOUS
<1>0. cycle \in Nat /\ Allowlist \subseteq Registers
  BY WriterAssumption DEF TypeOK
<1>1. ASSUME NEW m \in Metas, NEW succeeds \in BOOLEAN, Start(m, succeeds) PROVE CycleInv'
  <2>1. ~ fCycleActive' /\ UNCHANGED cycle /\ (monitor' = "cycle" => monitor = "cycle")
    BY <1>1 DEF Start, CycleInv, TypeOK
  <2> QED
    BY <2>1 DEF CycleInv
<1>2. ASSUME \/ Stop \/ EndCycleSilently \/ EndCycleWrites \/ EndCycleThrows
      PROVE  CycleInv'
  <2>1. ~ fCycleActive' /\ UNCHANGED cycle /\ (monitor' = "cycle" => monitor = "cycle")
    BY <1>2 DEF Stop, EndCycleSilently, EndCycleWrites, EndCycleThrows, CycleInv, driver
  <2> QED
    BY <2>1 DEF CycleInv
<1>3. CASE BeginCycle
  <2>1. CASE fRunning
    <3>1. /\ ClearCells /\ fRunning' /\ cycle' > 0
          /\ pending' = Chips \X Registers
      BY <1>0, <1>3, <2>1 DEF BeginCycle
    <3> QED
      BY <1>0, <3>1, ClearedCells DEF CycleInv
  <2>2. CASE ~ fRunning
    <3>1. ~ fCycleActive' /\ cycle' > 0
      BY <1>0, <1>3, <2>2 DEF BeginCycle, CycleInv
    <3> QED
      BY <3>1 DEF CycleInv
  <2> QED
    BY <2>1, <2>2
<1>4. ASSUME NEW c \in Chips, NEW r \in Registers, NEW failing \in SUBSET MayFail,
             Update(c, r, failing)
      PROVE  CycleInv'
  <2>1. CASE UNCHANGED cells /\ ~(fRunning /\ fCycleActive /\ r \in Allowlist)
    <3>1. UNCHANGED <<fValues, fModuleValues, fRunning, fCycleActive, monitor, cycle>>
          /\ pending' = pending \ {<<c, r>>}
      BY <1>4, <2>1, UpdateEffect DEF cells
    <3>2. fCycleActive => \A d \in Chips, s \in Allowlist : <<d, s>> # <<c, r>>
      BY <2>1 DEF CycleInv
    <3> QED
      BY <3>1, <3>2 DEF CycleInv
  <2>2. CASE RecordValue(c, r, failing)
    <3>1. PICK virtual \in SUBSET Names, aggregate \in SUBSET ModuleVirtual :
             Recorded(c, r, virtual, aggregate)
      BY <2>2, RecordValueEffect
    <3>2. /\ UNCHANGED <<fRunning, fCycleActive, monitor, cycle>>
          /\ pending' = pending \ {<<c, r>>} /\ monitor = "cycle"
      BY <1>4, UpdateEffect
    <3>3. cycle # Absent
      BY <1>0, <3>2 DEF CycleInv, Absent
    <3>4. \A n \in Allowlist : n \in Names
      BY <1>0 DEF Names
    <3>5. ASSUME fCycleActive
          PROVE  /\ \A d \in Chips, n \in Names : fValues'[d][n] \in {Absent, cycle}
                 /\ \A m \in Modules, v \in ModuleVirtual : fModuleValues'[m][v] \in {Absent, cycle}
      BY <3>1, <3>2, <3>5 DEF CycleInv, Recorded
    <3>6. ASSUME fCycleActive, NEW d \in Chips, NEW s \in Allowlist, <<d, s>> \notin pending'
          PROVE  fValues'[d][s] # Absent
      <4>1. <<d, s>> \notin pending \/ (d = c /\ s = r)
        BY <3>2, <3>6
      <4> QED
        BY <3>1, <3>2, <3>3, <3>4, <3>6, <4>1 DEF CycleInv, Recorded
    <3> QED
      BY <3>2, <3>5, <3>6 DEF CycleInv
  <2> QED
    BY <1>4, <2>1, <2>2, UpdateEffect
<1>5. ASSUME \/ Tick \/ CycleThrows \/ UNCHANGED vars
             \/ \E m \in Metas : SetRunMetadata(m)
      PROVE  CycleInv'
  <2>1. /\ UNCHANGED <<fRunning, fCycleActive, fValues, fModuleValues, cycle, pending>>
        /\ monitor' = "cycle" => monitor = "cycle"
    BY <1>5 DEF Tick, CycleThrows, SetRunMetadata, vars, flags, cells, driver
  <2> QED
    BY <2>1 DEF CycleInv
<1> QED
  BY <1>1, <1>2, <1>3, <1>4, <1>5 DEF Next, MonitorThread

\* Inputs that are there stay, and other modules do not see the new ones.
LEMMA InputsKept ==
  ASSUME TypeOK, NEW c \in Chips, NEW r \in Registers, NEW virtual \in SUBSET Names,
         NEW aggregate \in SUBSET ModuleVirtual, Recorded(c, r, virtual, aggregate), cycle # Absent,
         fValues' \in [Chips -> [Names -> Nat]], NEW m \in Modules, NEW v \in ModuleVirtual
  PROVE  /\ InputsPresent(fValues, m, v) => InputsPresent(fValues', m, v)
         /\ m # ModuleOf[c] => (InputsPresent(fValues', m, v) <=> InputsPresent(fValues, m, v))
<1>1. \A d \in Chips : /\ Present(fValues[d]) = {n \in Names : fValues[d][n] # Absent}
                       /\ Present(fValues'[d]) = {n \in Names : fValues'[d][n] # Absent}
  BY DEF TypeOK, Present
<1>2. \A d \in Chips : /\ Present(fValues[d]) \subseteq Present(fValues'[d])
                       /\ d # c => Present(fValues'[d]) = Present(fValues[d])
  <2>1. ASSUME NEW d \in Chips, NEW n \in Names
        PROVE  /\ fValues[d][n] # Absent => fValues'[d][n] # Absent
               /\ d # c => fValues'[d][n] = fValues[d][n]
    BY DEF Recorded
  <2>2. TAKE d \in Chips
  <2>3. /\ Present(fValues[d]) = {n \in Names : fValues[d][n] # Absent}
        /\ Present(fValues'[d]) = {n \in Names : fValues'[d][n] # Absent}
    BY <1>1
  <2>4. \A n \in Names : /\ fValues[d][n] # Absent => fValues'[d][n] # Absent
                         /\ d # c => fValues'[d][n] = fValues[d][n]
    BY <2>1
  <2> QED
    BY <2>3, <2>4
<1>3. ASSUME InputsPresent(fValues, m, v) PROVE InputsPresent(fValues', m, v)
  BY <1>2, <1>3 DEF InputsPresent
<1>4. ASSUME m # ModuleOf[c], InputsPresent(fValues', m, v) PROVE InputsPresent(fValues, m, v)
  BY <1>2, <1>4 DEF InputsPresent
<1> QED
  BY <1>3, <1>4

\* A module value is set when its inputs are there and only then, and they stay.
LEMMA InputsStep == TypeOK /\ CycleInv /\ InputsInv /\ [Next]_vars => InputsInv'
<1> SUFFICES ASSUME TypeOK, CycleInv, InputsInv, [Next]_vars PROVE InputsInv'
  OBVIOUS
<1>0. \A c \in Chips : ModuleOf[c] \in Modules
  BY WriterAssumption
<1>1. ASSUME NEW c \in Chips, NEW r \in Registers, NEW failing \in SUBSET MayFail,
             Update(c, r, failing), RecordValue(c, r, failing), r \in Allowlist
      PROVE  InputsInv'
  <2>1. PICK virtual \in SUBSET Names, aggregate \in SUBSET ModuleVirtual :
             Recorded(c, r, virtual, aggregate)
    BY <1>1, RecordValueEffect
  <2>2. cycle # Absent /\ fValues' \in [Chips -> [Names -> Nat]]
    BY <1>1, UpdateEffect, RecordValueTypes DEF TypeOK, CycleInv, Absent
  <2>3. ASSUME NEW m \in Modules, NEW v \in ModuleVirtual
        PROVE  /\ InputsPresent(fValues, m, v) => InputsPresent(fValues', m, v)
               /\ m # ModuleOf[c] => (InputsPresent(fValues', m, v) <=> InputsPresent(fValues, m, v))
    BY <2>1, <2>2, InputsKept
  <2>4. ASSUME NEW m \in Modules, NEW v \in ModuleVirtual
        PROVE  fModuleValues'[m][v] = IF m = ModuleOf[c] /\ v \in aggregate THEN cycle
                                      ELSE fModuleValues[m][v]
    BY <2>1 DEF Recorded
  <2>5. ASSUME NEW d \in Chips, NEW v \in ModuleVirtual, fModuleValues'[ModuleOf[d]][v] # Absent
        PROVE  InputsPresent(fValues', ModuleOf[d], v)
    <3>1. CASE ModuleOf[d] = ModuleOf[c] /\ v \in aggregate
      BY <2>1, <3>1 DEF Recorded
    <3>2. CASE ~ (ModuleOf[d] = ModuleOf[c] /\ v \in aggregate)
      BY <1>0, <2>3, <2>4, <2>5, <3>2 DEF InputsInv
    <3> QED
      BY <3>1, <3>2
  <2>6. ASSUME NEW d \in Chips, NEW v \in ModuleVirtual \ MayFail,
               Present(fValues'[d]) # {}, InputsPresent(fValues', ModuleOf[d], v)
        PROVE  fModuleValues'[ModuleOf[d]][v] # Absent
    <3>1. CASE ModuleOf[d] = ModuleOf[c]
      <4>1. v \in aggregate
        BY <2>1, <2>6, <3>1 DEF Recorded
      <4> QED
        BY <1>0, <2>2, <2>4, <3>1, <4>1
    <3>2. CASE ModuleOf[d] # ModuleOf[c]
      <4>1. Present(fValues[d]) # {}
        <5>1. \A n \in Names : fValues'[d][n] = fValues[d][n]
          BY <2>1, <3>2 DEF Recorded
        <5>2. DOMAIN fValues[d] = Names /\ DOMAIN fValues'[d] = Names
          BY <2>2 DEF TypeOK
        <5> QED
          BY <2>6, <5>1, <5>2 DEF Present
      <4> QED
        BY <1>0, <2>3, <2>4, <2>6, <3>2, <4>1 DEF InputsInv
    <3> QED
      BY <3>1, <3>2
  <2> QED
    BY <1>1, <2>5, <2>6 DEF InputsInv
<1>2. ASSUME ClearCells PROVE InputsInv'
  <2>1. \A c \in Chips : Present(fValues'[c]) = {}
    BY <1>2 DEF ClearCells, NoValues, Present
  <2> QED
    BY <1>0, <1>2, <2>1, ClearedCells DEF InputsInv
<1>3. ASSUME UNCHANGED cells PROVE InputsInv'
  BY <1>3 DEF cells, InputsInv
<1> QED
  BY <1>1, <1>2, <1>3, UpdateEffect, CellsClearedOrKept

\* The cells are sound in every state.
LEMMA CellsAlways == Spec => []CellsInv
<1>1. ASSUME Init PROVE CellsInv
  <2>1. PresentNames = {}
    BY <1>1 DEF Init, NoValues, NoModuleValues, PresentNames
  <2>2. /\ \A c \in Chips, v \in ModuleVirtual : fModuleValues[ModuleOf[c]][v] = Absent
        /\ \A c \in Chips : Present(fValues[c]) = {}
    BY <1>1, WriterAssumption DEF Init, NoValues, NoModuleValues, Present
  <2> QED
    BY <1>1, <2>1, <2>2 DEF Init, CellsInv, ColumnsInv, CycleInv, InputsInv
<1>2. TypeOK /\ OpenFileInv /\ CellsInv /\ [Next]_vars => CellsInv'
  BY ColumnsStep, CycleStep, InputsStep DEF CellsInv
<1>3. Init => OpenFileInv
  BY DEF Init, OpenFileInv
<1> QED
  BY <1>1, <1>2, <1>3, TypeCorrect, OpenFileStep, PTL DEF Spec

-----------------------------------------------------------------------------
(* The rows on disk.                                                       *)

\* A batch on disk was there before, or is the one endCycle writes.
LEMMA RowsOnDisk ==
  ASSUME TypeOK, [Next]_vars, NEW f \in DOMAIN disk', NEW i \in Batches(f)'
  PROVE  \/ f \in DOMAIN disk /\ i \in Batches(f) /\ disk'[f][i] = disk[f][i]
         \/ EndCycleWrites /\ disk'[f][i] = RowsLine
<1>0. i \in DOMAIN disk'[f] /\ disk'[f][i].kind = "rows"
  BY DEF Batches
<1>1. ASSUME ~ EndCycleWrites PROVE UNCHANGED disk
  BY <1>1 DEF Next, MonitorThread, Tick, Start, SetRunMetadata, Stop, BeginCycle, Update,
     CycleThrows, EndCycleSilently, EndCycleThrows, CloseOutputFile, output, vars
<1>2. CASE EndCycleWrites
  <2>1. PICK lines \in Seq(Lines) :
          /\ NewOutput \in Files
          /\ lines = IF MustOpen THEN <<HeaderLine, RowsLine>> ELSE <<RowsLine>>
          /\ AppendTo(NewOutput, lines)
    BY <1>2, EndCycleAppends
  <2>2. /\ DOMAIN disk' = DOMAIN disk \cup {NewOutput}
        /\ disk'[NewOutput] = Contents(NewOutput) \o lines
        /\ \A g \in DOMAIN disk : g # NewOutput => disk'[g] = disk[g]
    BY <2>1, AppendTypes
  <2>3. CASE f # NewOutput
    BY <1>0, <2>2, <2>3 DEF Batches
  <2>4. CASE f = NewOutput
    <3> DEFINE s == Contents(f)
    <3>1. s \in Seq(Lines) /\ (s # << >> => f \in DOMAIN disk /\ s = disk[f])
      BY DEF TypeOK, Contents
    <3>2. disk'[f] = s \o lines
      BY <2>2, <2>4
    <3>3. HeaderLine.kind = "header"
      BY DEF HeaderLine
    <3> HIDE DEF s, HeaderLine, RowsLine, Lines
    <3>4. CASE i \in 1 .. Len(s)
      <4>1. disk'[f][i] = s[i] /\ i \in DOMAIN s /\ s # << >>
        BY <2>1, <3>1, <3>2, <3>4
      <4> QED
        BY <1>0, <3>1, <4>1 DEF Batches
    <3>5. CASE i \notin 1 .. Len(s)
      <4>1. i - Len(s) \in 1 .. Len(lines) /\ disk'[f][i] = lines[i - Len(s)]
        BY <1>0, <2>1, <3>1, <3>2, <3>5
      <4>2. disk'[f][i] \in {HeaderLine, RowsLine}
        BY <2>1, <4>1
      <4> QED
        BY <1>0, <1>2, <3>3, <4>2
    <3> QED
      BY <3>4, <3>5
  <2> QED
    BY <2>3, <2>4
<1> QED
  BY <1>0, <1>1, <1>2 DEF Batches

\* Every value that stands in a row stands under a column of its own, and every
\* column has one: also when a column comes or goes while the file is open.
THEOREM NoValueIsLost == Spec => []NoValueLost
<1>1. Init => NoValueLost
  BY DEF Init, NoValueLost
<1>2. TypeOK /\ CellsInv /\ NoValueLost /\ [Next]_vars => NoValueLost'
  <2> SUFFICES ASSUME TypeOK, CellsInv, NoValueLost, [Next]_vars,
                      NEW f \in DOMAIN disk', NEW i \in Batches(f)'
               PROVE  disk'[f][i].columns = MeasuredNames(disk'[f][i])
    BY DEF NoValueLost, MeasuredNames
  <2>1. CASE f \in DOMAIN disk /\ i \in Batches(f) /\ disk'[f][i] = disk[f][i]
    BY <2>1 DEF NoValueLost
  <2>2. CASE EndCycleWrites /\ disk'[f][i] = RowsLine
    <3>1. HeaderColumns = PresentNames
      BY <2>2, WritesColumns DEF EndCycleWrites, CellsInv, ColumnsInv
    <3>2. /\ RowsLine.columns = HeaderColumns
          /\ MeasuredNames(RowsLine) = PresentNames
      BY DEF RowsLine, MeasuredNames, PresentNames
    <3> QED
      BY <2>2, <3>1, <3>2
  <2> QED
    BY <2>1, <2>2, RowsOnDisk
<1> QED
  BY <1>1, <1>2, TypeCorrect, CellsAlways, PTL DEF Spec

\* Rows are written for whole cycles only, whenever the writer is stopped or
\* started: a batch has a value of every listed register of every chip, and all
\* its values are of one cycle.
THEOREM RowsAreWholeCycles == Spec => []CyclesAreWhole
<1>1. Init => CyclesAreWhole
  BY DEF Init, CyclesAreWhole
<1>2. TypeOK /\ CellsInv /\ CyclesAreWhole /\ [Next]_vars => CyclesAreWhole'
  <2> DEFINE Whole(line, k) ==
        /\ \A c \in Chips, r \in Allowlist : line.chipCells[c][r] # Absent
        /\ \A cell \in CellsOf(line) : cell \in {Absent, k}
  <2> SUFFICES ASSUME TypeOK, CellsInv, CyclesAreWhole, [Next]_vars,
                      NEW f \in DOMAIN disk', NEW i \in Batches(f)'
               PROVE  \E k \in 1 .. cycle' : Whole(disk'[f][i], k)
    BY DEF CyclesAreWhole
  <2>0. cycle \in Nat /\ cycle' \in Nat /\ cycle <= cycle'
    <3>1. cycle' = cycle \/ cycle' = cycle + 1
      BY DEF Next, MonitorThread, Tick, Start, SetRunMetadata, Stop, BeginCycle, Update,
         CycleThrows, EndCycleSilently, EndCycleWrites, EndCycleThrows, driver, vars
    <3> QED
      BY <3>1 DEF TypeOK
  <2>1. CASE f \in DOMAIN disk /\ i \in Batches(f) /\ disk'[f][i] = disk[f][i]
    <3>1. PICK k \in 1 .. cycle : Whole(disk[f][i], k)
      BY <2>1 DEF CyclesAreWhole
    <3> HIDE DEF Whole
    <3> QED
      BY <2>0, <2>1, <3>1
  <2>2. CASE EndCycleWrites /\ disk'[f][i] = RowsLine
    <3>1. monitor = "cycle" /\ pending = {} /\ fCycleActive /\ UNCHANGED cycle
      BY <2>2 DEF EndCycleWrites, CycleDone, Writes
    <3>2. /\ \A c \in Chips, n \in Names : fValues[c][n] \in {Absent, cycle}
          /\ \A m \in Modules, v \in ModuleVirtual : fModuleValues[m][v] \in {Absent, cycle}
          /\ \A c \in Chips, r \in Allowlist : fValues[c][r] # Absent
          /\ cycle > 0
      BY <3>1 DEF CellsInv, CycleInv
    <3>3. RowsLine.chipCells = fValues /\ RowsLine.moduleCells = fModuleValues
      BY DEF RowsLine
    <3>4. Whole(RowsLine, cycle)
      BY <3>2, <3>3 DEF CellsOf
    <3> HIDE DEF Whole
    <3> QED
      BY <2>0, <2>2, <3>1, <3>2, <3>4
  <2> QED
    BY <2>1, <2>2, RowsOnDisk
<1> QED
  BY <1>1, <1>2, TypeCorrect, CellsAlways, PTL DEF Spec

\* A module value in a row was computed from what the row says of the chips its
\* expression names, and is there if that is there.
THEOREM ModuleValuesAreComplete == Spec => []ModuleValuesComplete
<1>1. Init => ModuleValuesComplete
  BY DEF Init, ModuleValuesComplete
<1>2. TypeOK /\ CellsInv /\ ModuleValuesComplete /\ [Next]_vars => ModuleValuesComplete'
  <2> DEFINE Complete(line) ==
        \A c \in Chips, v \in ModuleVirtual :
          LET value    == line.moduleCells[ModuleOf[c]][v]
              complete == InputsPresent(line.chipCells, ModuleOf[c], v)
          IN (value # Absent => complete) /\ (complete /\ v \notin MayFail => value # Absent)
  <2> SUFFICES ASSUME TypeOK, CellsInv, ModuleValuesComplete, [Next]_vars,
                      NEW f \in DOMAIN disk', NEW i \in Batches(f)'
               PROVE  Complete(disk'[f][i])
    BY DEF ModuleValuesComplete
  <2>1. CASE f \in DOMAIN disk /\ i \in Batches(f) /\ disk'[f][i] = disk[f][i]
    <3>1. Complete(disk[f][i])
      BY <2>1 DEF ModuleValuesComplete
    <3> HIDE DEF Complete
    <3> QED
      BY <2>1, <3>1
  <2>2. CASE EndCycleWrites /\ disk'[f][i] = RowsLine
    <3>1. RowsLine.chipCells = fValues /\ RowsLine.moduleCells = fModuleValues
      BY DEF RowsLine
    <3>2. /\ monitor = "cycle" /\ pending = {} /\ fCycleActive
          /\ \E c \in Chips : Present(fValues[c]) # {}
      BY <2>2 DEF EndCycleWrites, CycleDone, Writes, HasValues
    <3>3. PICK r \in Allowlist : \A c \in Chips : fValues[c][r] # Absent
      BY <3>2 DEF CellsInv, CycleInv, InputsInv
    <3>4. \A c \in Chips : Present(fValues[c]) # {}
      <4>1. r \in Names
        BY WriterAssumption DEF Names
      <4>2. \A c \in Chips : DOMAIN fValues[c] = Names
        BY DEF TypeOK
      <4> QED
        BY <3>3, <4>1, <4>2 DEF Present
    <3>5. Complete(RowsLine)
      BY <3>1, <3>4 DEF CellsInv, InputsInv
    <3> HIDE DEF Complete
    <3> QED
      BY <2>2, <3>5
  <2> QED
    BY <2>1, <2>2, RowsOnDisk
<1> QED
  BY <1>1, <1>2, TypeCorrect, CellsAlways, PTL DEF Spec
=============================================================================
