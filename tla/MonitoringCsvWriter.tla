------------------------ MODULE MonitoringCsvWriter ------------------------
(***************************************************************************)
(* The CSV monitoring writer of MonitorUtils/MonitoringCsvWriter.{h,cc}    *)
(* and the one thread that feeds it, RD53Monitor::runMonitor.              *)
(*                                                                         *)
(* Every public method of the writer holds fMutex from its first to its    *)
(* last statement, so each method is one atomic action.  start,            *)
(* setRunMetadata and stop come from the threads that configure the system *)
(* and run calibrations; beginCycle, update and endCycle from the          *)
(* monitoring thread.  The methods interleave in every order.              *)
(*                                                                         *)
(* A register value is abstracted to the number of the monitoring cycle    *)
(* that read it, 0 standing for no value.  The files on disk are a         *)
(* history: each is the sequence of header lines and batches (the rows of  *)
(* one cycle, one per chip) appended to it so far.                         *)
(***************************************************************************)
EXTENDS Naturals, Sequences

CONSTANTS
  Chips, Modules,
  ModuleOf, ChipId, \* the module (board, optical group, hybrid) of each chip, its place there
  Registers,        \* the registers the XML file asks to monitor
  Allowlist,        \* csv_register_allowlist ("*" is all of Registers)
  ChipVirtual,      \* virtual registers of scope chip
  ModuleVirtual,    \* virtual registers of scope module
  Inputs,           \* what the expression of each reads of the chip (REGISTER), or of
                    \* all chips of the module (REGISTER[*])
  IndexedInputs,    \* and what one of module scope reads of a chip (REGISTER[id])
  MayFail,          \* those whose result may be infinite or divide by zero
  Metas,            \* the <calibration name, run number> pairs of the runs
  RotateSize,       \* csv_rotate_size_mb, counted in lines; 0 disables it
  RotateSeconds,    \* csv_rotate_minutes, in clock units; 0 disables it
  MaxCycles,        \* bound: monitoring cycles
  MaxSecond         \* bound: the clock

Names   == Registers \cup ChipVirtual
Columns == Names \cup ModuleVirtual

ASSUME WriterAssumption ==
  /\ ModuleOf \in [Chips -> Modules] /\ ChipId \in [Chips -> Nat]
  /\ \A c, d \in Chips : ModuleOf[c] = ModuleOf[d] /\ ChipId[c] = ChipId[d] => c = d
  /\ Allowlist \subseteq Registers
  /\ MayFail \subseteq ChipVirtual \cup ModuleVirtual
  /\ Inputs \in [ChipVirtual \cup ModuleVirtual -> SUBSET Names]
  /\ IndexedInputs \in [ModuleVirtual -> SUBSET (Names \X Nat)]
  /\ ModuleVirtual \cap Names = {}
  /\ RotateSize \in Nat /\ RotateSeconds \in Nat
  /\ MaxCycles \in Nat /\ MaxSecond \in Nat

Absent  == 0
NoStem  == [noStem |-> TRUE]
NoFile  == [noFile |-> TRUE]
Stems   == [meta : Metas, second : Nat]
Files   == [stem : Stems, part : Nat]

VARIABLES
  fRunning, fCycleActive, fMetadataReady,
  meta,             \* fCalibrationName and fRunNumber
  fFilePart, fFileStem,
  fOutput,          \* the open file, named by fCurrentFilePath, or NoFile
  fFileOpenedAt,
  fColumns, fWrittenColumns,
  fValues, fModuleValues,
  second,           \* the clock
  monitor,          \* runMonitor: "idle", "cycle", or "dead" after an exception
  cycle,            \* history: number of the monitoring cycle
  pending,          \* what the cycle under way has still to read
  readDuring,       \* history: the runs during which it has read
  disk              \* history: what has been written to each file

flags  == <<fRunning, fCycleActive, fMetadataReady>>
naming == <<meta, fFilePart, fFileStem>>
output == <<fOutput, fFileOpenedAt, fWrittenColumns, disk>>
cells  == <<fColumns, fValues, fModuleValues>>
driver == <<monitor, cycle, pending, readDuring>>
vars   == <<flags, naming, output, cells, second, driver>>

Lines ==
  [kind : {"header"}, columns : SUBSET Columns]
    \cup [kind : {"rows"}, columns : SUBSET Columns,
          chipCells : [Chips -> [Names -> Nat]],
          moduleCells : [Modules -> [ModuleVirtual -> Nat]]]

TypeOK ==
  /\ fRunning \in BOOLEAN /\ fCycleActive \in BOOLEAN /\ fMetadataReady \in BOOLEAN
  /\ meta \in Metas
  /\ fFilePart \in Nat
  /\ fFileStem \in Stems \cup {NoStem}
  /\ fOutput \in Files \cup {NoFile}
  /\ fFileOpenedAt \in Nat
  /\ fColumns \subseteq Columns /\ fWrittenColumns \subseteq Columns
  /\ fValues \in [Chips -> [Names -> Nat]]
  /\ fModuleValues \in [Modules -> [ModuleVirtual -> Nat]]
  /\ second \in Nat
  /\ monitor \in {"idle", "cycle", "dead"}
  /\ cycle \in Nat
  /\ pending \subseteq Chips \X Registers
  /\ readDuring \subseteq Metas
  /\ DOMAIN disk \subseteq Files
  /\ \A f \in DOMAIN disk : disk[f] \in Seq(Lines)

NoValues       == [c \in Chips |-> [n \in Names |-> Absent]]
NoModuleValues == [m \in Modules |-> [v \in ModuleVirtual |-> Absent]]

Init ==
  /\ fRunning = FALSE /\ fCycleActive = FALSE /\ fMetadataReady = FALSE
  /\ meta \in Metas
  /\ fFilePart = 1
  /\ fFileStem = NoStem
  /\ fOutput = NoFile
  /\ fFileOpenedAt = 0
  /\ fColumns = {} /\ fWrittenColumns = {}
  /\ fValues = NoValues /\ fModuleValues = NoModuleValues
  /\ second = 0
  /\ monitor = "idle"
  /\ cycle = 0
  /\ pending = {}
  /\ readDuring = {}
  /\ disk = << >>

Tick ==
  /\ second < MaxSecond
  /\ second' = second + 1
  /\ UNCHANGED <<flags, naming, output, cells, driver>>

-----------------------------------------------------------------------------
(* The methods called when the system is configured, run and destroyed.    *)

\* Fault: the column list is dropped but the file is left open.
FaultyCloseOutputFile ==
  /\ fWrittenColumns' = {}
  /\ UNCHANGED <<fOutput, fFileOpenedAt, disk>>

\* closeOutputFileLocked
CloseOutputFile ==
  /\ fOutput' = NoFile
  /\ fWrittenColumns' = {}
  /\ UNCHANGED <<fFileOpenedAt, disk>>

ClearCells ==
  fColumns' = {} /\ fValues' = NoValues /\ fModuleValues' = NoModuleValues

\* start: the calibration it names becomes the metadata, not yet valid.  It
\* may throw once everything is cleared (output directory, virtual register
\* file, DCA lookup with policy abort), and then leaves fRunning FALSE.
\* A new system comes with a new monitoring thread.
Start(m, succeeds) ==
  /\ ~fRunning
  /\ meta' = m
  /\ fMetadataReady' = FALSE
  /\ ClearCells
  /\ fWrittenColumns' = {}
  /\ fRunning' = succeeds
  /\ monitor' = IF monitor = "dead" THEN "idle" ELSE monitor
  /\ UNCHANGED <<fCycleActive, fFilePart, fFileStem, fOutput, fFileOpenedAt, disk,
                 second, cycle, pending, readDuring>>

\* Fault: the file of the previous run stays open.
FaultySetRunMetadata(m) ==
  /\ fRunning
  /\ ~(fMetadataReady /\ meta = m)
  /\ meta' = m
  /\ fMetadataReady' = TRUE
  /\ fFilePart' = 1
  /\ fFileStem' = NoStem
  /\ UNCHANGED <<fRunning, fCycleActive, output, cells, second, driver>>

SetRunMetadata(m) ==
  /\ fRunning
  /\ ~(fMetadataReady /\ meta = m)
  /\ CloseOutputFile
  /\ meta' = m
  /\ fMetadataReady' = TRUE
  /\ fFilePart' = 1
  /\ fFileStem' = NoStem
  /\ UNCHANGED <<fRunning, fCycleActive, cells, second, driver>>

\* Fault: the cycle under way is not abandoned.
FaultyStop ==
  /\ CloseOutputFile
  /\ ClearCells
  /\ fRunning' = FALSE
  /\ fMetadataReady' = FALSE
  /\ UNCHANGED <<fCycleActive, naming, second, driver>>

Stop ==
  /\ CloseOutputFile
  /\ ClearCells
  /\ fRunning' = FALSE
  /\ fCycleActive' = FALSE
  /\ fMetadataReady' = FALSE
  /\ UNCHANGED <<naming, second, driver>>

-----------------------------------------------------------------------------
(* The monitoring thread.                                                  *)

\* runMonitor reads every register of every chip once beginCycle has returned.
BeginCycle ==
  /\ monitor = "idle" /\ cycle < MaxCycles
  /\ monitor' = "cycle"
  /\ cycle' = cycle + 1
  /\ pending' = Chips \X Registers
  /\ readDuring' = {}
  /\ IF fRunning THEN ClearCells /\ fCycleActive' = TRUE
                 ELSE UNCHANGED <<cells, fCycleActive>>
  /\ UNCHANGED <<fRunning, fMetadataReady, naming, output, second>>

Present(row) == {n \in DOMAIN row : row[n] # Absent}

\* updateChipVirtualRegistersLocked: an expression with a missing input, or
\* whose result is not finite (those in failing), leaves its register as it was.
Evaluable(row, failing) == {v \in ChipVirtual \ failing : Inputs[v] \subseteq Present(row)}

UpdatedRow(row, r, failing) ==
  LET measured == [row EXCEPT ![r] = cycle]
  IN [n \in Names |-> IF n \in Evaluable(measured, failing) THEN cycle ELSE measured[n]]

\* In chip cells such as fValues, the inputs of v are there for a module:
\* REGISTER[*] from every chip, REGISTER[id] from the chip of that number, if
\* there is one.
InputsPresent(values, module, v) ==
  /\ \A c \in Chips : ModuleOf[c] = module => Inputs[v] \subseteq Present(values[c])
  /\ \A input \in IndexedInputs[v] :
       \E c \in Chips : /\ ModuleOf[c] = module /\ ChipId[c] = input[2]
                        /\ input[1] \in Present(values[c])

\* Fault: REGISTER[*] takes the chips that have a value, without counting them.
FaultyModuleEvaluable(values, module, failing) ==
  {v \in ModuleVirtual \ failing :
     /\ \E c \in Chips : ModuleOf[c] = module /\ Inputs[v] \subseteq Present(values[c])
     /\ \A input \in IndexedInputs[v] :
          \E c \in Chips : /\ ModuleOf[c] = module /\ ChipId[c] = input[2]
                           /\ input[1] \in Present(values[c])}

\* updateModuleVirtualRegistersLocked
ModuleEvaluable(values, module, failing) ==
  {v \in ModuleVirtual \ failing : InputsPresent(values, module, v)}

RecordValue(c, r, failing) ==
  LET module    == ModuleOf[c]
      values    == [fValues EXCEPT ![c] = UpdatedRow(@, r, failing)]
      virtual   == Evaluable([fValues[c] EXCEPT ![r] = cycle], failing)
      aggregate == ModuleEvaluable(values, module, failing)
  IN /\ fValues' = values
     /\ fModuleValues' =
          [fModuleValues EXCEPT ![module] =
             [v \in ModuleVirtual |-> IF v \in aggregate THEN cycle ELSE @[v]]]
     /\ fColumns' = fColumns \cup {r} \cup virtual \cup aggregate

Update(c, r, failing) ==
  /\ monitor = "cycle" /\ <<c, r>> \in pending
  /\ pending' = pending \ {<<c, r>>}
  /\ IF fRunning /\ fCycleActive /\ r \in Allowlist
     THEN RecordValue(c, r, failing)
     ELSE UNCHANGED cells
  /\ readDuring' = readDuring \cup {meta}
  /\ UNCHANGED <<flags, naming, output, second, monitor, cycle>>

\* An exception of a hardware access ends the thread in the middle of a cycle.
CycleThrows ==
  /\ monitor = "cycle"
  /\ monitor' = "dead"
  /\ UNCHANGED <<flags, naming, output, cells, second, cycle, pending, readDuring>>

\* Fault: a new column does not start a new part.
FaultyColumnsChanged == FALSE

ColumnsChanged == fWrittenColumns # {} /\ fColumns # fWrittenColumns

\* Fault: the size limit counts only when there is no time limit.
FaultyLimitReached ==
  IF RotateSeconds > 0 THEN second - fFileOpenedAt >= RotateSeconds
  ELSE RotateSize > 0 /\ Len(disk[fOutput]) >= RotateSize

\* rotateIfNeededLocked
LimitReached ==
  \/ RotateSeconds > 0 /\ second - fFileOpenedAt >= RotateSeconds
  \/ RotateSize > 0 /\ Len(disk[fOutput]) >= RotateSize

Closes    == ColumnsChanged \/ (fOutput # NoFile /\ LimitReached)
NewPart   == IF Closes THEN fFilePart + 1 ELSE fFilePart
MustOpen  == fOutput = NoFile \/ Closes

NewStem == IF MustOpen /\ fFileStem = NoStem
             THEN [meta |-> meta, second |-> second] ELSE fFileStem
NewOutput == IF MustOpen THEN [stem |-> NewStem, part |-> NewPart] ELSE fOutput

\* writeHeaderLocked and writeRowsLocked
HeaderColumns == IF MustOpen THEN fColumns ELSE fWrittenColumns
HeaderLine == [kind |-> "header", columns |-> HeaderColumns]
RowsLine   == [kind |-> "rows", columns |-> HeaderColumns,
               chipCells |-> fValues, moduleCells |-> fModuleValues]

Contents(f) == IF f \in DOMAIN disk THEN disk[f] ELSE << >>

\* openOutputFileLocked appends, so a file that exists is continued.
AppendTo(f, lines) ==
  disk' = [g \in DOMAIN disk \cup {f} |-> IF g = f THEN Contents(f) \o lines ELSE disk[g]]

HasValues == \E c \in Chips : Present(fValues[c]) # {}
Writes    == fRunning /\ fCycleActive /\ fMetadataReady /\ HasValues

CycleDone == monitor = "cycle" /\ pending = {}

\* endCycle when it has nothing to write.
EndCycleSilently ==
  /\ CycleDone /\ ~Writes
  /\ fCycleActive' = (fCycleActive /\ ~fRunning)
  /\ monitor' = "idle"
  /\ UNCHANGED <<fRunning, fMetadataReady, naming, output, cells, second, cycle, pending, readDuring>>

\* endCycle that writes the rows of the cycle, into a new part if need be.
EndCycleWrites ==
  /\ CycleDone /\ Writes
  /\ fCycleActive' = FALSE
  /\ fFilePart' = NewPart
  /\ fFileStem' = NewStem
  /\ fOutput' = NewOutput
  /\ fWrittenColumns' = HeaderColumns
  /\ IF MustOpen
     THEN AppendTo(NewOutput, <<HeaderLine, RowsLine>>) /\ fFileOpenedAt' = second
     ELSE AppendTo(NewOutput, <<RowsLine>>) /\ UNCHANGED fFileOpenedAt
  /\ monitor' = "idle"
  /\ UNCHANGED <<fRunning, fMetadataReady, meta, cells, second, cycle, pending, readDuring>>

\* endCycle whose file cannot be opened: the exception ends the thread.
EndCycleThrows ==
  /\ CycleDone /\ Writes /\ MustOpen
  /\ fCycleActive' = FALSE
  /\ fFilePart' = NewPart
  /\ fFileStem' = NewStem
  /\ CloseOutputFile
  /\ monitor' = "dead"
  /\ UNCHANGED <<fRunning, fMetadataReady, meta, cells, second, cycle, pending, readDuring>>

MonitorThread ==
  \/ BeginCycle
  \/ \E c \in Chips, r \in Registers, failing \in SUBSET MayFail :
       Update(c, r, failing)
  \/ CycleThrows
  \/ EndCycleSilently \/ EndCycleWrites \/ EndCycleThrows

Next ==
  \/ Tick
  \/ \E m \in Metas, succeeds \in BOOLEAN : Start(m, succeeds)
  \/ \E m \in Metas : SetRunMetadata(m)
  \/ Stop
  \/ MonitorThread

Spec == Init /\ [][Next]_vars

-----------------------------------------------------------------------------
(* Properties.                                                             *)

Batches(f) == {i \in DOMAIN disk[f] : disk[f][i].kind = "rows"}

CellsOf(line) ==
  {line.chipCells[c][n] : c \in Chips, n \in Names}
    \cup {line.moduleCells[m][v] : m \in Modules, v \in ModuleVirtual}

MeasuredNames(line) ==
  {n \in Names : \E c \in Chips : line.chipCells[c][n] # Absent}
    \cup {v \in ModuleVirtual : \E m \in Modules : line.moduleCells[m][v] # Absent}

\* Every file starts with a header, and every row is laid out by the header
\* above it, across rotations, column changes and re-opened files.
SelfDescribing ==
  \A f \in DOMAIN disk : \A i \in DOMAIN disk[f] :
    disk[f][i].kind = "rows" => i > 1 /\ disk[f][i].columns = disk[f][i - 1].columns

\* The columns of the rows are exactly the registers, physical and virtual,
\* that have a value in their cycle: no value is dropped for want of a column.
NoValueLost ==
  \A f \in DOMAIN disk : \A i \in Batches(f) :
    disk[f][i].columns = MeasuredNames(disk[f][i])

\* Rows are written for whole cycles only: each batch has, for every chip, every
\* listed register, read in one and the same cycle; a cycle during which the
\* writer was stopped, or stopped and started again, leaves no row.
CyclesAreWhole ==
  \A f \in DOMAIN disk : \A i \in Batches(f) :
    \E k \in 1..cycle :
      /\ \A c \in Chips, r \in Allowlist : disk[f][i].chipCells[c][r] # Absent
      /\ \A cell \in CellsOf(disk[f][i]) : cell \in {Absent, k}

\* A module-scope value stands in a batch only if the chips its expression names
\* have the inputs in that same batch: all chips of the module for REGISTER[*],
\* the one chip for REGISTER[id], whatever the others lack.  And it is missing only
\* for want of an input, if its result is always finite.
ModuleValuesComplete ==
  \A f \in DOMAIN disk : \A i \in Batches(f) : \A c \in Chips, v \in ModuleVirtual :
    LET value    == disk[f][i].moduleCells[ModuleOf[c]][v]
        complete == InputsPresent(disk[f][i].chipCells, ModuleOf[c], v)
    IN (value # Absent => complete) /\ (complete /\ v \notin MayFail => value # Absent)

\* The open file carries the name of the current run, so that no row can be
\* appended to the file of an earlier run.
OutputBelongsToRun ==
  fOutput # NoFile => fRunning /\ fMetadataReady /\ fOutput.stem.meta = meta

\* A file that stays open never grows once one of the two limits is reached.
RotationRespected ==
  [][\A f \in DOMAIN disk :
       disk'[f] # disk[f] /\ fOutput = f =>
         /\ RotateSize = 0 \/ Len(disk[f]) < RotateSize
         /\ RotateSeconds = 0 \/ second - fFileOpenedAt < RotateSeconds]_vars

\* The rows appended to a file were read during the run that names it.  TLC
\* refutes it (README.md).
RowsReadInTheirRun ==
  [][\A f \in DOMAIN disk' : Contents(f)' # Contents(f) => readDuring \subseteq {f.stem.meta}]_vars
=============================================================================
