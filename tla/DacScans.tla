------------------------------ MODULE DacScans ------------------------------
(***************************************************************************)
(* The scans of the inner-tracker calibrations that look for the register  *)
(* value whose measurement is nearest to a target:                         *)
(*   "ThrEqualization"   VCAL_HIGH, ThrEqualization::bitWiseScanGlobal     *)
(*   "ThrMinimization"   the thresholds, relative to their values before   *)
(*   "GainOptimization"  the Krummenacher current                          *)
(*   "Local"             TDAC of the pixels, bitWiseScanLocal: here Chips  *)
(*                       stands for pixels                                 *)
(* All chips are scanned together, each with an interval of its own.  A    *)
(* measurement is PixelAlive run and analysed; it is one of the outcomes   *)
(* the chip may give for the value its register has.                       *)
(***************************************************************************)
EXTENDS Integers

CONSTANTS
  NChips,         \* the chips, numbered in the order of the loops
  OpticalGroup,   \* the optical group of a chip
  RegValues,      \* a register is a uint16_t: 65536
  MaxValue,       \* the largest value of a measurement
  TotalPixels,    \* pixels of a chip
  Settings,       \* the settings a scan may be run with
  Responses       \* what the chips may be like: outcomes by chip and register

Chips == 1 .. NChips
Registers == 0 .. RegValues - 1
ScanNames == {"ThrEqualization", "ThrMinimization", "GainOptimization", "Local"}

\* What PixelAlive finds: the mean occupancy or charge and the pixels it masks.
Measurements == [value : 0 .. MaxValue, masked : 0 .. TotalPixels]

\* start and stop are inclusive; ThrMinimization adds them to the original
\* value of the register, the other scans take them as they are.
ASSUME SettingsAssumption ==
  /\ NChips \in Nat \ {0} /\ RegValues \in Nat \ {0} /\ MaxValue \in Nat
  /\ TotalPixels \in Nat \ {0}
  /\ OpticalGroup \in [Chips -> Nat]
  /\ \A c, d \in Chips : c <= d => OpticalGroup[c] <= OpticalGroup[d]
  /\ \A s \in Settings :
       /\ s.scan \in ScanNames
       /\ s.start \in Int /\ s.stop \in Int /\ s.start <= s.stop
       /\ s.stop - s.start + 1 < 65536
       /\ s.scan # "ThrMinimization" => s.start >= 0 /\ s.stop + 1 < RegValues
       /\ s.scan = "Local" => s.start = 0 /\ \A c \in Chips : s.original[c] <= s.stop
       /\ s.target \in 0 .. MaxValue
       /\ s.steps \in Nat                       \* DoNSteps
       /\ s.maxMasked \in Nat                   \* MaxMaskedPixels, in percent
       /\ s.original \in [Chips -> Registers]   \* the registers before the scan
       /\ s.enabled \subseteq Chips             \* the pixels the scan takes part of
  /\ Responses \subseteq [Chips -> [Registers -> (SUBSET Measurements) \ {{}}]]

VARIABLES
  settings, response,      \* the settings and the chips, never changed
  pc, iteration,           \* where bitWiseScan is: "download", "measure", "best", "done"
  minDAC, midDAC, maxDAC,  \* the interval of each chip and the value to try
  bestValue, bestDAC,      \* the nearest measurement and its register value
  regMap,                  \* the register in the software (RD53::setReg)
  chip                     \* the register in the chip

vars == <<settings, response, pc, iteration, minDAC, midDAC, maxDAC,
          bestValue, bestDAC, regMap, chip>>

Is(name) == settings.scan = name
Local == Is("Local")

-----------------------------------------------------------------------------
(* The interval.                                                           *)

PowersOf2 == << 1, 2, 4, 8, 16, 32, 64, 128, 256, 512, 1024, 2048, 4096, 8192,
                16384, 32768, 65536 >>

\* floor(log2(n) + 1), with n values from start to stop
NumberOfBits ==
  CHOOSE b \in 1 .. 16 : LET n == settings.stop - settings.start + 1
                         IN  PowersOf2[b] <= n /\ n < PowersOf2[b + 1]

\* The loops run from 0 to here.
LastIteration ==
  IF Local /\ settings.steps # 0 THEN settings.steps ELSE NumberOfBits

\* Fault: the middle is rounded up.
FaultyMiddle(low, high) == (low + high + 1) \div 2

Middle(low, high) == (low + high) \div 2

\* The value of the register for a DAC value of the scan.
Register(c, dac) ==
  IF Is("ThrMinimization") THEN (settings.original[c] + dac) % RegValues ELSE dac

\* The percentage of masked pixels, in integers.
MaskedPercent(m) == (m.masked \div TotalPixels) * 100

\* The measurement says that the wanted value is lower.
Beyond(m) ==
  \/ Is("ThrEqualization") /\ m.value > settings.target
  \/ Is("Local") /\ m.value >= settings.target
  \/ Is("GainOptimization") /\ m.value < settings.target
  \/ Is("ThrMinimization") /\ m.value < settings.target
                           /\ MaskedPercent(m) < settings.maxMasked

Distance(v) == IF v >= settings.target THEN v - settings.target ELSE settings.target - v

\* The local scan keeps the last of equally good values, the others the first.
Better(new, old) ==
  \/ Distance(new) < Distance(old)
  \/ Local /\ Distance(new) = Distance(old)

\* The pixel takes part in the scan.
Measured(c) == Local => c \in settings.enabled

\* Fault: the middle of the interval before the step.
FaultyNextMiddle(c, m, low, high) ==
  CASE ~ Local \/ ~ Measured(c) -> midDAC[c]
    [] Local /\ Measured(c) /\ settings.steps = 0 -> Middle(minDAC[c], maxDAC[c])
    [] OTHER -> IF Beyond(m) THEN IF midDAC[c] = 0 THEN 0 ELSE midDAC[c] - 1
                             ELSE IF midDAC[c] = settings.stop THEN settings.stop
                                                               ELSE midDAC[c] + 1

\* bitWiseScanLocal moves the middle at the end of the step, bit by bit or,
\* with DoNSteps, to the neighbour.
NextMiddle(c, m, low, high) ==
  CASE ~ Local \/ ~ Measured(c) -> midDAC[c]
    [] Local /\ Measured(c) /\ settings.steps = 0 -> Middle(low, high)
    [] OTHER -> IF Beyond(m) THEN IF midDAC[c] = 0 THEN 0 ELSE midDAC[c] - 1
                             ELSE IF midDAC[c] = settings.stop THEN settings.stop
                                                               ELSE midDAC[c] + 1

-----------------------------------------------------------------------------
(* CalibBase::downloadNewDACvalues and WriteChipAllLocalReg.               *)

\* The chips whose command is packed: with checkAgainst the function returns
\* at the first chip that has the value 0, which stands for "not found".
Packed(values, checkAgainst) ==
  {c \in Chips : \A d \in 1 .. c : ~ (checkAgainst /\ values[d] = 0)}

\* Fault: with checkAgainst the commands are packed only.
FaultySent(values, checkAgainst) == IF checkAgainst THEN {} ELSE Chips

\* The chips whose command is sent: optical groups at a time.
Sent(values, checkAgainst) ==
  {c \in Chips : \A d \in Chips :
     OpticalGroup[d] = OpticalGroup[c] => d \in Packed(values, checkAgainst)}

\* Fault: the value that stands for "not found" is downloaded.
FaultyDownloadNewDACvalues(values, checkAgainst) ==
  regMap' = values /\ chip' = values

\* Packing a command updates the software, sending it the chip.
DownloadNewDACvalues(values, checkAgainst) ==
  /\ regMap' = [c \in Chips |-> IF c \in Packed(values, checkAgainst) THEN values[c] ELSE regMap[c]]
  /\ chip' = [c \in Chips |-> IF c \in Sent(values, checkAgainst) THEN values[c] ELSE chip[c]]

-----------------------------------------------------------------------------
(* The scan.                                                               *)

Init ==
  /\ settings \in Settings
  /\ response \in Responses
  /\ pc = "download" /\ iteration = 0
  /\ minDAC = [c \in Chips |-> settings.start]
  /\ maxDAC = [c \in Chips |-> settings.stop + 1]
  /\ midDAC = IF Local THEN settings.original ELSE [c \in Chips |-> 0]
  /\ bestDAC = IF Local THEN settings.original ELSE [c \in Chips |-> 0]
  /\ bestValue = [c \in Chips |->
                    IF Local /\ 2 * settings.target < MaxValue THEN MaxValue ELSE 0]
  /\ regMap = settings.original
  /\ chip = settings.original

\* The values to try, the middle of each interval, are downloaded.
DownloadMiddle ==
  /\ pc = "download"
  /\ midDAC' = IF Local THEN midDAC ELSE [c \in Chips |-> Middle(minDAC[c], maxDAC[c])]
  /\ DownloadNewDACvalues([c \in Chips |-> Register(c, midDAC'[c])], FALSE)
  /\ pc' = "measure"
  /\ UNCHANGED <<settings, response, iteration, minDAC, maxDAC, bestValue, bestDAC>>

\* PixelAlive::run, analyze and the next step of every chip.
Measure ==
  /\ pc = "measure"
  /\ \E m \in [Chips -> UNION {response[c][chip[c]] : c \in Chips}] :
       /\ \A c \in Chips : m[c] \in response[c][chip[c]]
       /\ LET better == {c \in Chips : Measured(c) /\ Better(m[c].value, bestValue[c])}
              beyond == {c \in Chips : Beyond(m[c])}
          IN  /\ bestValue' = [c \in Chips |-> IF c \in better THEN m[c].value ELSE bestValue[c]]
              /\ bestDAC' = [c \in Chips |->
                               IF c \in better THEN Register(c, midDAC[c]) ELSE bestDAC[c]]
              /\ maxDAC' = [c \in Chips |->
                              IF Measured(c) /\ c \in beyond THEN midDAC[c] ELSE maxDAC[c]]
              /\ minDAC' = [c \in Chips |->
                              IF Measured(c) /\ c \notin beyond THEN midDAC[c] ELSE minDAC[c]]
       /\ midDAC' = [c \in Chips |-> NextMiddle(c, m[c], minDAC'[c], maxDAC'[c])]
  /\ iteration' = iteration + 1
  /\ pc' = IF iteration = LastIteration THEN "best" ELSE "download"
  /\ UNCHANGED <<settings, response, regMap, chip>>

\* The best values are downloaded; only the local scan does not check them.
DownloadBest ==
  /\ pc = "best"
  /\ DownloadNewDACvalues(bestDAC, ~ Local)
  /\ pc' = "done"
  /\ UNCHANGED <<settings, response, iteration, minDAC, midDAC, maxDAC, bestValue, bestDAC>>

Next == DownloadMiddle \/ Measure \/ DownloadBest

Spec == Init /\ [][Next]_vars

-----------------------------------------------------------------------------
(* Properties.                                                             *)

\* Types: the values of the scan (ThrEqualization.cc:433-442 and the others).
TypeOK ==
  /\ settings \in Settings
  /\ response \in [Chips -> [Registers -> (SUBSET Measurements) \ {{}}]]
  /\ pc \in {"download", "measure", "best", "done"} /\ iteration \in Nat
  /\ \A f \in {minDAC, midDAC, maxDAC} : f \in [Chips -> Int]
  /\ bestValue \in [Chips -> 0 .. MaxValue]
  /\ \A f \in {bestDAC, regMap, chip} : f \in [Chips -> Registers]

\* The registers of chip c between start and stop.
Scanned(c) == {Register(c, d) : d \in settings.start .. settings.stop}

\* From the first download on a chip has a register value of the range of the
\* scan, also while the interval shrinks to nothing at one of its ends, on a
\* walk, and when nothing was found: never stop + 1, never the 0 that stands
\* for "not found" (tools/RD53ThrEqualization.cc:439-463 and 690-701,
\* tools/RD53CalibBase.cc:128-145).
StaysInRange ==
  iteration > 0 \/ pc = "measure" => \A c \in Chips : chip[c] \in Scanned(c)

\* The value of chip c for a DAC value, when it has only one.
Reading(c, d) == CHOOSE m \in Measurements : m \in response[c][Register(c, d)]

\* Chip c gives one value for each DAC value, they rise or fall the way its scan
\* expects, and no value masks all of the pixels.
Monotone(c) ==
  /\ \A d \in settings.start .. settings.stop :
       \E m \in Measurements :
         /\ response[c][Register(c, d)] = {m}
         /\ Is("ThrMinimization") => MaskedPercent(m) < settings.maxMasked
  /\ \A d, e \in settings.start .. settings.stop :
       d <= e => IF Is("ThrEqualization") \/ Local
                 THEN Reading(c, d).value <= Reading(c, e).value
                 ELSE Reading(c, e).value <= Reading(c, d).value

Finished == pc \in {"best", "done"}

\* The bits and the rounding of the interval are enough: a finished scan of a
\* monotone chip has measured nothing farther from the target than any value of
\* the range, both ends included, would have given (bitWiseScanGlobal of
\* RD53ThrEqualization, RD53ThrMinimization and RD53GainOptimization).
BestIsNearest ==
  Finished /\ ~ Local =>
    \A c \in Chips : Monotone(c) =>
      \A d \in settings.start .. settings.stop :
        Distance(bestValue[c]) <= Distance(Reading(c, d).value)

\* The same of the pixels of the local scan, which starts wherever the pixel
\* was; a walk of DoNSteps finds the nearest of the values it can reach
\* (tools/RD53ThrEqualization.cc:560-703).
LocalBestIsNearest ==
  Finished /\ Local =>
    \A c \in settings.enabled : Monotone(c) =>
      \A d \in settings.start .. settings.stop :
        \/ Distance(bestValue[c]) <= Distance(Reading(c, d).value)
        \/ settings.steps # 0 /\ ~ (settings.original[c] - settings.steps <= d
                                    /\ d <= settings.original[c] + settings.steps)

\* The value a chip is left with is the one its best measurement was made with.
BestWasMeasured ==
  \A c \in Chips : bestDAC[c] # (IF Local THEN settings.original[c] ELSE 0) =>
    \E m \in response[c][bestDAC[c]] : m.value = bestValue[c]

\* One chip without a value stops the download: the values found for the chips
\* of its group and of the later ones are not sent.  The register in software
\* is ahead of the chip only for the chips before it in its optical group; the
\* earlier groups have their best values (tools/RD53CalibBase.cc:117-154).
LostOnlyBehindAFailure ==
  pc = "done" => \A c \in Chips :
    /\ regMap[c] # chip[c] =>
         \E d \in c + 1 .. NChips : OpticalGroup[d] = OpticalGroup[c] /\ bestDAC[d] = 0
    /\ chip[c] # bestDAC[c] =>
         \E d \in Chips : OpticalGroup[d] <= OpticalGroup[c] /\ bestDAC[d] = 0

\* "Threshold Minimization tries masking individual pixels [...] but only if the
\* percentage of masked pixels is kept at or below MaxMaskedPixels"
\* (docs/innerTracker/calibrations/ThresholdMinimization.md:9): a threshold that
\* masks more is not the best one if the range has another.
MaskedWithinLimit ==
  pc = "done" /\ Is("ThrMinimization") =>
    \A c \in Chips :
      LET Within(reg) == \E m \in response[c][reg] :
                           m.masked * 100 <= settings.maxMasked * TotalPixels
      IN  bestDAC[c] # 0 /\ (\E reg \in Scanned(c) : Within(reg)) => Within(bestDAC[c])
=============================================================================
