--------------------------- MODULE DacScansProofs ---------------------------
(***************************************************************************)
(* The scans of DacScans stay in their range, find the nearest value and   *)
(* lose a value only behind a chip without one, for any chips, settings    *)
(* and responses.                                                          *)
(***************************************************************************)
EXTENDS DacScans, TLAPS

Range == settings.start .. settings.stop

\* A DAC value is tried only after it was computed from the interval.
RangeInv ==
  \A c \in Chips :
    /\ minDAC[c] \in Range /\ maxDAC[c] \in settings.start .. settings.stop + 1
    /\ (Local \/ pc = "measure" => midDAC[c] \in Range)
    /\ (pc = "measure" => chip[c] = Register(c, midDAC[c]))
    /\ (iteration > 0 => chip[c] \in Scanned(c))
    /\ (bestDAC[c] \in Scanned(c) \/ (~ Local /\ bestDAC[c] = 0))
    /\ (pc # "done" => regMap[c] = chip[c])

\* No value of the range below d or from e on is nearer than the best one.
Searched(c, d, e) ==
  \A x \in Range : x < d \/ e <= x => Distance(bestValue[c]) <= Distance(Reading(c, x).value)

\* The interval of a monotone chip halves and holds what is not searched.
NearestInv ==
  ~ Local =>
    /\ (pc \in {"download", "measure"} => iteration <= NumberOfBits)
    /\ \A c \in Chips : Monotone(c) =>
         /\ (pc = "measure" => midDAC[c] = Middle(minDAC[c], maxDAC[c]))
         /\ (pc \in {"download", "measure"} =>
               /\ minDAC[c] <= maxDAC[c]
               /\ maxDAC[c] - minDAC[c] <= PowersOf2[NumberOfBits - iteration + 1]
               /\ Searched(c, minDAC[c], maxDAC[c]))
         /\ (Finished => Searched(c, settings.stop + 1, settings.stop + 1))

IInv == /\ TypeOK /\ RangeInv /\ NearestInv /\ BestWasMeasured /\ LostOnlyBehindAFailure

\* The local scan bit by bit.  Its first value is the one the pixel had, which
\* need not halve the interval; but a minimum that was moved was measured, so
\* the values not searched are one less than the interval from then on.
Left == PowersOf2[IF iteration = 0 THEN NumberOfBits + 1 ELSE NumberOfBits - iteration + 2] - 1

Bisected(c) ==
  /\ minDAC[c] <= midDAC[c] /\ midDAC[c] <= maxDAC[c]
  /\ iteration > 0 => midDAC[c] = Middle(minDAC[c], maxDAC[c])
  /\ \E first \in minDAC[c] .. minDAC[c] + 1 :
       maxDAC[c] - first <= Left /\ Searched(c, first, maxDAC[c])

\* The local scan with DoNSteps: it walks to one side and has searched all that
\* it left behind, until it turns or meets an end and has searched everything.
Walked(c) ==
  \/ iteration = 0 /\ midDAC[c] = settings.original[c]
  \/ Searched(c, settings.stop + 1, settings.stop + 1)
  \/ midDAC[c] = settings.original[c] - iteration /\ Searched(c, settings.start, midDAC[c] + 1)
  \/ midDAC[c] = settings.original[c] + iteration /\ Searched(c, midDAC[c], settings.stop + 1)

LocalInv ==
  Local =>
    /\ IF Finished THEN iteration = LastIteration + 1 ELSE iteration <= LastIteration
    /\ \A c \in settings.enabled : Monotone(c) =>
         IF settings.steps = 0 THEN Bisected(c) ELSE Walked(c)

-----------------------------------------------------------------------------
(* Facts about the constants.                                              *)

\* The settings of the scan.
LEMMA SettingsFacts ==
  ASSUME settings \in Settings
  PROVE  /\ NChips \in Nat \ {0} /\ RegValues \in Nat \ {0} /\ MaxValue \in Nat
         /\ settings.scan \in ScanNames
         /\ settings.start \in Int /\ settings.stop \in Int
         /\ settings.start <= settings.stop /\ settings.stop - settings.start + 1 < 65536
         /\ ~ Is("ThrMinimization") => settings.start >= 0 /\ settings.stop + 1 < RegValues
         /\ Local => settings.start = 0 /\ \A c \in Chips : settings.original[c] <= settings.stop
         /\ settings.target \in 0 .. MaxValue /\ settings.steps \in Nat
         /\ settings.maxMasked \in Nat
         /\ settings.original \in [Chips -> Registers]
BY SettingsAssumption DEF Is, Local

\* The powers of 2.
LEMMA Powers ==
  /\ PowersOf2[1] = 1
  /\ \A k \in 1 .. 17 : PowersOf2[k] \in Nat
  /\ \A k \in 1 .. 16 : PowersOf2[k + 1] = 2 * PowersOf2[k]
<1>1. PowersOf2[1] = 1
  BY DEF PowersOf2
<1>2. ASSUME NEW k \in 1 .. 17 PROVE PowersOf2[k] \in Nat
  BY DEF PowersOf2
<1>3. ASSUME NEW k \in 1 .. 16 PROVE PowersOf2[k + 1] = 2 * PowersOf2[k]
  BY DEF PowersOf2
<1> QED
  BY <1>1, <1>2, <1>3

\* floor(log2(n) + 1) bits hold n.
LEMMA Bits ==
  ASSUME settings \in Settings
  PROVE  /\ NumberOfBits \in 1 .. 16
         /\ settings.stop - settings.start + 1 < PowersOf2[NumberOfBits + 1]
<1> DEFINE n == settings.stop - settings.start + 1
<1>1. n \in Nat /\ 1 <= n /\ n < 65536
  BY SettingsFacts
<1>2. \E b \in 1 .. 16 : PowersOf2[b] <= n /\ n < PowersOf2[b + 1]
  <2> HIDE DEF n
  <2>1. PowersOf2[1] = 1 /\ PowersOf2[17] = 65536
    BY DEF PowersOf2
  <2>2. SUFFICES ASSUME \A b \in 1 .. 16 : PowersOf2[b] <= n => PowersOf2[b + 1] <= n
                 PROVE  FALSE
    BY <1>1, Powers
  <2>3. PowersOf2[2] <= n /\ PowersOf2[3] <= n /\ PowersOf2[4] <= n /\ PowersOf2[5] <= n
    BY <1>1, <2>1, <2>2
  <2>4. PowersOf2[6] <= n /\ PowersOf2[7] <= n /\ PowersOf2[8] <= n /\ PowersOf2[9] <= n
    BY <2>2, <2>3
  <2>5. PowersOf2[10] <= n /\ PowersOf2[11] <= n /\ PowersOf2[12] <= n /\ PowersOf2[13] <= n
    BY <2>2, <2>4
  <2>6. PowersOf2[14] <= n /\ PowersOf2[15] <= n /\ PowersOf2[16] <= n /\ PowersOf2[17] <= n
    BY <2>2, <2>5
  <2> QED
    BY <1>1, <2>1, <2>6
<1> QED
  BY <1>2 DEF NumberOfBits

\* The middle of an interval.
LEMMA MiddleBetween ==
  ASSUME NEW low \in Int, NEW high \in Int
  PROVE  /\ Middle(low, high) \in Int
         /\ 2 * Middle(low, high) <= low + high /\ low + high <= 2 * Middle(low, high) + 1
BY DEF Middle

\* It is inside the interval.
LEMMA MiddleInside ==
  ASSUME NEW low \in Int, NEW high \in Int, low <= high
  PROVE  low <= Middle(low, high) /\ Middle(low, high) <= high
<1> DEFINE mid == Middle(low, high)
<1>1. mid \in Int /\ 2 * mid <= low + high /\ low + high <= 2 * mid + 1
  BY MiddleBetween
<1> HIDE DEF mid
<1>2. low <= mid /\ mid <= high
  BY <1>1
<1> QED
  BY <1>2 DEF mid

\* The middle of an interval that begins in the range and ends one behind it.
LEMMA MiddleInRange ==
  ASSUME settings.start \in Int, settings.stop \in Int, NEW low \in Range,
         NEW high \in settings.start .. settings.stop + 1
  PROVE  Middle(low, high) \in Range
<1>1. low \in Int /\ high \in Int
  BY DEF Range
<1> DEFINE mid == Middle(low, high)
<1>2. mid \in Int /\ 2 * mid <= low + high /\ low + high <= 2 * mid + 1
  BY <1>1, MiddleBetween
<1> HIDE DEF mid
<1>3. mid \in Range
  BY <1>2 DEF Range
<1> QED
  BY <1>3 DEF mid

\* A register value of the scan is a register value.
LEMMA RegisterIsRegister ==
  ASSUME settings \in Settings, NEW c \in Chips, NEW d \in Range
  PROVE  Register(c, d) \in Registers /\ Register(c, d) \in Scanned(c)
<1>1. CASE Is("ThrMinimization")
  <2>1. settings.original[c] \in Int /\ d \in Int /\ RegValues \in Nat \ {0}
    BY SettingsFacts DEF Registers, Range
  <2>2. (settings.original[c] + d) % RegValues \in 0 .. RegValues - 1
    BY <2>1
  <2> QED
    BY <1>1, <2>2 DEF Register, Registers, Scanned, Range
<1>2. CASE ~ Is("ThrMinimization")
  <2>1. d \in 0 .. RegValues - 1
    BY <1>2, SettingsFacts DEF Range
  <2> QED
    BY <1>2, <2>1 DEF Register, Registers, Scanned, Range
<1> QED
  BY <1>1, <1>2

\* Without the check everything is packed and sent.
LEMMA EverythingSent ==
  \A values : Packed(values, FALSE) = Chips /\ Sent(values, FALSE) = Chips
BY DEF Packed, Sent

\* A chip that is sent was packed, and a packed one of the check has a value.
LEMMA SentHasValue ==
  ASSUME NEW values, NEW check \in BOOLEAN, NEW c \in Chips
  PROVE  /\ c \in Sent(values, check) => c \in Packed(values, check)
         /\ c \in Packed(values, check) /\ check => values[c] # 0
BY SettingsAssumption DEF Packed, Sent, Chips

\* The reading of a monotone chip.
LEMMA ReadingOfMonotone ==
  ASSUME settings \in Settings, NEW c \in Chips, Monotone(c), NEW d \in Range
  PROVE  /\ Reading(c, d) \in Measurements /\ Reading(c, d).value \in Nat
         /\ response[c][Register(c, d)] = {Reading(c, d)}
         /\ Is("ThrMinimization") => MaskedPercent(Reading(c, d)) < settings.maxMasked
<1>1. PICK m \in Measurements :
        /\ response[c][Register(c, d)] = {m}
        /\ Is("ThrMinimization") => MaskedPercent(m) < settings.maxMasked
  BY DEF Monotone, Range
<1>2. Reading(c, d) = m
  BY <1>1 DEF Reading
<1>3. m.value \in Nat
  BY SettingsFacts DEF Measurements
<1> QED
  BY <1>1, <1>2, <1>3

\* Distances are numbers.
LEMMA DistanceIsNat ==
  ASSUME settings \in Settings, NEW v \in Nat
  PROVE  Distance(v) \in Nat
BY SettingsFacts DEF Distance

\* On a monotone chip the values below one that is not beyond the target, and
\* the values above one that is, are farther from the target.
LEMMA FartherAway ==
  ASSUME settings \in Settings, NEW c \in Chips, Monotone(c),
         NEW d \in Range, NEW e \in Range, d <= e
  PROVE  /\ ~ Beyond(Reading(c, e)) =>
              Distance(Reading(c, e).value) <= Distance(Reading(c, d).value)
         /\ Beyond(Reading(c, d)) =>
              Distance(Reading(c, d).value) <= Distance(Reading(c, e).value)
<1> DEFINE v == Reading(c, d).value
           w == Reading(c, e).value
<1>1. v \in Nat /\ w \in Nat /\ settings.target \in Nat
  BY ReadingOfMonotone, SettingsFacts
<1>2. IF Is("ThrEqualization") \/ Local THEN v <= w ELSE w <= v
  BY DEF Monotone, Range
<1>3. CASE Is("ThrEqualization")
  <2>1. Beyond(Reading(c, d)) <=> v > settings.target
    BY <1>3 DEF Beyond, Is, Local
  <2>2. Beyond(Reading(c, e)) <=> w > settings.target
    BY <1>3 DEF Beyond, Is, Local
  <2> HIDE DEF v, w
  <2>3. /\ ~ (w > settings.target) => Distance(w) <= Distance(v)
        /\ v > settings.target => Distance(v) <= Distance(w)
    BY <1>1, <1>2, <1>3 DEF Distance
  <2> QED
    BY <2>1, <2>2, <2>3 DEF v, w
<1>4. CASE Local
  <2>1. Beyond(Reading(c, d)) <=> v >= settings.target
    BY <1>4 DEF Beyond, Is, Local
  <2>2. Beyond(Reading(c, e)) <=> w >= settings.target
    BY <1>4 DEF Beyond, Is, Local
  <2> HIDE DEF v, w
  <2>3. /\ ~ (w >= settings.target) => Distance(w) <= Distance(v)
        /\ v >= settings.target => Distance(v) <= Distance(w)
    BY <1>1, <1>2, <1>4 DEF Distance
  <2> QED
    BY <2>1, <2>2, <2>3 DEF v, w
<1>5. CASE ~ Is("ThrEqualization") /\ ~ Local
  <2>1. Beyond(Reading(c, d)) <=> v < settings.target
    BY <1>5, SettingsFacts, ReadingOfMonotone DEF Beyond, Is, Local, ScanNames
  <2>2. Beyond(Reading(c, e)) <=> w < settings.target
    BY <1>5, SettingsFacts, ReadingOfMonotone DEF Beyond, Is, Local, ScanNames
  <2> HIDE DEF v, w
  <2>3. /\ ~ (w < settings.target) => Distance(w) <= Distance(v)
        /\ v < settings.target => Distance(v) <= Distance(w)
    BY <1>1, <1>2, <1>5 DEF Distance
  <2> QED
    BY <2>1, <2>2, <2>3 DEF v, w
<1> QED
  BY <1>3, <1>4, <1>5

-----------------------------------------------------------------------------
(* The invariant holds initially.                                          *)

\* The scan starts with values of their types,
LEMMA InitTypeOK == Init => TypeOK
<1> SUFFICES ASSUME Init PROVE TypeOK
  OBVIOUS
<1>1. settings \in Settings /\ response \in [Chips -> [Registers -> (SUBSET Measurements) \ {{}}]]
  BY SettingsAssumption DEF Init
<1>2. settings.original \in [Chips -> Registers] /\ settings.start \in Int /\ settings.stop \in Int
      /\ MaxValue \in Nat /\ 0 \in Registers /\ Registers \subseteq Int
  BY <1>1, SettingsFacts DEF Registers
<1>3. minDAC \in [Chips -> Int] /\ maxDAC \in [Chips -> Int] /\ midDAC \in [Chips -> Int]
  BY <1>2 DEF Init
<1>4. bestDAC \in [Chips -> Registers] /\ regMap \in [Chips -> Registers]
      /\ chip \in [Chips -> Registers]
  BY <1>2 DEF Init
<1>5. bestValue \in [Chips -> 0 .. MaxValue]
  BY <1>2 DEF Init
<1> QED
  BY <1>1, <1>3, <1>4, <1>5 DEF Init, TypeOK

\* with every chip in the range of the scan,
LEMMA InitRange == Init => RangeInv
<1> SUFFICES ASSUME Init, NEW c \in Chips
             PROVE  /\ minDAC[c] \in Range /\ maxDAC[c] \in settings.start .. settings.stop + 1
                    /\ (Local => midDAC[c] \in Range)
                    /\ (bestDAC[c] \in Scanned(c) \/ (~ Local /\ bestDAC[c] = 0))
                    /\ regMap[c] = chip[c]
  BY DEF Init, RangeInv
<1>1. settings \in Settings
  BY DEF Init
<1>2. minDAC[c] \in Range /\ maxDAC[c] \in settings.start .. settings.stop + 1
  BY <1>1, SettingsFacts DEF Init, Range
<1>3. Local => settings.original[c] \in Range
  BY <1>1, SettingsFacts DEF Range, Registers
<1>4. Local => midDAC[c] \in Range /\ bestDAC[c] \in Scanned(c)
  BY <1>3, SettingsFacts DEF Init, Scanned, Range, Register, Local, Is
<1>5. ~ Local => bestDAC[c] = 0
  BY DEF Init
<1> QED
  BY <1>2, <1>4, <1>5 DEF Init

\* with the whole range still to be searched,
LEMMA InitNearest == Init => NearestInv
<1> SUFFICES ASSUME Init, ~ Local
             PROVE  /\ iteration <= NumberOfBits
                    /\ \A c \in Chips :
                         /\ minDAC[c] <= maxDAC[c]
                         /\ maxDAC[c] - minDAC[c] <= PowersOf2[NumberOfBits - iteration + 1]
                         /\ Searched(c, minDAC[c], maxDAC[c])
  <2>1. Init => pc = "download"
    BY DEF Init
  <2> QED
    BY <2>1 DEF NearestInv, Finished
<1>0. SUFFICES ASSUME NEW c \in Chips
               PROVE  /\ iteration <= NumberOfBits
                      /\ minDAC[c] <= maxDAC[c]
                      /\ maxDAC[c] - minDAC[c] <= PowersOf2[NumberOfBits - iteration + 1]
                      /\ Searched(c, minDAC[c], maxDAC[c])
  BY SettingsAssumption DEF Chips
<1>1. settings \in Settings /\ iteration = 0
      /\ minDAC[c] = settings.start /\ maxDAC[c] = settings.stop + 1
  BY DEF Init
<1>2. settings.start \in Int /\ settings.stop \in Int /\ settings.start <= settings.stop
  BY <1>1, SettingsFacts
<1>3. NumberOfBits \in 1 .. 16 /\ settings.stop - settings.start + 1 < PowersOf2[NumberOfBits + 1]
      /\ PowersOf2[NumberOfBits + 1] \in Nat
  BY <1>1, Bits, Powers
<1>4. NumberOfBits - iteration + 1 = NumberOfBits + 1
  BY <1>1, <1>3
<1>5. Searched(c, minDAC[c], maxDAC[c])
  BY <1>1, <1>2 DEF Searched, Range
<1>6. maxDAC[c] - minDAC[c] <= PowersOf2[NumberOfBits + 1]
  BY <1>1, <1>2, <1>3
<1> QED
  BY <1>1, <1>2, <1>3, <1>4, <1>5, <1>6

\* and so with the invariant.
LEMMA InitInv == Init => IInv
<1>1. Init => BestWasMeasured
  BY DEF Init, BestWasMeasured
<1>2. Init => LostOnlyBehindAFailure
  BY DEF Init, LostOnlyBehindAFailure
<1> QED
  BY <1>1, <1>2, InitTypeOK, InitRange, InitNearest DEF IInv

-----------------------------------------------------------------------------
(* What the settings and responses determine does not change.              *)

\* No step changes the settings or what the chips answer.
LEMMA NextKeepsSettings ==
  ASSUME [Next]_vars
  PROVE  settings' = settings /\ response' = response
BY DEF Next, vars, DownloadMiddle, Measure, DownloadBest

\* Nor, therefore, what is computed from them.
LEMMA SameOperators ==
  ASSUME settings' = settings, response' = response
  PROVE  /\ Range' = Range /\ Local' = Local /\ NumberOfBits' = NumberOfBits
         /\ \A c \in Chips : Scanned(c)' = Scanned(c)
         /\ \A c \in Chips : Monotone(c)' = Monotone(c)
         /\ \A c \in Chips, d \in Int : Reading(c, d)' = Reading(c, d)
         /\ \A c \in Chips, d \in Int : Register(c, d)' = Register(c, d)
         /\ \A v \in Int : Distance(v)' = Distance(v)
<1>1. Range' = Range /\ Local' = Local /\ NumberOfBits' = NumberOfBits
  BY DEF Range, Local, Is, NumberOfBits
<1>2. \A c \in Chips : Scanned(c)' = Scanned(c)
  BY DEF Scanned, Register, Is
<1>3. \A c \in Chips : Monotone(c)' = Monotone(c)
  BY DEF Monotone, Register, Is, Local, Reading, MaskedPercent
<1>4. \A c \in Chips, d \in Int : Reading(c, d)' = Reading(c, d)
  BY DEF Reading, Register, Is
<1>5. \A c \in Chips, d \in Int : Register(c, d)' = Register(c, d)
  BY DEF Register, Is
<1>6. \A v \in Int : Distance(v)' = Distance(v)
  BY DEF Distance
<1> QED
  BY <1>1, <1>2, <1>3, <1>4, <1>5, <1>6

-----------------------------------------------------------------------------
(* Downloading the middles.                                                *)

\* What downloading the middle values does.
LEMMA DownloadMiddleEffect ==
  ASSUME IInv, DownloadMiddle
  PROVE  /\ midDAC' \in [Chips -> Int]
         /\ \A c \in Chips : midDAC'[c] \in Range
         /\ ~ Local => \A c \in Chips : midDAC'[c] = Middle(minDAC[c], maxDAC[c])
         /\ regMap' = [c \in Chips |-> Register(c, midDAC'[c])]
         /\ chip' = [c \in Chips |-> Register(c, midDAC'[c])]
<1>1. /\ minDAC \in [Chips -> Int] /\ maxDAC \in [Chips -> Int] /\ midDAC \in [Chips -> Int]
      /\ settings \in Settings
  BY DEF IInv, TypeOK
<1>2. settings.start \in Int /\ settings.stop \in Int
  BY <1>1, SettingsFacts
<1>3. midDAC' = IF Local THEN midDAC ELSE [c \in Chips |-> Middle(minDAC[c], maxDAC[c])]
  BY DEF DownloadMiddle
<1>4. ASSUME NEW c \in Chips PROVE midDAC'[c] \in Range
  <2>1. CASE Local
    BY <1>3, <2>1 DEF IInv, RangeInv
  <2>2. CASE ~ Local
    <3>1. midDAC'[c] = Middle(minDAC[c], maxDAC[c])
      BY <1>3, <2>2
    <3>2. minDAC[c] \in Range /\ maxDAC[c] \in settings.start .. settings.stop + 1
      BY DEF IInv, RangeInv
    <3> QED
      BY <1>2, <3>1, <3>2, MiddleInRange
  <2> QED
    BY <2>1, <2>2
<1>5. midDAC' \in [Chips -> Int]
  <2>1. \A c \in Chips : Middle(minDAC[c], maxDAC[c]) \in Int
    BY <1>1, MiddleBetween
  <2> QED
    BY <1>1, <1>3, <2>1
<1>6. regMap' = [c \in Chips |-> Register(c, midDAC'[c])]
      /\ chip' = [c \in Chips |-> Register(c, midDAC'[c])]
  <2> DEFINE values == [c \in Chips |-> Register(c, midDAC'[c])]
  <2>1. DownloadNewDACvalues(values, FALSE)
    BY DEF DownloadMiddle
  <2>2. Packed(values, FALSE) = Chips /\ Sent(values, FALSE) = Chips
    BY EverythingSent
  <2>3. \A c \in Chips : values[c] = Register(c, midDAC'[c])
    OBVIOUS
  <2> HIDE DEF values
  <2>4. /\ regMap' = [c \in Chips |-> values[c]]
        /\ chip' = [c \in Chips |-> values[c]]
    BY <2>1, <2>2 DEF DownloadNewDACvalues
  <2> QED
    BY <2>3, <2>4
<1> QED
  BY <1>3, <1>4, <1>5, <1>6

\* Downloading the middle values keeps the invariant.
LEMMA DownloadMiddleKeeps ==
  ASSUME IInv, DownloadMiddle
  PROVE  IInv'
<1>1. /\ midDAC' \in [Chips -> Int]
      /\ \A c \in Chips : midDAC'[c] \in Range
      /\ ~ Local => \A c \in Chips : midDAC'[c] = Middle(minDAC[c], maxDAC[c])
      /\ regMap' = [c \in Chips |-> Register(c, midDAC'[c])]
      /\ chip' = [c \in Chips |-> Register(c, midDAC'[c])]
  BY DownloadMiddleEffect
<1>2. /\ pc = "download" /\ pc' = "measure" /\ settings' = settings /\ response' = response
      /\ iteration' = iteration /\ minDAC' = minDAC /\ maxDAC' = maxDAC
      /\ bestValue' = bestValue /\ bestDAC' = bestDAC
  BY DEF DownloadMiddle
<1>3. /\ Range' = Range /\ Local' = Local /\ NumberOfBits' = NumberOfBits
      /\ \A c \in Chips : Scanned(c)' = Scanned(c)
      /\ \A c \in Chips : Monotone(c)' = Monotone(c)
  BY <1>2, SameOperators
<1>4. \A c \in Chips : Register(c, midDAC'[c]) \in Registers /\ Register(c, midDAC'[c]) \in Scanned(c)
  BY <1>1, RegisterIsRegister DEF IInv, TypeOK
<1>5. TypeOK'
  BY <1>1, <1>2, <1>4 DEF IInv, TypeOK
<1>6. RangeInv'
  <2>1. ASSUME NEW c \in Chips PROVE chip'[c] = Register(c, midDAC[c])'
    BY <1>1, <1>2 DEF Register, Is
  <2> QED
    BY <1>1, <1>2, <1>3, <1>4, <2>1 DEF IInv, RangeInv
<1>7. NearestInv'
  <2>1. \A c \in Chips : Searched(c, minDAC[c], maxDAC[c])' = Searched(c, minDAC[c], maxDAC[c])
    BY <1>2 DEF Searched, Distance, Reading, Register, Is, Range
  <2>2. \A c \in Chips : Middle(minDAC[c], maxDAC[c])' = Middle(minDAC[c], maxDAC[c])
    BY <1>2 DEF Middle
  <2> QED
    BY <1>1, <1>2, <1>3, <2>1, <2>2 DEF IInv, NearestInv, Finished
<1>8. BestWasMeasured'
  BY <1>2 DEF IInv, BestWasMeasured, Local, Is
<1>9. LostOnlyBehindAFailure'
  BY <1>2 DEF LostOnlyBehindAFailure
<1> QED
  BY <1>5, <1>6, <1>7, <1>8, <1>9 DEF IInv

-----------------------------------------------------------------------------
(* Measuring.                                                              *)

\* What the measurement m of chip c does to its scan.
Step(c, m) ==
  /\ m \in Measurements /\ m \in response[c][chip[c]]
  /\ bestValue'[c] = IF Measured(c) /\ Better(m.value, bestValue[c]) THEN m.value ELSE bestValue[c]
  /\ bestDAC'[c] = IF Measured(c) /\ Better(m.value, bestValue[c])
                   THEN Register(c, midDAC[c]) ELSE bestDAC[c]
  /\ maxDAC'[c] = IF Measured(c) /\ Beyond(m) THEN midDAC[c] ELSE maxDAC[c]
  /\ minDAC'[c] = IF Measured(c) /\ ~ Beyond(m) THEN midDAC[c] ELSE minDAC[c]
  /\ midDAC'[c] = NextMiddle(c, m, minDAC'[c], maxDAC'[c])

\* What a measurement does: each chip takes one step of its search.
LEMMA MeasureEffect ==
  ASSUME IInv, Measure
  PROVE  /\ \A c \in Chips : \E m : Step(c, m)
         /\ bestValue' = [c \in Chips |-> bestValue'[c]]
         /\ bestDAC' = [c \in Chips |-> bestDAC'[c]]
         /\ minDAC' = [c \in Chips |-> minDAC'[c]]
         /\ maxDAC' = [c \in Chips |-> maxDAC'[c]]
         /\ midDAC' = [c \in Chips |-> midDAC'[c]]
<1>1. PICK m \in [Chips -> UNION {response[c][chip[c]] : c \in Chips}] :
        /\ \A c \in Chips : m[c] \in response[c][chip[c]]
        /\ bestValue' = [c \in Chips |->
             IF c \in {d \in Chips : Measured(d) /\ Better(m[d].value, bestValue[d])}
             THEN m[c].value ELSE bestValue[c]]
        /\ bestDAC' = [c \in Chips |->
             IF c \in {d \in Chips : Measured(d) /\ Better(m[d].value, bestValue[d])}
             THEN Register(c, midDAC[c]) ELSE bestDAC[c]]
        /\ maxDAC' = [c \in Chips |->
             IF Measured(c) /\ c \in {d \in Chips : Beyond(m[d])} THEN midDAC[c] ELSE maxDAC[c]]
        /\ minDAC' = [c \in Chips |->
             IF Measured(c) /\ c \notin {d \in Chips : Beyond(m[d])} THEN midDAC[c] ELSE minDAC[c]]
        /\ midDAC' = [c \in Chips |-> NextMiddle(c, m[c], minDAC'[c], maxDAC'[c])]
  BY DEF Measure
<1>2. ASSUME NEW c \in Chips PROVE Step(c, m[c])
  <2>1. m[c] \in response[c][chip[c]]
    BY <1>1
  <2>2. response[c][chip[c]] \subseteq Measurements
    BY DEF IInv, TypeOK
  <2> QED
    BY <1>1, <2>1, <2>2 DEF Step
<1> QED
  BY <1>1, <1>2

\* The interval and the middle stay in the range.
LEMMA StepInRange ==
  ASSUME IInv, Measure, NEW c \in Chips, NEW m, Step(c, m)
  PROVE  /\ minDAC'[c] \in Range /\ maxDAC'[c] \in settings.start .. settings.stop + 1
         /\ midDAC'[c] \in Range
<1>1. /\ settings \in Settings /\ pc = "measure"
      /\ settings.start \in Int /\ settings.stop \in Int
      /\ Local => settings.start = 0
  BY SettingsFacts DEF IInv, TypeOK, Measure
<1>2. /\ minDAC[c] \in Range /\ maxDAC[c] \in settings.start .. settings.stop + 1
      /\ midDAC[c] \in Range
  BY <1>1 DEF IInv, RangeInv
<1>3. minDAC'[c] \in Range /\ maxDAC'[c] \in settings.start .. settings.stop + 1
  BY <1>1, <1>2 DEF Step, Range
<1>4. midDAC'[c] \in Range
  <2>1. midDAC'[c] = NextMiddle(c, m, minDAC'[c], maxDAC'[c])
    BY DEF Step
  <2>2. CASE ~ Local \/ ~ Measured(c)
    BY <1>2, <2>1, <2>2 DEF NextMiddle
  <2>3. CASE Local /\ Measured(c) /\ settings.steps = 0
    <3>1. NextMiddle(c, m, minDAC'[c], maxDAC'[c]) = Middle(minDAC'[c], maxDAC'[c])
      BY <2>3 DEF NextMiddle
    <3> QED
      BY <1>1, <1>3, <2>1, <3>1, MiddleInRange
  <2>4. CASE Local /\ Measured(c) /\ settings.steps # 0
    <3>1. NextMiddle(c, m, minDAC'[c], maxDAC'[c]) =
            IF Beyond(m) THEN IF midDAC[c] = 0 THEN 0 ELSE midDAC[c] - 1
            ELSE IF midDAC[c] = settings.stop THEN settings.stop ELSE midDAC[c] + 1
      BY <2>4 DEF NextMiddle
    <3> QED
      BY <1>1, <1>2, <2>1, <2>4, <3>1 DEF Range
  <2> QED
    BY <2>2, <2>3, <2>4
<1> QED
  BY <1>3, <1>4

\* What the measurement of a monotone chip says of the values of its range.
LEMMA StepSearches ==
  ASSUME IInv, Measure, NEW c \in Chips, Measured(c), Monotone(c), NEW m, Step(c, m)
  PROVE  \A x \in Range :
           \/ Distance(bestValue[c]) <= Distance(Reading(c, x).value)
           \/ Beyond(m) /\ midDAC[c] <= x
           \/ ~ Beyond(m) /\ x <= midDAC[c]
           => Distance(bestValue'[c]) <= Distance(Reading(c, x).value)
<1>1. settings \in Settings /\ pc = "measure"
  BY DEF IInv, TypeOK, Measure
<1>2. midDAC[c] \in Range /\ chip[c] = Register(c, midDAC[c])
  BY <1>1 DEF IInv, RangeInv
<1>3. m = Reading(c, midDAC[c]) /\ m.value \in Nat
  <2>1. response[c][Register(c, midDAC[c])] = {Reading(c, midDAC[c])}
        /\ Reading(c, midDAC[c]).value \in Nat
    BY <1>1, <1>2, ReadingOfMonotone
  <2> QED
    BY <1>2, <2>1 DEF Step
<1>4. bestValue[c] \in Nat /\ bestValue'[c] \in Nat
  <2>1. bestValue[c] \in 0 .. MaxValue /\ MaxValue \in Nat
    BY <1>1, SettingsFacts DEF IInv, TypeOK
  <2> QED
    BY <1>3, <2>1 DEF Step
<1>5. /\ Distance(bestValue'[c]) <= Distance(bestValue[c])
      /\ Distance(bestValue'[c]) <= Distance(m.value)
      /\ Distance(bestValue'[c]) \in Nat /\ Distance(bestValue[c]) \in Nat
      /\ Distance(m.value) \in Nat
  <2>1. /\ Distance(bestValue'[c]) \in Nat /\ Distance(bestValue[c]) \in Nat
        /\ Distance(m.value) \in Nat
    BY <1>1, <1>3, <1>4, DistanceIsNat
  <2>2. bestValue'[c] = IF Better(m.value, bestValue[c]) THEN m.value ELSE bestValue[c]
    BY DEF Step
  <2>3. /\ Better(m.value, bestValue[c]) => Distance(m.value) <= Distance(bestValue[c])
        /\ ~ Better(m.value, bestValue[c]) => Distance(bestValue[c]) <= Distance(m.value)
    BY <2>1 DEF Better
  <2> QED
    BY <2>1, <2>2, <2>3
<1>6. SUFFICES ASSUME NEW x \in Range,
                      \/ Distance(bestValue[c]) <= Distance(Reading(c, x).value)
                      \/ Beyond(m) /\ midDAC[c] <= x
                      \/ ~ Beyond(m) /\ x <= midDAC[c]
               PROVE  Distance(bestValue'[c]) <= Distance(Reading(c, x).value)
  OBVIOUS
<1>7. Distance(Reading(c, x).value) \in Nat
  BY <1>1, ReadingOfMonotone, DistanceIsNat
<1>8. CASE Distance(bestValue[c]) <= Distance(Reading(c, x).value)
  BY <1>5, <1>7, <1>8
<1>9. CASE (Beyond(m) /\ midDAC[c] <= x) \/ (~ Beyond(m) /\ x <= midDAC[c])
  <2>1. Distance(m.value) <= Distance(Reading(c, x).value)
    BY <1>1, <1>2, <1>3, <1>9, FartherAway
  <2> QED
    BY <1>5, <1>7, <2>1
<1> QED
  BY <1>6, <1>8, <1>9

\* What is known after the step of a monotone chip of a global scan.
LEMMA StepNearer ==
  ASSUME IInv, Measure, ~ Local, NEW c \in Chips, Monotone(c), NEW m, Step(c, m)
  PROVE  /\ minDAC'[c] <= maxDAC'[c]
         /\ \A x \in Range :
              x < minDAC'[c] \/ maxDAC'[c] <= x \/ (~ Beyond(m) /\ x = midDAC[c]) =>
                Distance(bestValue'[c]) <= Distance(Reading(c, x).value)
         /\ IF Beyond(m) THEN maxDAC'[c] = midDAC[c] /\ minDAC'[c] = minDAC[c]
                         ELSE minDAC'[c] = midDAC[c] /\ maxDAC'[c] = maxDAC[c]
<1>1. /\ settings \in Settings /\ pc = "measure"
      /\ settings.start \in Int /\ settings.stop \in Int
  BY SettingsFacts DEF IInv, TypeOK, Measure
<1>2. minDAC[c] \in Int /\ maxDAC[c] \in Int /\ midDAC[c] \in Range
  BY <1>1 DEF IInv, RangeInv, Range
<1>3. /\ minDAC[c] <= maxDAC[c] /\ midDAC[c] = Middle(minDAC[c], maxDAC[c])
      /\ Searched(c, minDAC[c], maxDAC[c])
  BY <1>1 DEF IInv, NearestInv
<1>4. minDAC[c] <= midDAC[c] /\ midDAC[c] <= maxDAC[c]
  BY <1>2, <1>3, MiddleInside
<1>5. IF Beyond(m) THEN maxDAC'[c] = midDAC[c] /\ minDAC'[c] = minDAC[c]
                   ELSE minDAC'[c] = midDAC[c] /\ maxDAC'[c] = maxDAC[c]
  BY DEF Step, Measured
<1>6. minDAC'[c] <= maxDAC'[c]
  BY <1>4, <1>5
<1>7. ASSUME NEW x \in Range,
             x < minDAC'[c] \/ maxDAC'[c] <= x \/ (~ Beyond(m) /\ x = midDAC[c])
      PROVE  Distance(bestValue'[c]) <= Distance(Reading(c, x).value)
  <2>1. x \in Int /\ midDAC[c] \in Int
    BY <1>1, <1>2 DEF Range
  <2>2. \/ x < minDAC[c] \/ maxDAC[c] <= x
        \/ Beyond(m) /\ midDAC[c] <= x
        \/ ~ Beyond(m) /\ x <= midDAC[c]
    BY <1>5, <1>7, <2>1
  <2> QED
    BY <1>3, <2>2, StepSearches DEF Searched, Measured
<1> QED
  BY <1>5, <1>6, <1>7

\* The interval halves; after the last step nothing is left of it.
LEMMA StepHalves ==
  ASSUME IInv, Measure, ~ Local, NEW c \in Chips, Monotone(c), NEW m, Step(c, m)
  PROVE  /\ iteration \in Nat /\ iteration <= NumberOfBits /\ NumberOfBits \in 1 .. 16
         /\ iteration < NumberOfBits =>
              maxDAC'[c] - minDAC'[c] <= PowersOf2[NumberOfBits - (iteration + 1) + 1]
         /\ iteration = NumberOfBits =>
              \A x \in Range : Distance(bestValue'[c]) <= Distance(Reading(c, x).value)
<1> DEFINE low == minDAC[c]
           high == maxDAC[c]
           mid == midDAC[c]
           k == NumberOfBits - iteration
<1>1. settings \in Settings /\ pc = "measure" /\ iteration \in Nat
      /\ settings.start \in Int /\ settings.stop \in Int
  BY SettingsFacts DEF IInv, TypeOK, Measure
<1>2. NumberOfBits \in 1 .. 16
  BY <1>1, Bits
<1>3. /\ iteration <= NumberOfBits /\ low <= high /\ mid = Middle(low, high)
      /\ high - low <= PowersOf2[NumberOfBits - iteration + 1]
  BY <1>1 DEF IInv, NearestInv
<1>4. low \in Int /\ high \in Int
  BY <1>1 DEF IInv, RangeInv, Range
<1>5. k \in 0 .. 16 /\ NumberOfBits - iteration + 1 = k + 1 /\ NumberOfBits - (iteration + 1) + 1 = k
  BY <1>1, <1>2, <1>3
<1>6. mid \in Int /\ 2 * mid <= low + high /\ low + high <= 2 * mid + 1
  BY <1>3, <1>4, MiddleBetween
<1>7. IF Beyond(m) THEN maxDAC'[c] = mid /\ minDAC'[c] = low
                   ELSE minDAC'[c] = mid /\ maxDAC'[c] = high
  BY StepNearer
<1>8. ASSUME iteration < NumberOfBits
      PROVE  maxDAC'[c] - minDAC'[c] <= PowersOf2[k]
  <2>1. k \in 1 .. 16
    BY <1>1, <1>2, <1>5, <1>8
  <2>2. PowersOf2[k + 1] = 2 * PowersOf2[k] /\ PowersOf2[k] \in Nat
    BY <2>1, Powers
  <2>3. high - low <= 2 * PowersOf2[k]
    BY <1>3, <1>5, <2>2
  <2> HIDE DEF low, high, mid, k
  <2>4. mid - low <= PowersOf2[k] /\ high - mid <= PowersOf2[k]
    BY <1>4, <1>6, <2>2, <2>3
  <2> QED
    BY <1>7, <2>4
<1>9. ASSUME iteration = NumberOfBits, NEW x \in Range
      PROVE  Distance(bestValue'[c]) <= Distance(Reading(c, x).value)
  <2>1. k + 1 = 1
    BY <1>2, <1>9
  <2>2. high - low <= 1
    BY <1>3, <1>5, <2>1, Powers
  <2>3. x \in Int
    BY <1>1 DEF Range
  <2>4. mid = low
    <3> HIDE DEF low, high, mid
    <3> QED
      BY <1>3, <1>4, <1>6, <2>2
  <2>5. x < minDAC'[c] \/ maxDAC'[c] <= x \/ (~ Beyond(m) /\ x = mid)
    <3> HIDE DEF low, high, mid
    <3> QED
      BY <1>4, <1>6, <1>7, <2>2, <2>3, <2>4
  <2> QED
    BY <2>5, StepNearer
<1> QED
  BY <1>1, <1>2, <1>3, <1>5, <1>8, <1>9

\* A measurement keeps the invariant.
LEMMA MeasureKeeps ==
  ASSUME IInv, Measure
  PROVE  IInv'
<1>1. /\ pc = "measure" /\ settings' = settings /\ response' = response
      /\ iteration' = iteration + 1 /\ regMap' = regMap /\ chip' = chip
      /\ pc' = IF iteration = LastIteration THEN "best" ELSE "download"
      /\ settings \in Settings /\ iteration \in Nat
  BY DEF Measure, IInv, TypeOK
<1>2. /\ Range' = Range /\ Local' = Local /\ NumberOfBits' = NumberOfBits
      /\ \A c \in Chips : Scanned(c)' = Scanned(c)
      /\ \A c \in Chips : Monotone(c)' = Monotone(c)
  BY <1>1, SameOperators
<1>3. \A c \in Chips : \E m : Step(c, m)
  BY MeasureEffect
<1>4. ASSUME NEW c \in Chips
      PROVE  /\ minDAC'[c] \in Range /\ maxDAC'[c] \in settings.start .. settings.stop + 1
             /\ midDAC'[c] \in Range
             /\ chip[c] \in Scanned(c) /\ regMap[c] = chip[c]
             /\ bestDAC'[c] \in Registers
             /\ bestDAC'[c] \in Scanned(c) \/ (~ Local /\ bestDAC'[c] = 0)
             /\ bestValue'[c] \in 0 .. MaxValue
  <2>1. PICK m : Step(c, m)
    BY <1>3
  <2>2. /\ minDAC'[c] \in Range /\ maxDAC'[c] \in settings.start .. settings.stop + 1
        /\ midDAC'[c] \in Range
    BY <2>1, StepInRange
  <2>3. midDAC[c] \in Range /\ chip[c] = Register(c, midDAC[c]) /\ regMap[c] = chip[c]
    BY <1>1 DEF IInv, RangeInv
  <2>4. chip[c] \in Scanned(c) /\ Register(c, midDAC[c]) \in Scanned(c)
        /\ Register(c, midDAC[c]) \in Registers
    BY <1>1, <2>3, RegisterIsRegister
  <2>5. bestDAC[c] \in Registers
    BY DEF IInv, TypeOK
  <2>6. bestDAC[c] \in Scanned(c) \/ (~ Local /\ bestDAC[c] = 0)
    BY DEF IInv, RangeInv
  <2>7. bestDAC'[c] = Register(c, midDAC[c]) \/ bestDAC'[c] = bestDAC[c]
    BY <2>1 DEF Step
  <2>8. bestValue'[c] \in 0 .. MaxValue
    <3>1. m.value \in 0 .. MaxValue
      BY <2>1 DEF Step, Measurements
    <3>2. bestValue[c] \in 0 .. MaxValue
      BY DEF IInv, TypeOK
    <3>3. bestValue'[c] = m.value \/ bestValue'[c] = bestValue[c]
      BY <2>1 DEF Step
    <3> QED
      BY <3>1, <3>2, <3>3
  <2> QED
    BY <2>2, <2>3, <2>4, <2>5, <2>6, <2>7, <2>8
<1>5. TypeOK'
  <2>1. Range \subseteq Int /\ settings.start .. settings.stop + 1 \subseteq Int
    BY <1>1, SettingsFacts DEF Range
  <2>2. minDAC' \in [Chips -> Int] /\ maxDAC' \in [Chips -> Int] /\ midDAC' \in [Chips -> Int]
    BY <1>4, <2>1, MeasureEffect
  <2>3. bestValue' \in [Chips -> 0 .. MaxValue] /\ bestDAC' \in [Chips -> Registers]
    BY <1>4, MeasureEffect
  <2> QED
    BY <1>1, <2>2, <2>3 DEF IInv, TypeOK
<1>6. RangeInv'
  BY <1>1, <1>2, <1>4 DEF RangeInv
<1>7. NearestInv'
  <2> SUFFICES ASSUME ~ Local
               PROVE  /\ pc' = "download" => iteration' <= NumberOfBits
                      /\ \A c \in Chips : Monotone(c) =>
                           /\ pc' = "download" =>
                                /\ minDAC'[c] <= maxDAC'[c]
                                /\ maxDAC'[c] - minDAC'[c] <= PowersOf2[NumberOfBits - iteration' + 1]
                                /\ Searched(c, minDAC[c], maxDAC[c])'
                           /\ pc' = "best" => Searched(c, settings.stop + 1, settings.stop + 1)'
    BY <1>1, <1>2 DEF NearestInv, Finished
  <2>1. LastIteration = NumberOfBits /\ iteration <= NumberOfBits /\ NumberOfBits \in 1 .. 16
    BY <1>1, Bits DEF LastIteration, IInv, NearestInv
  <2>2. pc' = "download" => iteration < NumberOfBits
    BY <1>1, <2>1
  <2>3. pc' = "best" => iteration = NumberOfBits
    BY <1>1, <2>1
  <2>4. ASSUME NEW c \in Chips, Monotone(c)
        PROVE  /\ pc' = "download" =>
                    /\ minDAC'[c] <= maxDAC'[c]
                    /\ maxDAC'[c] - minDAC'[c] <= PowersOf2[NumberOfBits - iteration' + 1]
                    /\ Searched(c, minDAC[c], maxDAC[c])'
               /\ pc' = "best" => Searched(c, settings.stop + 1, settings.stop + 1)'
    <3>1. PICK m : Step(c, m)
      BY <1>3
    <3>2. /\ minDAC'[c] <= maxDAC'[c]
          /\ \A x \in Range :
               x < minDAC'[c] \/ maxDAC'[c] <= x =>
                 Distance(bestValue'[c]) <= Distance(Reading(c, x).value)
      BY <2>4, <3>1, StepNearer
    <3>3. /\ iteration < NumberOfBits =>
               maxDAC'[c] - minDAC'[c] <= PowersOf2[NumberOfBits - (iteration + 1) + 1]
          /\ iteration = NumberOfBits =>
               \A x \in Range : Distance(bestValue'[c]) <= Distance(Reading(c, x).value)
      BY <2>4, <3>1, StepHalves
    <3>4. Searched(c, minDAC[c], maxDAC[c])'
      BY <1>1, <3>2 DEF Searched, Distance, Reading, Register, Is, Range
    <3>5. iteration = NumberOfBits => Searched(c, settings.stop + 1, settings.stop + 1)'
      BY <1>1, <3>3 DEF Searched, Distance, Reading, Register, Is, Range
    <3> QED
      BY <1>1, <2>2, <2>3, <3>2, <3>3, <3>4, <3>5
  <2> QED
    BY <1>1, <2>1, <2>2, <2>4
<1>8. BestWasMeasured'
  <2> SUFFICES ASSUME NEW c \in Chips,
                      bestDAC'[c] # (IF Local THEN settings.original[c] ELSE 0)
               PROVE  \E m \in response[c][bestDAC'[c]] : m.value = bestValue'[c]
    BY <1>1, <1>2 DEF BestWasMeasured
  <2>1. PICK m : Step(c, m)
    BY <1>3
  <2>2. chip[c] = Register(c, midDAC[c])
    BY <1>1 DEF IInv, RangeInv
  <2>3. CASE Measured(c) /\ Better(m.value, bestValue[c])
    BY <2>1, <2>2, <2>3 DEF Step
  <2>4. CASE ~ (Measured(c) /\ Better(m.value, bestValue[c]))
    <3>1. bestDAC'[c] = bestDAC[c] /\ bestValue'[c] = bestValue[c]
      BY <2>1, <2>4 DEF Step
    <3> QED
      BY <3>1 DEF IInv, BestWasMeasured
  <2> QED
    BY <2>3, <2>4
<1>9. LostOnlyBehindAFailure'
  BY <1>1 DEF LostOnlyBehindAFailure
<1> QED
  BY <1>5, <1>6, <1>7, <1>8, <1>9 DEF IInv

-----------------------------------------------------------------------------
(* Downloading the best values.                                            *)

\* A chip is not sent because of a chip without a value up to its group.
LEMMA NotSent ==
  ASSUME NEW values, NEW check \in BOOLEAN, NEW c \in Chips, c \notin Sent(values, check)
  PROVE  \E e \in Chips : \E d \in 1 .. e :
           /\ OpticalGroup[e] = OpticalGroup[c]
           /\ check /\ values[d] = 0 /\ d \in Chips /\ OpticalGroup[d] <= OpticalGroup[e]
<1>1. PICK e \in Chips : OpticalGroup[e] = OpticalGroup[c] /\ e \notin Packed(values, check)
  BY DEF Sent
<1>2. PICK d \in 1 .. e : check /\ values[d] = 0
  BY <1>1 DEF Packed
<1>3. d \in Chips /\ d <= e
  BY SettingsAssumption DEF Chips
<1>4. OpticalGroup[d] <= OpticalGroup[e]
  BY <1>3, SettingsAssumption
<1> QED
  BY <1>1, <1>2, <1>3, <1>4

\* Downloading the best values keeps the invariant.
LEMMA DownloadBestKeeps ==
  ASSUME IInv, DownloadBest
  PROVE  IInv'
<1> DEFINE packed == Packed(bestDAC, ~ Local)
           sent == Sent(bestDAC, ~ Local)
<1>1. /\ pc = "best" /\ pc' = "done" /\ settings' = settings /\ response' = response
      /\ iteration' = iteration /\ minDAC' = minDAC /\ maxDAC' = maxDAC /\ midDAC' = midDAC
      /\ bestValue' = bestValue /\ bestDAC' = bestDAC
      /\ regMap' = [c \in Chips |-> IF c \in packed THEN bestDAC[c] ELSE regMap[c]]
      /\ chip' = [c \in Chips |-> IF c \in sent THEN bestDAC[c] ELSE chip[c]]
  BY DEF DownloadBest, DownloadNewDACvalues
<1>2. /\ Range' = Range /\ Local' = Local /\ NumberOfBits' = NumberOfBits
      /\ \A c \in Chips : Scanned(c)' = Scanned(c)
      /\ \A c \in Chips : Monotone(c)' = Monotone(c)
  BY <1>1, SameOperators
<1>3. (~ Local) \in BOOLEAN
  BY DEF Local, Is
<1>4. \A c \in Chips : c \in sent => c \in packed /\ (~ Local => bestDAC[c] # 0)
  BY <1>3, SentHasValue
<1>5. TypeOK'
  <2>1. regMap \in [Chips -> Registers] /\ chip \in [Chips -> Registers]
        /\ bestDAC \in [Chips -> Registers]
    BY DEF IInv, TypeOK
  <2> HIDE DEF packed, sent
  <2>2. regMap' \in [Chips -> Registers] /\ chip' \in [Chips -> Registers]
    BY <1>1, <2>1
  <2> QED
    BY <1>1, <2>2 DEF IInv, TypeOK
<1>6. RangeInv'
  <2>1. ASSUME NEW c \in Chips, iteration > 0 PROVE chip'[c] \in Scanned(c)
    <3>1. chip[c] \in Scanned(c)
      BY <2>1 DEF IInv, RangeInv
    <3>2. bestDAC[c] \in Scanned(c) \/ (~ Local /\ bestDAC[c] = 0)
      BY DEF IInv, RangeInv
    <3> QED
      BY <1>1, <1>4, <3>1, <3>2
  <2> QED
    BY <1>1, <1>2, <2>1 DEF IInv, RangeInv
<1>7. NearestInv'
  <2>1. \A c \in Chips :
          Searched(c, settings.stop + 1, settings.stop + 1)'
            = Searched(c, settings.stop + 1, settings.stop + 1)
    BY <1>1 DEF Searched, Distance, Reading, Register, Is, Range
  <2> QED
    BY <1>1, <1>2, <2>1 DEF IInv, NearestInv, Finished
<1>8. BestWasMeasured'
  BY <1>1 DEF IInv, BestWasMeasured, Local, Is
<1>9. LostOnlyBehindAFailure'
  <2>1. ASSUME NEW c \in Chips, regMap'[c] # chip'[c]
        PROVE  \E d \in c + 1 .. NChips : OpticalGroup[d] = OpticalGroup[c] /\ bestDAC[d] = 0
    <3>1. regMap[c] = chip[c]
      BY <1>1 DEF IInv, RangeInv
    <3>2. c \in packed /\ c \notin sent
      BY <1>1, <1>4, <2>1, <3>1
    <3>3. \E e \in Chips : \E d \in 1 .. e :
            /\ OpticalGroup[e] = OpticalGroup[c]
            /\ ~ Local /\ bestDAC[d] = 0 /\ d \in Chips /\ OpticalGroup[d] <= OpticalGroup[e]
      <4> DEFINE check == ~ Local
      <4>1. check \in BOOLEAN /\ c \notin Sent(bestDAC, check)
        BY <1>3, <3>2
      <4> HIDE DEF check
      <4>2. \E e \in Chips : \E d \in 1 .. e :
              /\ OpticalGroup[e] = OpticalGroup[c]
              /\ check /\ bestDAC[d] = 0 /\ d \in Chips /\ OpticalGroup[d] <= OpticalGroup[e]
        BY <4>1, NotSent
      <4> QED
        BY <4>2 DEF check
    <3>4. PICK e \in Chips, d \in Int :
            /\ d \in 1 .. e /\ OpticalGroup[e] = OpticalGroup[c]
            /\ ~ Local /\ bestDAC[d] = 0 /\ d \in Chips /\ OpticalGroup[d] <= OpticalGroup[e]
      BY <3>3
    <3>5. ~ (d \in 1 .. c)
      BY <3>2, <3>4 DEF Packed
    <3>6. c \in Int /\ d \in 1 .. NChips /\ NChips \in Nat /\ c <= d
      BY <3>4, <3>5, SettingsAssumption DEF Chips
    <3>7. d \in c + 1 .. NChips
      BY <3>5, <3>6, SettingsAssumption DEF Chips
    <3>8. OpticalGroup[c] <= OpticalGroup[d] /\ OpticalGroup[c] \in Nat /\ OpticalGroup[d] \in Nat
      BY <3>4, <3>6, SettingsAssumption
    <3> QED
      BY <3>4, <3>7, <3>8
  <2>2. ASSUME NEW c \in Chips, chip'[c] # bestDAC[c]
        PROVE  \E d \in Chips : OpticalGroup[d] <= OpticalGroup[c] /\ bestDAC[d] = 0
    <3>1. c \notin sent
      BY <1>1, <2>2
    <3> QED
      BY <1>3, <3>1, NotSent
  <2> QED
    BY <1>1, <2>1, <2>2 DEF LostOnlyBehindAFailure
<1> QED
  BY <1>5, <1>6, <1>7, <1>8, <1>9 DEF IInv

-----------------------------------------------------------------------------
(* The local scan.                                                         *)

\* Its settings.
LEMMA LocalSettings ==
  ASSUME settings \in Settings, Local
  PROVE  /\ settings.start = 0 /\ settings.stop \in Nat
         /\ settings.enabled \subseteq Chips
         /\ \A c \in Chips : settings.original[c] \in Range /\ settings.original[c] \in Int
         /\ settings.steps \in Nat /\ LastIteration \in Nat \ {0}
         /\ settings.steps = 0 => LastIteration = NumberOfBits
         /\ settings.steps # 0 => LastIteration = settings.steps
         /\ \A c \in settings.enabled : Measured(c)
<1>1. settings.start = 0 /\ settings.stop \in Nat /\ settings.steps \in Nat
  BY SettingsFacts
<1>2. settings.enabled \subseteq Chips
  BY SettingsAssumption
<1>3. ASSUME NEW c \in Chips PROVE settings.original[c] \in Range /\ settings.original[c] \in Int
  <2>1. settings.original[c] \in 0 .. RegValues - 1 /\ settings.original[c] <= settings.stop
    BY SettingsFacts DEF Registers
  <2> QED
    BY <1>1, <2>1, SettingsFacts DEF Range
<1>4. NumberOfBits \in 1 .. 16
  BY Bits
<1>5. /\ settings.steps = 0 => LastIteration = NumberOfBits
      /\ settings.steps # 0 => LastIteration = settings.steps
  BY DEF LastIteration
<1>6. LastIteration \in Nat \ {0}
  BY <1>1, <1>4, <1>5
<1> QED
  BY <1>1, <1>2, <1>3, <1>5, <1>6 DEF Measured

\* The local scan has nothing searched when it starts.
LEMMA InitLocal == Init => LocalInv
<1> SUFFICES ASSUME Init, Local
             PROVE  /\ ~ Finished /\ iteration <= LastIteration
                    /\ \A c \in settings.enabled : Bisected(c) /\ Walked(c)
  BY DEF LocalInv
<1>1. /\ settings \in Settings /\ pc = "download" /\ iteration = 0
      /\ midDAC = settings.original
      /\ minDAC = [c \in Chips |-> settings.start]
      /\ maxDAC = [c \in Chips |-> settings.stop + 1]
  BY DEF Init
<1>2. ~ Finished /\ iteration <= LastIteration
  BY <1>1, LocalSettings DEF Finished
<1>3. ASSUME NEW c \in settings.enabled PROVE Bisected(c) /\ Walked(c)
  <2>1. /\ c \in Chips /\ settings.original[c] \in Range
        /\ settings.start = 0 /\ settings.stop \in Nat
    BY <1>1, LocalSettings
  <2>2. minDAC[c] = 0 /\ maxDAC[c] = settings.stop + 1 /\ midDAC[c] = settings.original[c]
    BY <1>1, <2>1
  <2>3. minDAC[c] <= midDAC[c] /\ midDAC[c] <= maxDAC[c]
    BY <2>1, <2>2 DEF Range
  <2>4. maxDAC[c] - 0 <= Left
    <3>1. NumberOfBits \in 1 .. 16 /\ settings.stop - settings.start + 1 < PowersOf2[NumberOfBits + 1]
      BY <1>1, Bits
    <3>2. PowersOf2[NumberOfBits + 1] \in Nat
      BY <3>1, Powers
    <3>3. Left = PowersOf2[NumberOfBits + 1] - 1
      BY <1>1 DEF Left
    <3> QED
      BY <2>1, <2>2, <3>1, <3>2, <3>3
  <2>5. Searched(c, 0, maxDAC[c])
    BY <2>1, <2>2 DEF Searched, Range
  <2>6. 0 \in minDAC[c] .. minDAC[c] + 1
    BY <2>2
  <2>7. Bisected(c)
    BY <1>1, <2>3, <2>4, <2>5, <2>6 DEF Bisected
  <2>8. Walked(c)
    BY <1>1, <2>2 DEF Walked
  <2> QED
    BY <2>7, <2>8
<1> QED
  BY <1>2, <1>3

\* The next value of a pixel of the local scan and what its step has searched.
LEMMA LocalStep ==
  ASSUME IInv, Measure, Local, NEW c \in settings.enabled, Monotone(c), NEW m, Step(c, m)
  PROVE  /\ c \in Chips /\ midDAC[c] \in Range
         /\ \A x \in Range :
              \/ Distance(bestValue[c]) <= Distance(Reading(c, x).value)
              \/ Beyond(m) /\ midDAC[c] <= x
              \/ ~ Beyond(m) /\ x <= midDAC[c]
              => Distance(bestValue'[c]) <= Distance(Reading(c, x).value)
         /\ IF Beyond(m) THEN maxDAC'[c] = midDAC[c] /\ minDAC'[c] = minDAC[c]
                         ELSE minDAC'[c] = midDAC[c] /\ maxDAC'[c] = maxDAC[c]
         /\ midDAC'[c] =
              IF settings.steps = 0 THEN Middle(minDAC'[c], maxDAC'[c])
              ELSE IF Beyond(m) THEN IF midDAC[c] = 0 THEN 0 ELSE midDAC[c] - 1
                   ELSE IF midDAC[c] = settings.stop THEN settings.stop ELSE midDAC[c] + 1
<1>1. settings \in Settings /\ pc = "measure"
  BY DEF IInv, TypeOK, Measure
<1>2. c \in Chips /\ Measured(c)
  BY <1>1, LocalSettings
<1>3. midDAC[c] \in Range
  BY <1>1, <1>2 DEF IInv, RangeInv
<1>4. \A x \in Range :
        \/ Distance(bestValue[c]) <= Distance(Reading(c, x).value)
        \/ Beyond(m) /\ midDAC[c] <= x
        \/ ~ Beyond(m) /\ x <= midDAC[c]
        => Distance(bestValue'[c]) <= Distance(Reading(c, x).value)
  BY <1>2, StepSearches
<1>5. IF Beyond(m) THEN maxDAC'[c] = midDAC[c] /\ minDAC'[c] = minDAC[c]
                   ELSE minDAC'[c] = midDAC[c] /\ maxDAC'[c] = maxDAC[c]
  BY <1>2 DEF Step
<1>6. midDAC'[c] = NextMiddle(c, m, minDAC'[c], maxDAC'[c])
  BY DEF Step
<1>7. CASE settings.steps = 0
  BY <1>2, <1>3, <1>4, <1>5, <1>6, <1>7 DEF NextMiddle
<1>8. CASE settings.steps # 0
  BY <1>2, <1>3, <1>4, <1>5, <1>6, <1>8 DEF NextMiddle
<1> QED
  BY <1>7, <1>8

\* A step bit by bit leaves half of the values, the first one no more than before.
LEMMA BisectStep ==
  ASSUME IInv, LocalInv, Measure, Local, settings.steps = 0,
         NEW c \in settings.enabled, Monotone(c), NEW m, Step(c, m)
  PROVE  /\ minDAC'[c] <= midDAC'[c] /\ midDAC'[c] <= maxDAC'[c]
         /\ midDAC'[c] = Middle(minDAC'[c], maxDAC'[c])
         /\ \E first \in minDAC'[c] .. minDAC'[c] + 1 :
              /\ maxDAC'[c] - first <= PowersOf2[NumberOfBits - (iteration + 1) + 2] - 1
              /\ \A x \in Range :
                   x < first \/ maxDAC'[c] <= x =>
                     Distance(bestValue'[c]) <= Distance(Reading(c, x).value)
<1> DEFINE low == minDAC[c]
           high == maxDAC[c]
           mid == midDAC[c]
           k == NumberOfBits - iteration + 1
<1>1. /\ settings \in Settings /\ pc = "measure" /\ iteration \in Nat
      /\ c \in Chips /\ NumberOfBits \in 1 .. 16 /\ LastIteration = NumberOfBits
  BY LocalSettings, Bits DEF IInv, TypeOK, Measure
<1>2. iteration <= NumberOfBits /\ Bisected(c)
  BY <1>1 DEF LocalInv, Finished
<1>3. low \in Int /\ high \in Int /\ mid \in Int /\ Range \subseteq Int
  BY <1>1, SettingsFacts DEF IInv, RangeInv, Range
<1>4. PICK first \in low .. low + 1 : high - first <= Left /\ Searched(c, first, high)
  BY <1>2 DEF Bisected
<1>5. low <= mid /\ mid <= high /\ (iteration > 0 => mid = Middle(low, high))
  BY <1>2 DEF Bisected
<1>6. /\ IF Beyond(m) THEN maxDAC'[c] = mid /\ minDAC'[c] = low
                      ELSE minDAC'[c] = mid /\ maxDAC'[c] = high
      /\ midDAC'[c] = Middle(minDAC'[c], maxDAC'[c])
      /\ \A x \in Range :
           \/ Distance(bestValue[c]) <= Distance(Reading(c, x).value)
           \/ Beyond(m) /\ mid <= x
           \/ ~ Beyond(m) /\ x <= mid
           => Distance(bestValue'[c]) <= Distance(Reading(c, x).value)
  BY LocalStep
<1>7. /\ k \in 1 .. 17 /\ NumberOfBits - (iteration + 1) + 2 = k
      /\ PowersOf2[k] \in Nat
      /\ iteration > 0 => k \in 1 .. 16 /\ Left = 2 * PowersOf2[k] - 1
      /\ iteration = 0 => Left = PowersOf2[k] - 1
  <2>1. k \in 1 .. 17 /\ NumberOfBits - (iteration + 1) + 2 = k
    BY <1>1, <1>2
  <2>2. iteration > 0 => k \in 1 .. 16 /\ NumberOfBits - iteration + 2 = k + 1
    BY <1>1, <1>2
  <2>3. iteration = 0 => NumberOfBits + 1 = k
    BY <1>1
  <2> HIDE DEF k
  <2>4. PowersOf2[k] \in Nat /\ (iteration > 0 => PowersOf2[k + 1] = 2 * PowersOf2[k])
    BY <2>1, <2>2, Powers
  <2>5. iteration > 0 => Left = 2 * PowersOf2[k] - 1
    BY <2>2, <2>4 DEF Left
  <2>6. iteration = 0 => Left = PowersOf2[k] - 1
    BY <2>3 DEF Left
  <2> QED
    BY <2>1, <2>2, <2>4, <2>5, <2>6
<1>8. iteration > 0 => 2 * mid <= low + high /\ low + high <= 2 * mid + 1
  BY <1>3, <1>5, MiddleBetween
<1>9. ASSUME NEW x \in Range, x < first \/ high <= x
      PROVE  Distance(bestValue[c]) <= Distance(Reading(c, x).value)
  BY <1>4, <1>9 DEF Searched
<1> DEFINE power == PowersOf2[k]
<1> HIDE DEF low, high, mid, k, power
<1>10. mid - first <= power - 1 /\ high - (mid + 1) <= power - 1
  <2>1. power \in Nat /\ first \in Int /\ low <= first /\ first <= low + 1
    BY <1>3, <1>4, <1>7 DEF power
  <2>2. CASE iteration = 0
    <3>1. high - first <= power - 1
      BY <1>4, <1>7, <2>2 DEF power
    <3> QED
      BY <1>3, <1>5, <2>1, <3>1
  <2>3. CASE iteration > 0
    <3>1. high - first <= 2 * power - 1
      BY <1>4, <1>7, <2>3 DEF power
    <3>2. 2 * mid <= low + high /\ low + high <= 2 * mid + 1
      BY <1>8, <2>3
    <3> QED
      BY <1>3, <2>1, <3>1, <3>2
  <2> QED
    BY <1>1, <2>2, <2>3
<1>11. minDAC'[c] \in Int /\ maxDAC'[c] \in Int /\ minDAC'[c] <= maxDAC'[c]
  BY <1>3, <1>5, <1>6
<1>12. minDAC'[c] <= midDAC'[c] /\ midDAC'[c] <= maxDAC'[c]
  BY <1>6, <1>11, MiddleInside
<1>13. CASE Beyond(m)
  <2>1. first \in minDAC'[c] .. minDAC'[c] + 1
    BY <1>4, <1>6, <1>13
  <2>2. maxDAC'[c] - first <= power - 1
    BY <1>6, <1>10, <1>13
  <2>3. \A x \in Range :
          x < first \/ maxDAC'[c] <= x =>
            Distance(bestValue'[c]) <= Distance(Reading(c, x).value)
    BY <1>6, <1>9, <1>13
  <2> QED
    BY <1>6, <1>7, <1>12, <2>1, <2>2, <2>3 DEF power
<1>14. CASE ~ Beyond(m)
  <2>1. mid + 1 \in minDAC'[c] .. minDAC'[c] + 1
    BY <1>3, <1>6, <1>14
  <2>2. maxDAC'[c] - (mid + 1) <= power - 1
    BY <1>6, <1>10, <1>14
  <2>3. \A x \in Range :
          x < mid + 1 \/ maxDAC'[c] <= x =>
            Distance(bestValue'[c]) <= Distance(Reading(c, x).value)
    <3>1. \A x \in Range : x < mid + 1 => x <= mid
      BY <1>3
    <3> QED
      BY <1>6, <1>9, <1>14, <3>1
  <2> QED
    BY <1>6, <1>7, <1>12, <2>1, <2>2, <2>3 DEF power
<1> QED
  BY <1>13, <1>14

\* A step of a walk goes on or turns; at an end it has searched everything.
LEMMA WalkStep ==
  ASSUME IInv, LocalInv, Measure, Local, settings.steps # 0,
         NEW c \in settings.enabled, Monotone(c), NEW m, Step(c, m)
  PROVE  LET Near(x) == Distance(bestValue'[c]) <= Distance(Reading(c, x).value)
             p == midDAC'[c]
         IN  \/ \A x \in Range : Near(x)
             \/ p = settings.original[c] - (iteration + 1) /\ \A x \in Range : p + 1 <= x => Near(x)
             \/ p = settings.original[c] + (iteration + 1) /\ \A x \in Range : x < p => Near(x)
<1> DEFINE Near(x) == Distance(bestValue'[c]) <= Distance(Reading(c, x).value)
           Known(x) == Distance(bestValue[c]) <= Distance(Reading(c, x).value)
           p == midDAC[c]
           q == midDAC'[c]
           o == settings.original[c]
<1>1. /\ settings \in Settings /\ pc = "measure" /\ iteration \in Nat
      /\ c \in Chips /\ o \in Int /\ settings.start = 0 /\ settings.stop \in Nat
  BY LocalSettings DEF IInv, TypeOK, Measure
<1>2. p \in Range
  BY LocalStep
<1>3. \A x \in Range : Known(x) \/ (Beyond(m) /\ p <= x) \/ (~ Beyond(m) /\ x <= p) => Near(x)
  BY LocalStep
<1>4. q = IF Beyond(m) THEN IF p = 0 THEN 0 ELSE p - 1
          ELSE IF p = settings.stop THEN settings.stop ELSE p + 1
  BY LocalStep
<1>5. \/ iteration = 0 /\ p = o
      \/ \A x \in Range : Known(x)
      \/ p = o - iteration /\ \A x \in Range : p + 1 <= x => Known(x)
      \/ p = o + iteration /\ \A x \in Range : x < p => Known(x)
  <2>1. Walked(c)
    BY <1>1 DEF LocalInv
  <2>2. \A x \in Range : x \in Int /\ settings.start <= x /\ x < settings.stop + 1
    BY <1>1 DEF Range
  <2> QED
    BY <2>1, <2>2 DEF Walked, Searched
<1>6. \A x \in Range : x \in Int /\ 0 <= x /\ x <= settings.stop
  BY <1>1 DEF Range
<1> HIDE DEF Near, Known, p, q, o
<1>7. CASE \A x \in Range : Known(x)
  BY <1>3, <1>7 DEF Near, q, o
<1>8. CASE Beyond(m)
  <2>1. \A x \in Range : p <= x => Near(x)
    BY <1>3, <1>8
  <2>2. CASE p = 0
    <3>1. \A x \in Range : Near(x)
      BY <1>6, <2>1, <2>2
    <3> QED
      BY <3>1 DEF Near, q, o
  <2>3. CASE p # 0 /\ p = o - iteration
    <3>1. q = o - (iteration + 1)
      BY <1>1, <1>2, <1>4, <1>6, <1>8, <2>3
    <3>2. q + 1 = p
      BY <1>2, <1>4, <1>6, <1>8, <2>3
    <3>3. \A x \in Range : q + 1 <= x => Near(x)
      BY <2>1, <3>2
    <3> QED
      BY <3>1, <3>3 DEF Near, q, o
  <2>4. CASE \A x \in Range : x < p => Known(x)
    <3>1. \A x \in Range : Near(x)
      BY <1>2, <1>3, <1>6, <2>1, <2>4
    <3> QED
      BY <3>1 DEF Near, q, o
  <2>5. iteration = 0 /\ p = o => p = o - iteration
    BY <1>1
  <2> QED
    BY <1>5, <1>7, <2>2, <2>3, <2>4, <2>5
<1>9. CASE ~ Beyond(m)
  <2>1. \A x \in Range : x <= p => Near(x)
    BY <1>3, <1>9
  <2>2. CASE p = settings.stop
    <3>1. \A x \in Range : Near(x)
      BY <1>6, <2>1, <2>2
    <3> QED
      BY <3>1 DEF Near, q, o
  <2>3. CASE p # settings.stop /\ p = o + iteration
    <3>1. q = o + (iteration + 1) /\ q = p + 1
      BY <1>1, <1>2, <1>4, <1>6, <1>9, <2>3
    <3>2. \A x \in Range : x < q => Near(x)
      BY <1>2, <1>6, <2>1, <3>1
    <3> QED
      BY <3>1, <3>2 DEF Near, q, o
  <2>4. CASE \A x \in Range : p + 1 <= x => Known(x)
    <3>1. \A x \in Range : Near(x)
      BY <1>2, <1>3, <1>6, <2>1, <2>4
    <3> QED
      BY <3>1 DEF Near, q, o
  <2>5. iteration = 0 /\ p = o => p = o + iteration
    BY <1>1
  <2> QED
    BY <1>5, <1>7, <2>2, <2>3, <2>4, <2>5
<1> QED
  BY <1>8, <1>9

\* A measurement keeps the invariant of the local scan.
LEMMA MeasureKeepsLocal ==
  ASSUME IInv, LocalInv, Measure
  PROVE  LocalInv'
<1> SUFFICES ASSUME Local
             PROVE  /\ IF Finished' THEN iteration' = LastIteration + 1
                                    ELSE iteration' <= LastIteration
                    /\ \A c \in settings.enabled : Monotone(c) =>
                         IF settings.steps = 0 THEN Bisected(c)' ELSE Walked(c)'
  <2>1. /\ settings' = settings /\ Local' = Local /\ LastIteration' = LastIteration
        /\ settings \in Settings
    BY SameOperators DEF Measure, LastIteration, IInv, TypeOK
  <2>2. Local => \A c \in settings.enabled : Monotone(c)' = Monotone(c)
    BY <2>1, SameOperators, LocalSettings DEF Measure
  <2> QED
    BY <2>1, <2>2 DEF LocalInv
<1>1. /\ pc = "measure" /\ settings' = settings /\ response' = response
      /\ iteration' = iteration + 1
      /\ pc' = IF iteration = LastIteration THEN "best" ELSE "download"
      /\ settings \in Settings /\ iteration \in Nat
  BY DEF Measure, IInv, TypeOK
<1>2. /\ LastIteration \in Nat \ {0} /\ settings.start = 0 /\ settings.stop \in Nat
      /\ settings.enabled \subseteq Chips
  BY <1>1, LocalSettings
<1>3. iteration <= LastIteration
  BY <1>1 DEF LocalInv, Finished
<1>4. IF Finished' THEN iteration' = LastIteration + 1 ELSE iteration' <= LastIteration
  BY <1>1, <1>2, <1>3 DEF Finished
<1>5. ASSUME NEW c \in settings.enabled, Monotone(c), settings.steps = 0
      PROVE  Bisected(c)'
  <2>1. PICK m : Step(c, m)
    BY <1>2, MeasureEffect
  <2>2. /\ minDAC'[c] <= midDAC'[c] /\ midDAC'[c] <= maxDAC'[c]
        /\ midDAC'[c] = Middle(minDAC'[c], maxDAC'[c])
        /\ \E first \in minDAC'[c] .. minDAC'[c] + 1 :
             /\ maxDAC'[c] - first <= PowersOf2[NumberOfBits - (iteration + 1) + 2] - 1
             /\ \A x \in Range :
                  x < first \/ maxDAC'[c] <= x =>
                    Distance(bestValue'[c]) <= Distance(Reading(c, x).value)
    BY <1>5, <2>1, BisectStep
  <2>3. PICK first \in minDAC'[c] .. minDAC'[c] + 1 :
             /\ maxDAC'[c] - first <= PowersOf2[NumberOfBits - (iteration + 1) + 2] - 1
             /\ \A x \in Range :
                  x < first \/ maxDAC'[c] <= x =>
                    Distance(bestValue'[c]) <= Distance(Reading(c, x).value)
    BY <2>2
  <2>4. Left' = PowersOf2[NumberOfBits - (iteration + 1) + 2] - 1
    <3>1. NumberOfBits' = NumberOfBits /\ iteration' # 0
      BY <1>1, SameOperators
    <3> QED
      BY <1>1, <3>1 DEF Left, PowersOf2
  <2>5. Middle(minDAC[c], maxDAC[c])' = Middle(minDAC'[c], maxDAC'[c])
    BY DEF Middle
  <2>6. \A x \in Range :
          x < first \/ maxDAC'[c] <= x =>
            Distance(bestValue[c])' <= Distance(Reading(c, x).value)'
    BY <1>1, <2>3 DEF Distance, Reading, Register, Is
  <2>7. \E f \in minDAC'[c] .. minDAC'[c] + 1 : maxDAC'[c] - f <= Left' /\ Searched(c, f, maxDAC[c])'
    BY <1>1, <2>3, <2>4, <2>6 DEF Searched, Range
  <2> QED
    BY <2>2, <2>5, <2>7 DEF Bisected
<1>6. ASSUME NEW c \in settings.enabled, Monotone(c), settings.steps # 0
      PROVE  Walked(c)'
  <2> DEFINE Near(x) == Distance(bestValue'[c]) <= Distance(Reading(c, x).value)
             p == midDAC'[c]
  <2>1. PICK m : Step(c, m)
    BY <1>2, MeasureEffect
  <2>2. \/ \A x \in Range : Near(x)
        \/ p = settings.original[c] - (iteration + 1) /\ \A x \in Range : p + 1 <= x => Near(x)
        \/ p = settings.original[c] + (iteration + 1) /\ \A x \in Range : x < p => Near(x)
    BY <1>6, <2>1, WalkStep
  <2>3. \A x \in Range : x \in Int /\ ~ (x < settings.start) /\ ~ (settings.stop + 1 <= x)
    BY <1>2 DEF Range
  <2>4. \A x \in Range : Near(x) <=> Distance(bestValue[c])' <= Distance(Reading(c, x).value)'
    BY <1>1 DEF Distance, Reading, Register, Is
  <2> HIDE DEF Near
  <2>5. CASE \A x \in Range : Near(x)
    <3>1. Searched(c, settings.stop + 1, settings.stop + 1)'
      BY <1>1, <2>4, <2>5 DEF Searched, Range
    <3> QED
      BY <3>1 DEF Walked
  <2>6. CASE p = settings.original[c] - (iteration + 1) /\ \A x \in Range : p + 1 <= x => Near(x)
    <3>1. Searched(c, settings.start, midDAC[c] + 1)'
      BY <1>1, <2>3, <2>4, <2>6 DEF Searched, Range
    <3> QED
      BY <1>1, <2>6, <3>1 DEF Walked
  <2>7. CASE p = settings.original[c] + (iteration + 1) /\ \A x \in Range : x < p => Near(x)
    <3>1. Searched(c, midDAC[c], settings.stop + 1)'
      BY <1>1, <2>3, <2>4, <2>7 DEF Searched, Range
    <3> QED
      BY <1>1, <2>7, <3>1 DEF Walked
  <2> QED
    BY <2>2, <2>5, <2>6, <2>7
<1> QED
  BY <1>4, <1>5, <1>6

\* The other steps measure nothing.
LEMMA OthersKeepLocal ==
  ASSUME IInv, LocalInv, DownloadMiddle \/ DownloadBest \/ UNCHANGED vars
  PROVE  LocalInv'
<1>1. /\ settings' = settings /\ response' = response /\ iteration' = iteration
      /\ minDAC' = minDAC /\ maxDAC' = maxDAC /\ bestValue' = bestValue
      /\ Local => midDAC' = midDAC
      /\ settings \in Settings
  BY DEF DownloadMiddle, DownloadBest, vars, IInv, TypeOK
<1>2. Finished' <=> Finished
  BY DEF DownloadMiddle, DownloadBest, vars, Finished
<1>3. Local' = Local /\ LastIteration' = LastIteration /\ NumberOfBits' = NumberOfBits
  BY <1>1, SameOperators DEF LastIteration
<1> SUFFICES ASSUME Local, NEW c \in settings.enabled
             PROVE  Monotone(c)' = Monotone(c) /\ Bisected(c)' = Bisected(c) /\ Walked(c)' = Walked(c)
  BY <1>1, <1>2, <1>3 DEF LocalInv
<1>4. Monotone(c)' = Monotone(c)
  BY <1>1, LocalSettings, SameOperators
<1>5. ASSUME NEW d, NEW e
      PROVE  (\A x \in Range : x < d \/ e <= x =>
                Distance(bestValue[c]) <= Distance(Reading(c, x).value))
             = (\A x \in Range' : x < d \/ e <= x =>
                  Distance(bestValue[c])' <= Distance(Reading(c, x).value)')
  BY <1>1 DEF Distance, Reading, Register, Is, Range
<1>6. Bisected(c)' = Bisected(c)
  <2>1. Left' = Left /\ Middle(minDAC[c], maxDAC[c])' = Middle(minDAC[c], maxDAC[c])
    BY <1>1, <1>3 DEF Left, PowersOf2, Middle
  <2> QED
    BY <1>1, <1>5, <2>1 DEF Bisected, Searched
<1>7. Walked(c)' = Walked(c)
  BY <1>1, <1>5 DEF Walked, Searched
<1> QED
  BY <1>4, <1>6, <1>7

-----------------------------------------------------------------------------
(* The theorems.                                                           *)

\* A stuttering step keeps the invariant.
LEMMA StutterKeeps ==
  ASSUME IInv, UNCHANGED vars
  PROVE  IInv'
<1>1. TypeOK'
  BY DEF IInv, TypeOK, vars
<1>2. RangeInv'
  BY DEF IInv, RangeInv, vars, Range, Local, Is, Scanned, Register
<1>3. NearestInv'
  <2>1. \A c \in Chips : Searched(c, minDAC[c], maxDAC[c])' = Searched(c, minDAC[c], maxDAC[c])
    BY DEF vars, Searched, Distance, Reading, Register, Is, Range
  <2>2. \A c \in Chips : Searched(c, settings.stop + 1, settings.stop + 1)'
                           = Searched(c, settings.stop + 1, settings.stop + 1)
    BY DEF vars, Searched, Distance, Reading, Register, Is, Range
  <2>3. \A c \in Chips : Middle(minDAC[c], maxDAC[c])' = Middle(minDAC[c], maxDAC[c])
    BY DEF vars, Middle
  <2>4. Local' = Local /\ NumberOfBits' = NumberOfBits
        /\ \A c \in Chips : Monotone(c)' = Monotone(c)
    BY SameOperators DEF vars
  <2> QED
    BY <2>1, <2>2, <2>3, <2>4 DEF IInv, NearestInv, vars, Finished
<1>4. BestWasMeasured'
  BY DEF IInv, BestWasMeasured, vars, Local, Is
<1>5. LostOnlyBehindAFailure'
  BY DEF IInv, LostOnlyBehindAFailure, vars
<1> QED
  BY <1>1, <1>2, <1>3, <1>4, <1>5 DEF IInv

\* The invariant holds in every state.
LEMMA Inductive == Spec => []IInv
<1>1. IInv /\ [Next]_vars => IInv'
  BY DownloadMiddleKeeps, MeasureKeeps, DownloadBestKeeps, StutterKeeps DEF Next
<1> QED
  BY <1>1, InitInv, PTL DEF Spec

\* The variables of the scan keep their types, the registers their width
\* (RD53ThrEqualization.cc:433-442 and the other scans).
THEOREM TypeCorrect == Spec => []TypeOK
<1>1. IInv => TypeOK
  BY DEF IInv
<1> QED
  BY <1>1, Inductive, PTL

\* No chip ever has a register value outside of the range of its scan, for any
\* range, responses and noise.
THEOREM ScansStayInRange == Spec => []StaysInRange
<1>1. IInv => StaysInRange
  <2> SUFFICES ASSUME IInv, NEW c \in Chips, iteration > 0 \/ pc = "measure"
               PROVE  chip[c] \in Scanned(c)
    BY DEF StaysInRange
  <2>1. CASE iteration > 0
    BY <2>1 DEF IInv, RangeInv
  <2>2. CASE pc = "measure"
    <3>1. midDAC[c] \in Range /\ chip[c] = Register(c, midDAC[c])
      BY <2>2 DEF IInv, RangeInv
    <3> QED
      BY <3>1, RegisterIsRegister DEF IInv, TypeOK
  <2> QED
    BY <2>1, <2>2
<1> QED
  BY <1>1, Inductive, PTL

\* The global scans find the nearest value of a monotone chip, in any range and
\* for any target: floor(log2(n) + 1) bits are enough for n values.
THEOREM ScansFindTheNearest == Spec => []BestIsNearest
<1>1. IInv => BestIsNearest
  <2> SUFFICES ASSUME IInv, Finished, ~ Local, NEW c \in Chips, Monotone(c), NEW d \in Range
               PROVE  Distance(bestValue[c]) <= Distance(Reading(c, d).value)
    BY DEF BestIsNearest, Range
  <2>1. Searched(c, settings.stop + 1, settings.stop + 1)
    BY DEF IInv, NearestInv
  <2>2. d < settings.stop + 1
    BY SettingsFacts DEF IInv, TypeOK, Range
  <2> QED
    BY <2>1, <2>2 DEF Searched
<1> QED
  BY <1>1, Inductive, PTL

\* The local scan finds the nearest value of a pixel, wherever it starts and for
\* any number of values; a walk of DoNSteps finds the nearest it can reach.
THEOREM LocalScanFindsTheNearest == Spec => []LocalBestIsNearest
<1>1. IInv /\ LocalInv /\ [Next]_vars => LocalInv'
  BY MeasureKeepsLocal, OthersKeepLocal DEF Next
<1>2. IInv /\ LocalInv => LocalBestIsNearest
  <2> SUFFICES ASSUME IInv, LocalInv, Finished, Local,
                      NEW c \in settings.enabled, Monotone(c), NEW d \in Range
               PROVE  \/ Distance(bestValue[c]) <= Distance(Reading(c, d).value)
                      \/ settings.steps # 0 /\ ~ (settings.original[c] - settings.steps <= d
                                                  /\ d <= settings.original[c] + settings.steps)
    BY DEF LocalBestIsNearest, Range
  <2>1. /\ settings \in Settings /\ settings.start = 0 /\ settings.stop \in Nat
        /\ c \in Chips /\ settings.original[c] \in Int
        /\ settings.steps \in Nat /\ LastIteration \in Nat \ {0}
        /\ settings.steps = 0 => LastIteration = NumberOfBits
        /\ settings.steps # 0 => LastIteration = settings.steps
    BY LocalSettings DEF IInv, TypeOK
  <2>2. iteration = LastIteration + 1 /\ d \in Int /\ d <= settings.stop /\ 0 <= d
    BY <2>1 DEF LocalInv, Range
  <2>3. minDAC[c] \in Int /\ maxDAC[c] \in Int
    BY <2>1 DEF IInv, RangeInv, Range
  <2>4. CASE settings.steps = 0
    <3>1. Bisected(c)
      BY <2>4 DEF LocalInv
    <3>2. PICK first \in minDAC[c] .. minDAC[c] + 1 :
            maxDAC[c] - first <= Left /\ Searched(c, first, maxDAC[c])
      BY <3>1 DEF Bisected
    <3>3. NumberOfBits \in 1 .. 16 /\ iteration = NumberOfBits + 1
      BY <2>1, <2>2, <2>4, Bits
    <3>4. iteration # 0 /\ NumberOfBits - iteration + 2 = 1
      BY <3>3
    <3>5. Left = 0
      BY <3>4, Powers DEF Left
    <3>6. d < first \/ maxDAC[c] <= d
      BY <2>2, <2>3, <3>2, <3>5
    <3> QED
      BY <3>2, <3>6 DEF Searched
  <2>5. CASE settings.steps # 0
    <3>1. Walked(c) /\ iteration = settings.steps + 1
      BY <2>1, <2>2, <2>5 DEF LocalInv
    <3>2. CASE Searched(c, settings.stop + 1, settings.stop + 1)
      BY <2>1, <2>2, <3>2 DEF Searched
    <3>3. CASE midDAC[c] = settings.original[c] - iteration
               /\ Searched(c, settings.start, midDAC[c] + 1)
      <4>1. settings.original[c] - settings.steps <= d => midDAC[c] + 1 <= d
        BY <2>1, <2>2, <3>1, <3>3
      <4> QED
        BY <2>5, <3>3, <4>1 DEF Searched
    <3>4. CASE midDAC[c] = settings.original[c] + iteration
               /\ Searched(c, midDAC[c], settings.stop + 1)
      <4>1. d <= settings.original[c] + settings.steps => d < midDAC[c]
        BY <2>1, <2>2, <3>1, <3>4
      <4> QED
        BY <2>5, <3>4, <4>1 DEF Searched
    <3> QED
      BY <2>1, <3>1, <3>2, <3>3, <3>4 DEF Walked
  <2> QED
    BY <2>4, <2>5
<1> QED
  BY <1>1, <1>2, InitLocal, Inductive, PTL DEF Spec

\* The best value is one that was measured with the register it is kept for.
THEOREM BestOfTheMeasured == Spec => []BestWasMeasured
<1>1. IInv => BestWasMeasured
  BY DEF IInv
<1> QED
  BY <1>1, Inductive, PTL

\* What the early return of downloadNewDACvalues loses, for any detector.
THEOREM OnlyFailuresLose == Spec => []LostOnlyBehindAFailure
<1>1. IInv => LostOnlyBehindAFailure
  BY DEF IInv
<1> QED
  BY <1>1, Inductive, PTL
=============================================================================
