----------------------------- MODULE MCDacScans -----------------------------
(* Model-checking instance: registers of eight values and measurements of  *)
(* four; a chip that may rise or fall in any way or not at all, another of *)
(* its group that may give nothing near the target, and a noisy one alone. *)
EXTENDS DacScans, FiniteSets

MCOpticalGroup == <<0, 0, 1>>

Plain(v) == [value |-> v, masked |-> 0]

Certain(f) == [reg \in Registers |-> {Plain(f[reg])}]

\* The value rises by one at each of three registers.
Rising  == {[reg \in Registers |-> Cardinality({n \in 1 .. 3 : <<a, b, c>>[n] <= reg})] :
              a, b, c \in 0 .. RegValues}
Falling == {[reg \in Registers |-> f[RegValues - 1 - reg]] : f \in Rising}

Constant(v) == [reg \in Registers |-> v]
Alternating == [reg \in Registers |-> IF reg % 2 = 0 THEN 0 ELSE MaxValue]

\* Noise, and a chip whose pixels are all masked at the low thresholds.
Noisy == [reg \in Registers |-> {Plain(1), Plain(2)}]
AllMasked == [reg \in Registers |-> IF reg < 4 THEN {[value |-> 1, masked |-> TotalPixels]}
                                                ELSE {Plain(0)}]

MCResponses ==
  {<<first, second, third>> :
     first \in {Certain(f) : f \in Rising \cup Falling \cup {Alternating}},
     second \in {Certain(Constant(0)), Certain([reg \in Registers |-> reg \div 2])},
     third \in {Noisy, AllMasked}}

Scan(name, start, stop, target, original, steps) ==
  [scan |-> name, start |-> start, stop |-> stop, target |-> target, steps |-> steps,
   maxMasked |-> 1, original |-> original, enabled |-> {1, 3}]

MCSettings ==
  { Scan("ThrEqualization", 0, 6, 2, <<0, 0, 0>>, 0),
    Scan("ThrEqualization", 2, 5, 1, <<0, 3, 7>>, 0),
    Scan("GainOptimization", 1, 5, 2, <<1, 1, 1>>, 0),
    Scan("ThrMinimization", -3, 3, 1, <<3, 4, 4>>, 0),
    Scan("ThrMinimization", -2, 1, 2, <<1, 4, 7>>, 0),
    Scan("Local", 0, 6, 2, <<0, 3, 5>>, 0),
    Scan("Local", 0, 3, 1, <<3, 2, 1>>, 0),
    Scan("Local", 0, 6, 2, <<5, 3, 1>>, 3) }

\* Some of the pixels of the four are masked at every threshold but the highest.
MCMaskingResponses ==
  { << [reg \in Registers |-> {[value |-> IF reg < 6 THEN 1 ELSE 0,
                                masked |-> IF reg < 6 THEN 2 ELSE 0]}],
       Noisy, Noisy >> }

MCMaskingSettings == { Scan("ThrMinimization", -3, 3, 1, <<3, 4, 4>>, 0) }
=============================================================================
