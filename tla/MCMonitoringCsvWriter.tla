------------------------ MODULE MCMonitoringCsvWriter ------------------------
(* Model-checking instance: one module of two chips, two registers of      *)
(* which one is listed, one virtual register of chip scope, and two of     *)
(* module scope: avg(HEADROOM[*]) and HEADROOM[0] + VINA[1].               *)
EXTENDS MonitoringCsvWriter, TLC

CONSTANTS chip0, chip1, module0, run1, run2, VINA, VOFS, HEADROOM, VIN, VSUM

MCChips    == {chip0, chip1}
MCModules  == {module0}
MCModuleOf == [c \in MCChips |-> module0]
MCMetas    == {run1, run2}
MCChipId   == [c \in MCChips |-> IF c = chip0 THEN 0 ELSE 1]
MCInputs   == [v \in {HEADROOM, VIN, VSUM} |->
                 CASE v = HEADROOM -> {VINA} [] v = VIN -> {HEADROOM} [] v = VSUM -> {}]
MCIndexedInputs == [v \in {VIN, VSUM} |-> IF v = VSUM THEN {<<HEADROOM, 0>>, <<VINA, 1>>} ELSE {}]
MCSymmetry == Permutations(MCMetas)
=============================================================================
