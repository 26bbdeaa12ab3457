---------------------------- MODULE MCRunControl ----------------------------
(* Model-checking instance: combinations CombinedCalibrationFactory        *)
(* registers, with one alignment for several.                              *)
EXTENDS RunControl

MCCalibrations == {
  <<"alignment", "alignment">>, <<"alignment", "correlations">>,
  <<"alignment", "otphysics">>, <<"calib">>, <<"physics">>, <<"realtimemonitor">>,
  <<"monitoronly">>}
=============================================================================
