---------------------------- MODULE MCFileHandler ----------------------------
(* Model-checking instance: three vectors of two kinds.                    *)
EXTENDS FileHandler

CONSTANTS header, event

MCData == {header, event}
=============================================================================
