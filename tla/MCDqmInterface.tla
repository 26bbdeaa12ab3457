--------------------------- MODULE MCDqmInterface ---------------------------
(* DqmInterface on a small instance: headers of two bytes, so that one may   *)
(* arrive in halves, packets of two sizes, up to three data packets.         *)
EXTENDS DqmInterface

MCPayloadSizes == {1, 2}
=============================================================================
