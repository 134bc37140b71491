------------------------- MODULE MCFailureDetector -------------------------
(* The failure detector on small instances; the .cfg files choose the       *)
(* nodes, the period, the delay and the number of losses in a row.          *)
EXTENDS FailureDetector
=============================================================================
