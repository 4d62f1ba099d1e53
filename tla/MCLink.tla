------------------------------- MODULE MCLink -------------------------------
(* Link for TLC. *)
EXTENDS Link

CONSTANTS l1, l2, operator

MCLoops == {l1, l2}
MCOperators == {operator}
=============================================================================
