------------------------------ MODULE MCSocket ------------------------------
(* Socket for TLC: two small packets that share a buffer, and a large one  *)
(* that needs a buffer of its own and, sent first, leaves an empty one     *)
(* behind.                                                                 *)
EXTENDS Socket

CONSTANTS small1, small2, large
MCPackets == {small1, small2, large}
MCSize == [p \in MCPackets |-> IF p = large THEN 3 ELSE 1]
=============================================================================
