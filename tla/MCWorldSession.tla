--------------------------- MODULE MCWorldSession ---------------------------
(* WorldSession for TLC: the world and two maps.                           *)
EXTENDS WorldSession

CONSTANTS m1, m2

=============================================================================
