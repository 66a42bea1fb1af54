-------------------------- MODULE MCSqlTransaction --------------------------
(* SqlTransaction for TLC: three statements tell a prefix from a suffix of *)
(* a transaction, and two transactions show what one leaves to the next.   *)
EXTENDS SqlTransaction

AllFaults == {"deadlock", "duplicate", "lost", "reopen"}
=============================================================================
