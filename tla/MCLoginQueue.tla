---------------------------- MODULE MCLoginQueue ----------------------------
(* LoginQueue for TLC: an account that logs in twice and one more.         *)
EXTENDS LoginQueue, TLC

CONSTANTS a1, a2, b, A, B
MCAccount == (a1 :> A) @@ (a2 :> A) @@ (b :> B)
=============================================================================
