----------------------------- MODULE MCMapThreads -----------------------------
(* MapThreads for TLC: three workers, two phases of cells and the data.   *)
EXTENDS MapThreads, TLC

CONSTANTS w1, w2, w3
MCWaiters == {"map", "world"}
MCRequests == 0..LastPhase
=============================================================================
