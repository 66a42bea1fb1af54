------------------------ MODULE MCDatabaseWorkerPool ------------------------
(* DatabaseWorkerPool for TLC: two connections and three operations, so    *)
(* that one can wait while both workers are busy.                          *)
EXTENDS DatabaseWorkerPool
=============================================================================
