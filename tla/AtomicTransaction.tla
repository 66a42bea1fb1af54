------------------------- MODULE AtomicTransaction -------------------------
(***************************************************************************)
(* What a transaction promises its caller: while it runs its effects       *)
(* appear all at once or not at all, success is reported only after they   *)
(* have, and failure only if they have not.  Nothing is promised of a      *)
(* transaction whose connection is lost.                                   *)
(***************************************************************************)
EXTENDS Naturals

VARIABLES
    running,   \* a transaction is being executed
    empty,     \* it has no statements
    effects,   \* "none" or "all" of its effects are durable
    result,    \* what the caller was told last
    broken     \* its connection was lost, now or for good by an earlier transaction

vars == <<running, empty, effects, result, broken>>

Init ==
    /\ running = FALSE
    /\ empty = TRUE
    /\ effects = "none"
    /\ result = "none"
    /\ broken = FALSE

Start ==
    /\ ~running
    /\ ~broken'
    /\ running' = TRUE
    /\ empty' \in BOOLEAN
    /\ effects' = "none"
    /\ result' = "none"

Commit ==
    /\ running /\ ~broken
    /\ ~empty
    /\ effects = "none"
    /\ effects' = "all"
    /\ UNCHANGED <<running, empty, result, broken>>

Report(outcome) ==
    /\ running /\ ~broken
    /\ outcome = "success" => empty \/ effects = "all"
    /\ outcome = "failure" => effects = "none"
    /\ running' = FALSE
    /\ result' = outcome
    /\ UNCHANGED <<empty, effects, broken>>

Lost == broken'

Next ==
    \/ Start
    \/ Commit
    \/ \E outcome \in {"success", "failure"} : Report(outcome)
    \/ Lost

Spec == Init /\ [][Next]_vars
=============================================================================
