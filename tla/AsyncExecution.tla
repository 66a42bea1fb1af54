--------------------------- MODULE AsyncExecution ---------------------------
(***************************************************************************)
(* What the asynchronous half of a database pool promises to the game      *)
(* threads: operations start in the order they were submitted, at most     *)
(* MaxInFlight at a time, each at most once; until the pool starts to      *)
(* close, every one that was taken is executed.                            *)
(***************************************************************************)
EXTENDS Naturals, Sequences, FiniteSets

CONSTANTS
    Ops,          \* the operations that may be submitted
    MaxInFlight   \* how many may be in progress together

VARIABLES
    pending,    \* submitted, not yet taken, in submission order
    inFlight,   \* taken by a worker
    done,       \* executed
    dropped,    \* given up without being executed
    closing     \* whether the pool has started to close

vars == <<pending, inFlight, done, dropped, closing>>

Pending == {pending[i] : i \in 1..Len(pending)}

Init ==
    /\ pending = <<>>
    /\ inFlight = {}
    /\ done = {}
    /\ dropped = {}
    /\ closing = FALSE

\* Accepted even while closing: the submitter is not told.
Submit(op) ==
    /\ op \notin Pending \cup inFlight \cup done \cup dropped
    /\ pending' = Append(pending, op)
    /\ UNCHANGED <<inFlight, done, dropped, closing>>

Start ==
    /\ pending # <<>>
    /\ Cardinality(inFlight) < MaxInFlight
    /\ pending' = Tail(pending)
    /\ inFlight' = inFlight \cup {Head(pending)}
    /\ UNCHANGED <<done, dropped, closing>>

Finish(op) ==
    /\ op \in inFlight
    /\ inFlight' = inFlight \ {op}
    /\ done' = done \cup {op}
    /\ UNCHANGED <<pending, dropped, closing>>

BeginClose ==
    /\ ~closing
    /\ closing' = TRUE
    /\ UNCHANGED <<pending, inFlight, done, dropped>>

\* A worker that is told to stop gives its operation up.
Abandon(op) ==
    /\ closing
    /\ op \in inFlight
    /\ inFlight' = inFlight \ {op}
    /\ dropped' = dropped \cup {op}
    /\ UNCHANGED <<pending, done, closing>>

DropPending ==
    /\ closing
    /\ pending' = <<>>
    /\ dropped' = dropped \cup Pending
    /\ UNCHANGED <<inFlight, done, closing>>

Next ==
    \/ \E op \in Ops : Submit(op) \/ Finish(op) \/ Abandon(op)
    \/ Start
    \/ BeginClose
    \/ DropPending

Spec == Init /\ [][Next]_vars
=============================================================================
