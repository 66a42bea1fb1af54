---------------------------- MODULE ThreadPoolMap ----------------------------
(* The worker threads of a map: ThreadPoolMap and the SynchronizedQueue it *)
(* keeps its requests in.  A step lasts as long as a mutex is held, except *)
(* that freeze sets the flag of the queue without its mutex, so that the    *)
(* predicate of a waiting worker and its wait are two steps.               *)
EXTENDS Naturals, FiniteSets, Sequences

CONSTANTS
    Workers,    \* threads_
    Waiters,    \* the threads that call wait
    Requests,   \* what can be asked of a worker
    None

ASSUME RequestsAssumption == None \notin Requests
ASSUME WorkersAssumption == IsFiniteSet(Workers)

VARIABLES
    queue,          \* queue_.queue_
    frozen,         \* queue_.frozen_
    requestCount,   \* requestCount_
    worker,         \* where each worker is
    request,        \* what it has taken, None if nothing
    sleepers        \* who is blocked on waitCond_

poolVars == <<queue, frozen, requestCount, worker, request, sleepers>>

\* "poll": in pop; "checked": has found the queue empty and holds its mutex;
\* "asleep": blocked on the queue's waitCond_; "gone": has left threadFunc.
WorkerStates == {"poll", "checked", "asleep", "running", "gone"}

InitPool ==
    /\ queue = <<>>
    /\ frozen = FALSE
    /\ requestCount = 0
    /\ worker = [w \in Workers |-> "poll"]
    /\ request = [w \in Workers |-> None]
    /\ sleepers = {}

In(state) == {w \in Workers : worker[w] = state}
QueueFree == In("checked") = {}

-----------------------------------------------------------------------------
(* The caller's side.                                                      *)

\* notify_one.
WakeOne ==
    \/ In("asleep") = {} /\ UNCHANGED worker
    \/ \E w \in In("asleep") : worker' = [worker EXCEPT ![w] = "poll"]

\* Mutant of schedule: the request is not counted.
scheduleUncounted(r) ==
    /\ ~frozen /\ QueueFree
    /\ queue' = Append(queue, r)
    /\ WakeOne
    /\ UNCHANGED <<requestCount, frozen, request, sleepers>>

\* A frozen queue refuses the request.
schedule(r) ==
    /\ QueueFree
    /\ IF frozen
       THEN UNCHANGED <<queue, requestCount, worker>>
       ELSE /\ queue' = Append(queue, r)
            /\ requestCount' = requestCount + 1
            /\ WakeOne
    /\ UNCHANGED <<frozen, request, sleepers>>

\* Mutant of Passes: only what nobody has taken yet is waited for.
PassesQueued(t) == t \notin sleepers /\ queue = <<>>

\* The predicate of wait.
Passes(t) == t \notin sleepers /\ requestCount = 0

FallAsleep(t) ==
    /\ t \notin sleepers /\ requestCount # 0
    /\ sleepers' = sleepers \cup {t}
    /\ UNCHANGED <<queue, frozen, requestCount, worker, request>>

\* freeze: notify_all, without the mutex.
freeze ==
    /\ frozen' = TRUE
    /\ worker' = [w \in Workers |-> IF worker[w] = "asleep" THEN "poll" ELSE worker[w]]
    /\ UNCHANGED <<queue, requestCount, request, sleepers>>

Joined == Workers = In("gone")

-----------------------------------------------------------------------------
(* threadFunc.                                                             *)

\* pop returns false.
Leave(w) ==
    /\ worker[w] = "poll" /\ frozen
    /\ worker' = [worker EXCEPT ![w] = "gone"]
    /\ UNCHANGED <<queue, frozen, requestCount, request, sleepers>>

Check(w) ==
    /\ worker[w] = "poll" /\ ~frozen /\ QueueFree
    /\ queue = <<>>
    /\ worker' = [worker EXCEPT ![w] = "checked"]
    /\ UNCHANGED <<queue, frozen, requestCount, request, sleepers>>

Block(w) ==
    /\ worker[w] = "checked"
    /\ worker' = [worker EXCEPT ![w] = "asleep"]
    /\ UNCHANGED <<queue, frozen, requestCount, request, sleepers>>

Take(w) ==
    /\ worker[w] = "poll" /\ ~frozen /\ QueueFree
    /\ queue # <<>>
    /\ worker' = [worker EXCEPT ![w] = "running"]
    /\ request' = [request EXCEPT ![w] = Head(queue)]
    /\ queue' = Tail(queue)
    /\ UNCHANGED <<frozen, requestCount, sleepers>>

\* Mutant of WakeWaiters: notify_one.
WakeOneWaiter == \E t \in Waiters : sleepers' = sleepers \ {t}

\* notify_all.
WakeWaiters == sleepers' = {}

\* The request is over.
Finish(w) ==
    /\ worker[w] = "running"
    /\ worker' = [worker EXCEPT ![w] = "poll"]
    /\ request' = [request EXCEPT ![w] = None]
    /\ requestCount' = requestCount - 1
    /\ IF requestCount = 1 THEN WakeWaiters ELSE UNCHANGED sleepers
    /\ UNCHANGED <<queue, frozen>>

threadFunc(w) == Leave(w) \/ Check(w) \/ Block(w) \/ Take(w) \/ Finish(w)

\* A condition variable may wake up anybody at any time.
Spurious ==
    \/ \E w \in In("asleep") :
        /\ worker' = [worker EXCEPT ![w] = "poll"]
        /\ UNCHANGED <<queue, frozen, requestCount, request, sleepers>>
    \/ \E t \in sleepers :
        /\ sleepers' = sleepers \ {t}
        /\ UNCHANGED <<queue, frozen, requestCount, worker, request>>

-----------------------------------------------------------------------------
PoolTypeOK ==
    /\ queue \in Seq(Requests)
    /\ frozen \in BOOLEAN
    /\ requestCount \in Nat
    /\ worker \in [Workers -> WorkerStates]
    /\ request \in [Workers -> Requests \cup {None}]
    /\ sleepers \subseteq Waiters
    /\ \A w \in Workers : worker[w] = "running" <=> request[w] # None

\* What is queued or running.
Pending == {queue[i] : i \in 1..Len(queue)} \cup {request[w] : w \in In("running")}

\* requestCount_ is the number of requests that are queued or running.
CountIsExact == requestCount = Len(queue) + Cardinality(In("running"))
=============================================================================
