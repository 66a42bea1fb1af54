----------------------- MODULE ProducerConsumerQueue -----------------------
(***************************************************************************)
(* The blocking queue of src/src/common/Threading/ProducerConsumerQueue.h. *)
(* Every method holds _queueLock from its first to its last statement, so  *)
(* each one is a single step.  WaitAndPop gives the lock up only inside    *)
(* _condition.wait: one step looks at the queue and either returns or      *)
(* falls asleep, and the thread looks again after it has been woken.       *)
(***************************************************************************)
EXTENDS Naturals, Sequences

VARIABLES
    queue,      \* _queue, head first
    shutdown,   \* _shutdown
    sleeping    \* the threads blocked in _condition.wait

queueVars == <<queue, shutdown, sleeping>>

QueueInit ==
    /\ queue = <<>>
    /\ shutdown = FALSE
    /\ sleeping = {}

\* What the queue holds.
Queued == {queue[i] : i \in 1..Len(queue)}

\* _condition.notify_one: some sleeper wakes, if there is one.
NotifyOne ==
    \/ sleeping = {} /\ UNCHANGED sleeping
    \/ \E t \in sleeping : sleeping' = sleeping \ {t}

\* Mutants of Push: the notification is missing; the newest value goes first.
PushSilently(value) == queue' = Append(queue, value) /\ UNCHANGED <<sleeping, shutdown>>
PushFront(value) == queue' = <<value>> \o queue /\ NotifyOne /\ UNCHANGED shutdown

\* Push does not look at _shutdown: after Cancel it still stores the value.
Push(value) ==
    /\ queue' = Append(queue, value)
    /\ NotifyOne
    /\ UNCHANGED shutdown

\* WaitAndPop: nothing to do yet, the thread goes to sleep.
WaitSleep(t) ==
    /\ t \notin sleeping
    /\ queue = <<>>
    /\ ~shutdown
    /\ sleeping' = sleeping \cup {t}
    /\ UNCHANGED <<queue, shutdown>>

\* Mutant of WaitPop: _queue.pop() is missing.
WaitPeek(t) == t \notin sleeping /\ queue # <<>> /\ ~shutdown /\ UNCHANGED queueVars

\* WaitAndPop returns the value Head(queue).
WaitPop(t) ==
    /\ t \notin sleeping
    /\ queue # <<>>
    /\ ~shutdown
    /\ queue' = Tail(queue)
    /\ UNCHANGED <<shutdown, sleeping>>

\* WaitAndPop returns and leaves the caller's value alone.
WaitReturnEmpty(t) ==
    /\ t \notin sleeping
    /\ shutdown
    /\ UNCHANGED queueVars

\* A condition variable may wake a thread that nobody notified.
SpuriousWakeup(t) ==
    /\ t \in sleeping
    /\ sleeping' = sleeping \ {t}
    /\ UNCHANGED <<queue, shutdown>>

\* Mutants of Cancel: notify_one instead of notify_all; _shutdown is not set.
CancelNotifyOne == queue' = <<>> /\ shutdown' = TRUE /\ NotifyOne
CancelKeepRunning == queue' = <<>> /\ sleeping' = {} /\ UNCHANGED shutdown

\* Cancel deletes what is queued, then wakes every sleeper.
Cancel ==
    /\ queue' = <<>>
    /\ shutdown' = TRUE
    /\ sleeping' = {}
=============================================================================
