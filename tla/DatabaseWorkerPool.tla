------------------------- MODULE DatabaseWorkerPool -------------------------
(***************************************************************************)
(* The asynchronous half of a database pool: NumAsync MySQLConnections,    *)
(* each with a DatabaseWorker thread, draining one ProducerConsumerQueue;  *)
(* the game threads that enqueue operations; and the main thread, which    *)
(* opens the pool, closes it and finally destroys it.                      *)
(*                                                                         *)
(* A step is what one thread does between two points where another thread  *)
(* can see or change its state.  What an operation does with MySQL is not  *)
(* looked into here (see SqlTransaction): "call" lasts as long as it runs. *)
(***************************************************************************)
EXTENDS ProducerConsumerQueue, FiniteSets

CONSTANTS
    NumAsync,   \* WorkerThreads of the configuration file
    Ops,        \* the SQLOperation objects the game threads create
    NoOp        \* nullptr

ASSUME NumAsyncAssumption == NumAsync \in Nat \ {0}
ASSUME NoOpAssumption == NoOp \notin Ops

\* Connection i belongs to worker i.
Workers == 1..NumAsync

VARIABLES
    workerPc,           \* where the worker thread is
    operation,          \* its local variable operation
    cancelationToken,   \* DatabaseWorker::_cancelationToken
    handle,             \* MySQLConnection::m_Mysql
    mainPc,             \* where the main thread is
    cursor,             \* its loop index over the connections
    opened,             \* how Open ended
    submitted,          \* the operations created so far
    calls,              \* how often operation->call() was entered
    frees,              \* how often the operation was deleted
    crashed             \* the process died of undefined behaviour

workerVars == <<workerPc, operation>>
connectionVars == <<cancelationToken, handle>>
mainVars == <<mainPc, cursor, opened>>
operationVars == <<submitted, calls, frees>>
vars == <<queueVars, workerVars, connectionVars, mainVars, operationVars, crashed>>

Init ==
    /\ QueueInit
    /\ workerPc = [w \in Workers |-> "none"]
    /\ operation = [w \in Workers |-> NoOp]
    /\ cancelationToken = [w \in Workers |-> FALSE]
    /\ handle = [w \in Workers |-> "null"]
    /\ mainPc = "construct"
    /\ cursor = 1
    /\ opened = "no"
    /\ submitted = {}
    /\ calls = [op \in Ops |-> 0]
    /\ frees = [op \in Ops |-> 0]
    /\ crashed = FALSE

-----------------------------------------------------------------------------
(* The game threads.                                                       *)

\* Execute, AsyncQuery, CallBackQuery, DelayQueryHolder, CommitTransaction and
\* KeepAlive all create a new operation and enqueue it.  Nothing refuses one
\* during or after Close: a database log appender may still write then.
Enqueue(op) ==
    /\ opened = "yes"
    /\ mainPc # "destroyed"
    /\ op \notin submitted
    /\ Push(op)
    /\ submitted' = submitted \cup {op}
    /\ UNCHANGED <<workerVars, connectionVars, mainVars, calls, frees, crashed>>

-----------------------------------------------------------------------------
(* DatabaseWorker::WorkerThread.                                           *)

\* The worker blocks in WaitAndPop, or is woken there for no reason.
Idle(w) ==
    /\ workerPc[w] = "pop"
    /\ WaitSleep(w) \/ SpuriousWakeup(w)
    /\ UNCHANGED <<workerVars, connectionVars, mainVars, operationVars, crashed>>

\* WaitAndPop returns with an operation, or with none after Cancel.
Return(w) ==
    /\ workerPc[w] = "pop"
    /\ \/ WaitPop(w) /\ operation' = [operation EXCEPT ![w] = Head(queue)]
       \/ WaitReturnEmpty(w) /\ UNCHANGED operation
    /\ workerPc' = [workerPc EXCEPT ![w] = "check"]
    /\ UNCHANGED <<connectionVars, mainVars, operationVars, crashed>>

\* The thread ends.  An operation popped just before is neither called nor deleted.
Quit(w) ==
    /\ workerPc[w] = "check"
    /\ cancelationToken[w] \/ operation[w] = NoOp
    /\ workerPc' = [workerPc EXCEPT ![w] = "exited"]
    /\ operation' = [operation EXCEPT ![w] = NoOp]
    /\ UNCHANGED <<queueVars, connectionVars, mainVars, operationVars, crashed>>

Call(w) ==
    /\ workerPc[w] = "check"
    /\ ~cancelationToken[w]
    /\ operation[w] # NoOp
    /\ workerPc' = [workerPc EXCEPT ![w] = "call"]
    /\ calls' = [calls EXCEPT ![operation[w]] = @ + 1]
    /\ UNCHANGED <<queueVars, operation, connectionVars, mainVars, submitted, frees, crashed>>

\* call() returns, the operation is deleted and the loop goes round.
Delete(w) ==
    /\ workerPc[w] = "call"
    /\ workerPc' = [workerPc EXCEPT ![w] = "pop"]
    /\ operation' = [operation EXCEPT ![w] = NoOp]
    /\ frees' = [frees EXCEPT ![operation[w]] = @ + 1]
    /\ UNCHANGED <<queueVars, connectionVars, mainVars, submitted, calls, crashed>>

\* What a closed handle or a deleted queue does to the thread that uses it is
\* undefined: the process may die, or the step may go through.
Crash(w) ==
    /\ \/ workerPc[w] = "call" /\ handle[w] = "closed"
       \/ workerPc[w] = "pop" /\ mainPc = "destroyed"
    /\ crashed' = TRUE
    /\ UNCHANGED <<queueVars, workerVars, connectionVars, mainVars, operationVars>>

\* What the scheduler and the database owe a worker.
Progress(w) == Return(w) \/ Quit(w) \/ Call(w) \/ Delete(w)

Worker(w) == Progress(w) \/ Idle(w) \/ Crash(w)

-----------------------------------------------------------------------------
(* The main thread: opening.                                               *)

\* new T(_queue, _connectionInfo) starts the worker before the connection is open.
Construct ==
    /\ mainPc = "construct"
    /\ workerPc' = [workerPc EXCEPT ![cursor] = "pop"]
    /\ mainPc' = "connect"
    /\ UNCHANGED <<queueVars, operation, connectionVars, cursor, opened, operationVars, crashed>>

\* Mutant of Connect: one iteration too many.
ConnectOneMore ==
    /\ mainPc = "connect"
    /\ handle' = [handle EXCEPT ![cursor] = "open"]
    /\ IF cursor <= NumAsync
       THEN mainPc' = "construct" /\ cursor' = cursor + 1
       ELSE mainPc' = "openSync" /\ UNCHANGED cursor
    /\ UNCHANGED <<queueVars, workerVars, cancelationToken, opened, operationVars, crashed>>

\* t->Open() of an asynchronous connection succeeds.
Connect ==
    /\ mainPc = "connect"
    /\ handle' = [handle EXCEPT ![cursor] = "open"]
    /\ IF cursor < NumAsync
       THEN mainPc' = "construct" /\ cursor' = cursor + 1
       ELSE mainPc' = "openSync" /\ UNCHANGED cursor
    /\ UNCHANGED <<queueVars, workerVars, cancelationToken, opened, operationVars, crashed>>

\* It fails, or the server is too old: the connections made so far are deleted,
\* the last one first.
ConnectFails ==
    /\ mainPc = "connect"
    /\ \/ UNCHANGED handle
       \/ handle' = [handle EXCEPT ![cursor] = "open"]
    /\ opened' = "asyncFailed"
    /\ mainPc' = "free"
    /\ UNCHANGED <<queueVars, workerVars, cancelationToken, cursor, operationVars, crashed>>

\* The synchronous connections.  If they fail nothing is closed: main returns, and
\* the pool is left to its static destructor.
OpenSync ==
    /\ mainPc = "openSync"
    /\ \/ opened' = "yes" /\ mainPc' = "running"
       \/ opened' = "syncFailed" /\ mainPc' = "closed"
    /\ UNCHANGED <<queueVars, workerVars, connectionVars, cursor, operationVars, crashed>>

-----------------------------------------------------------------------------
(* The main thread: Close, which deletes the connections one by one, and   *)
(* the destructor of MySQLConnection in its order.                         *)

Close ==
    /\ mainPc = "running"
    /\ mainPc' = "free"
    /\ cursor' = 1
    /\ UNCHANGED <<queueVars, workerVars, connectionVars, opened, operationVars, crashed>>

\* The statements are deleted and mysql_close is called.
FreeHandle ==
    /\ mainPc = "free"
    /\ handle' = [handle EXCEPT ![cursor] = IF @ = "open" THEN "closed" ELSE @]
    /\ mainPc' = "token"
    /\ UNCHANGED <<queueVars, workerVars, cancelationToken, cursor, opened, operationVars, crashed>>

SetToken ==
    /\ mainPc = "token"
    /\ cancelationToken' = [cancelationToken EXCEPT ![cursor] = TRUE]
    /\ mainPc' = "cancel"
    /\ UNCHANGED <<queueVars, workerVars, handle, cursor, opened, operationVars, crashed>>

\* DeleteQueuedObject for everything in the queue.
FreeQueued == frees' = [op \in Ops |-> IF op \in Queued THEN frees[op] + 1 ELSE frees[op]]

CancelQueue ==
    /\ mainPc = "cancel"
    /\ Cancel
    /\ FreeQueued
    /\ mainPc' = "join"
    /\ UNCHANGED <<workerVars, connectionVars, cursor, opened, submitted, calls, crashed>>

\* _workerThread.join(), and on to the next connection.
Join ==
    /\ mainPc = "join"
    /\ workerPc[cursor] = "exited"
    /\ \/ /\ opened = "yes" /\ cursor < NumAsync
          /\ cursor' = cursor + 1 /\ mainPc' = "free"
       \/ /\ opened = "asyncFailed" /\ cursor > 1
          /\ cursor' = cursor - 1 /\ mainPc' = "free"
       \/ /\ cursor = IF opened = "yes" THEN NumAsync ELSE 1
          /\ mainPc' = "closed" /\ UNCHANGED cursor
    /\ UNCHANGED <<queueVars, workerVars, connectionVars, opened, operationVars, crashed>>

\* ~DatabaseWorkerPool cancels the queue once more and deletes it.
Destroy ==
    /\ mainPc = "closed"
    /\ Cancel
    /\ FreeQueued
    /\ mainPc' = "destroyed"
    /\ UNCHANGED <<workerVars, connectionVars, cursor, opened, submitted, calls, crashed>>

\* The steps the main thread takes without being asked.
MainStep ==
    \/ Construct \/ Connect \/ ConnectFails \/ OpenSync
    \/ FreeHandle \/ SetToken \/ CancelQueue \/ Join \/ Destroy

Main == MainStep \/ Close

\* The process has ended.
Ended ==
    /\ crashed \/ (mainPc = "destroyed" /\ \A w \in Workers : workerPc[w] \in {"none", "exited"})
    /\ UNCHANGED vars

Next ==
    \/ /\ ~crashed
       /\ \/ \E op \in Ops : Enqueue(op)
          \/ \E w \in Workers : Worker(w)
          \/ Main
    \/ Ended

Spec == Init /\ [][Next]_vars

\* The operating system runs every thread that can run, and MySQL answers: a call()
\* returns.  Nothing makes the main thread close the pool.
Fairness ==
    /\ \A w \in Workers : WF_vars(~crashed /\ Progress(w))
    /\ WF_vars(~crashed /\ MainStep)

FairSpec == Spec /\ Fairness

-----------------------------------------------------------------------------
(* Properties.                                                             *)

\* The type invariant.
TypeOK ==
    /\ queue \in Seq(Ops)
    /\ shutdown \in BOOLEAN
    /\ sleeping \subseteq Workers
    /\ workerPc \in [Workers -> {"none", "pop", "check", "call", "exited"}]
    /\ operation \in [Workers -> Ops \cup {NoOp}]
    /\ cancelationToken \in [Workers -> BOOLEAN]
    /\ handle \in [Workers -> {"null", "open", "closed"}]
    /\ mainPc \in {"construct", "connect", "openSync", "running", "free", "token",
                   "cancel", "join", "closed", "destroyed"}
    /\ cursor \in Workers
    /\ opened \in {"no", "yes", "asyncFailed", "syncFailed"}
    /\ submitted \subseteq Ops
    /\ calls \in [Ops -> Nat]
    /\ frees \in [Ops -> Nat]
    /\ crashed \in BOOLEAN

\* The workers that are about to look at the queue.
Alert == {w \in Workers : workerPc[w] = "pop" /\ w \notin sleeping}

\* No wakeup is lost or stolen for good: while some worker sleeps in WaitAndPop, every
\* queued operation has an awake worker of its own on its way to the queue.
WorkConserving == sleeping # {} => Len(queue) <= Cardinality(Alert)

\* A raw SQLOperation pointer changes hands through the queue without a reference
\* count: nobody calls or deletes an operation twice, or calls a deleted one, however
\* pops, Cancel, the cancelation tokens and the pool's destructor interleave.
SingleOwner ==
    /\ \A op \in Ops : calls[op] <= 1 /\ frees[op] <= 1
    /\ \A w \in Workers : operation[w] # NoOp => frees[operation[w]] = 0
    /\ \A w \in Workers, v \in Workers :
          operation[w] = operation[v] /\ w # v => operation[w] = NoOp

\* Once the queue has been cancelled nobody sleeps on it again, so that joining the
\* workers one by one cannot block on a worker whose connection is closed later.
NoSleeperAfterCancel == shutdown => sleeping = {}

\* Where the abstract specification sees the operations.
InFlight == {operation[w] : w \in Workers} \ {NoOp}
Done == {op \in submitted : calls[op] > 0} \ InFlight
Dropped == {op \in submitted : calls[op] = 0} \ (InFlight \cup Queued)
Closing == mainPc \in {"free", "token", "cancel", "join", "closed", "destroyed"}

Async == INSTANCE AsyncExecution WITH
    MaxInFlight <- NumAsync, pending <- queue, inFlight <- InFlight,
    done <- Done, dropped <- Dropped, closing <- Closing

\* The pool executes operations the way AsyncExecution promises: they are taken in
\* submission order, run at most NumAsync at a time, and are dropped only by closing.
ImplementsAsyncExecution == Async!Spec

\* Close returns: every join finds its worker on the way out, although the first
\* destructor cancels the queue the other workers still wait on.
CloseTerminates == Closing ~> (mainPc = "destroyed" \/ crashed)

\* While the pool is open an enqueued operation does not stay in the queue or in a
\* worker's hands for ever.
OperationsAreExecuted ==
    \A op \in Ops : op \in submitted ~> (op \in Done \/ Closing \/ crashed)

\* The shutdown sequence of worldserver says it saves all players before it kicks them;
\* a save is an operation enqueued while the pool is open, so it has to be executed
\* even if the pool is closed meanwhile.
SavesAreExecuted ==
    \A op \in Ops :
        (op \in submitted /\ mainPc = "running") ~> (op \in Done \/ crashed)
=============================================================================
