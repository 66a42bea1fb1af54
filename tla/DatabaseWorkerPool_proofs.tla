---------------------- MODULE DatabaseWorkerPool_proofs ----------------------
(***************************************************************************)
(* The safety properties of DatabaseWorkerPool for any number of           *)
(* connections and any set of operations.                                  *)
(***************************************************************************)
EXTENDS DatabaseWorkerPool, FiniteSetTheorems, SequenceTheorems, TLAPS

-----------------------------------------------------------------------------
(* Types.                                                                  *)

LEMMA TypeInit == Init => TypeOK
<1> SUFFICES ASSUME Init PROVE TypeOK
  OBVIOUS
<1>1. queue \in Seq(Ops)
  BY DEF Init, QueueInit
<1>2. cursor \in Workers
  BY NumAsyncAssumption DEF Init, Workers
<1> QED BY <1>1, <1>2 DEF Init, QueueInit, TypeOK

LEMMA TypeStep == TypeOK /\ [Next]_vars => TypeOK'
<1> SUFFICES ASSUME TypeOK, [Next]_vars PROVE TypeOK'
  OBVIOUS
<1> USE DEF TypeOK, queueVars, workerVars, connectionVars, mainVars, operationVars
<1>1. ASSUME NEW op \in Ops, Enqueue(op) PROVE TypeOK'
  BY <1>1 DEF Enqueue, Push, NotifyOne
<1>2. ASSUME NEW w \in Workers, Worker(w) PROVE TypeOK'
  <2>1. CASE Idle(w)
    BY <2>1 DEF Idle, WaitSleep, SpuriousWakeup
  <2>2. CASE Return(w)
    <3>1. queue' \in Seq(Ops) /\ operation' \in [Workers -> Ops \cup {NoOp}]
      <4>1. CASE WaitPop(w)
        <5>1. Head(queue) \in Ops /\ Tail(queue) \in Seq(Ops)
          BY <4>1, HeadTailProperties DEF WaitPop
        <5> QED BY <2>2, <4>1, <5>1 DEF Return, WaitPop, WaitReturnEmpty
      <4>2. CASE WaitReturnEmpty(w)
        BY <2>2, <4>2 DEF Return, WaitPop, WaitReturnEmpty
      <4> QED BY <2>2, <4>1, <4>2 DEF Return
    <3> QED BY <2>2, <3>1 DEF Return, WaitPop, WaitReturnEmpty
  <2>3. CASE Quit(w)
    BY <2>3 DEF Quit
  <2>4. CASE Call(w)
    BY <2>4 DEF Call
  <2>5. CASE Delete(w)
    <3>1. frees' \in [Ops -> Nat]
      <4>1. CASE operation[w] \in Ops
        BY <2>5, <4>1 DEF Delete
      <4>2. CASE operation[w] \notin Ops
        BY <2>5, <4>2, Zenon DEF Delete
      <4> QED BY <4>1, <4>2
    <3>2. /\ workerPc' \in [Workers -> {"none", "pop", "check", "call", "exited"}]
          /\ operation' \in [Workers -> Ops \cup {NoOp}]
      BY <2>5 DEF Delete
    <3>3. UNCHANGED <<queueVars, connectionVars, mainVars, submitted, calls, crashed>>
      BY <2>5 DEF Delete
    <3> QED BY <3>1, <3>2, <3>3
  <2>6. CASE Crash(w)
    BY <2>6 DEF Crash
  <2> QED BY <1>2, <2>1, <2>2, <2>3, <2>4, <2>5, <2>6 DEF Worker, Progress
<1>3. CASE Main
  <2>1. CASE Construct
    BY <2>1 DEF Construct
  <2>2. CASE Connect
    <3>1. cursor' \in Workers
      BY <2>2, NumAsyncAssumption DEF Connect, Workers
    <3>2. mainPc' \in {"construct", "openSync"}
      BY <2>2 DEF Connect
    <3> QED BY <2>2, <3>1, <3>2 DEF Connect
  <2>3. CASE ConnectFails
    BY <2>3 DEF ConnectFails
  <2>4. CASE OpenSync
    BY <2>4 DEF OpenSync
  <2>5. CASE Close
    BY <2>5, NumAsyncAssumption DEF Close, Workers
  <2>6. CASE FreeHandle
    BY <2>6 DEF FreeHandle
  <2>7. CASE SetToken
    BY <2>7 DEF SetToken
  <2>8. CASE CancelQueue
    BY <2>8 DEF CancelQueue, Cancel, FreeQueued
  <2>9. CASE Join
    <3>1. cursor' \in Workers
      BY <2>9, NumAsyncAssumption DEF Join, Workers
    <3> QED BY <2>9, <3>1 DEF Join
  <2>10. CASE Destroy
    BY <2>10 DEF Destroy, Cancel, FreeQueued
  <2> QED BY <1>3, <2>1, <2>2, <2>3, <2>4, <2>5, <2>6, <2>7, <2>8, <2>9, <2>10
          DEF Main, MainStep
<1>4. CASE UNCHANGED vars
  BY <1>4 DEF vars
<1> QED BY <1>1, <1>2, <1>3, <1>4 DEF Next, Ended

\* TypeOK holds in every reachable state.
THEOREM TypeCorrect == Spec => []TypeOK
BY TypeInit, TypeStep, PTL DEF Spec

-----------------------------------------------------------------------------
(* The queue as a set.                                                     *)

\* No operation is queued twice.
QueueInjective == \A i, j \in 1..Len(queue) : queue[i] = queue[j] => i = j

LEMMA PushQueued ==
  ASSUME TypeOK, QueueInjective, NEW op \in Ops, op \notin Queued, queue' = Append(queue, op)
  PROVE  Queued' = Queued \cup {op} /\ QueueInjective'
<1>1. /\ queue' \in Seq(Ops) /\ Len(queue) \in Nat
      /\ Len(queue') = Len(queue) + 1
      /\ \A i \in 1..Len(queue) : queue'[i] = queue[i]
      /\ queue'[Len(queue) + 1] = op
  BY AppendProperties DEF TypeOK
<1>2. Queued' = Queued \cup {op}
  BY <1>1 DEF Queued
<1>3. QueueInjective'
  BY <1>1 DEF QueueInjective, Queued
<1> QED BY <1>2, <1>3

LEMMA PopQueued ==
  ASSUME TypeOK, QueueInjective, queue # <<>>, queue' = Tail(queue)
  PROVE  /\ Head(queue) \in Queued
         /\ Queued' = Queued \ {Head(queue)}
         /\ QueueInjective'
         /\ Len(queue) \in Nat \ {0} /\ Len(queue') = Len(queue) - 1
<1>1. /\ Len(queue) \in Nat \ {0} /\ Len(queue') = Len(queue) - 1
      /\ Head(queue) = queue[1]
      /\ \A i \in 1..Len(queue') : queue'[i] = queue[i + 1]
  BY EmptySeq, HeadTailProperties DEF TypeOK
<1>2. \A i \in 2..Len(queue) : queue[i] = queue'[i - 1] /\ i - 1 \in 1..Len(queue')
  BY <1>1
<1>3. \A i \in 1..Len(queue') : i + 1 \in 1..Len(queue) /\ i + 1 # 1
  BY <1>1
<1>4. Queued' \subseteq Queued \ {Head(queue)}
  BY <1>1, <1>3 DEF Queued, QueueInjective
<1>5. ASSUME NEW op \in Queued, op # Head(queue) PROVE op \in Queued'
  <2>1. PICK i \in 1..Len(queue) : op = queue[i]
    BY <1>5 DEF Queued
  <2>2. i \in 2..Len(queue)
    BY <2>1, <1>1, <1>5
  <2> QED BY <2>1, <2>2, <1>2 DEF Queued
<1>6. Head(queue) \in Queued
  BY <1>1 DEF Queued
<1>7. QueueInjective'
  BY <1>1, <1>3 DEF QueueInjective
<1> QED BY <1>1, <1>4, <1>5, <1>6, <1>7

LEMMA EmptyQueued ==
  ASSUME queue' = <<>>
  PROVE  Queued' = {} /\ QueueInjective'
BY DEF Queued, QueueInjective

-----------------------------------------------------------------------------
(* Ownership: where an operation can be, and what has happened to it there. *)

\* Nothing is enqueued before Open has succeeded.
OpenFirst ==
    /\ mainPc \in {"construct", "connect", "openSync"} => opened = "no"
    /\ opened # "yes" => submitted = {}

\* A queued operation has been neither called nor deleted.
QueuedFresh ==
    /\ QueueInjective
    /\ \A op \in Queued : op \in submitted /\ calls[op] = 0 /\ frees[op] = 0

\* An operation in a worker's hands belongs to that worker alone.
HeldFresh ==
    \A w \in Workers :
        /\ workerPc[w] \in {"none", "pop", "exited"} => operation[w] = NoOp
        /\ workerPc[w] = "call" => operation[w] # NoOp
        /\ operation[w] # NoOp =>
              /\ operation[w] \in submitted
              /\ operation[w] \notin Queued
              /\ frees[operation[w]] = 0
              /\ calls[operation[w]] = IF workerPc[w] = "check" THEN 0 ELSE 1
              /\ \A v \in Workers : operation[v] = operation[w] => v = w

\* The rest have been called or deleted at most once.
CountsBounded ==
    \A op \in Ops :
        /\ calls[op] <= 1 /\ frees[op] <= 1
        /\ op \notin submitted => calls[op] = 0 /\ frees[op] = 0

Ownership == OpenFirst /\ QueuedFresh /\ HeldFresh /\ CountsBounded

LEMMA OwnershipInit == Init => Ownership
<1> SUFFICES ASSUME Init PROVE Ownership
  OBVIOUS
<1>1. Queued = {} /\ QueueInjective
  BY DEF Init, QueueInit, Queued, QueueInjective
<1>2. OpenFirst
  BY DEF OpenFirst, Init
<1>3. QueuedFresh
  BY <1>1 DEF QueuedFresh
<1>4. HeldFresh
  BY DEF HeldFresh, Init
<1>5. CountsBounded
  BY DEF CountsBounded, Init
<1> QED BY <1>2, <1>3, <1>4, <1>5 DEF Ownership

LEMMA EnqueueOwnership ==
  ASSUME TypeOK, Ownership, NEW op \in Ops, Enqueue(op)
  PROVE  Ownership'
<1> USE NoOpAssumption DEF Enqueue, Push, workerVars, connectionVars, mainVars
<1>1. op \notin Queued
  BY DEF Ownership, QueuedFresh
<1>2. Queued' = Queued \cup {op} /\ QueueInjective'
  BY <1>1, PushQueued DEF Ownership, QueuedFresh
<1>3. OpenFirst'
  BY DEF Ownership, OpenFirst
<1>4. QueuedFresh'
  BY <1>2 DEF Ownership, QueuedFresh, CountsBounded
<1>5. HeldFresh'
  BY <1>2 DEF Ownership, HeldFresh
<1>6. CountsBounded'
  BY DEF Ownership, CountsBounded
<1> QED BY <1>3, <1>4, <1>5, <1>6 DEF Ownership

LEMMA WorkerOwnership ==
  ASSUME TypeOK, Ownership, NEW w \in Workers, Worker(w)
  PROVE  Ownership'
<1> USE DEF connectionVars, mainVars
<1>1. OpenFirst'
  BY DEF Ownership, OpenFirst, Worker, Progress, Idle, Return, Quit, Call, Delete, Crash,
         operationVars
<1>2. CASE Idle(w)
  BY <1>1, <1>2 DEF Ownership, QueuedFresh, QueueInjective, HeldFresh, CountsBounded, Queued,
         Idle, WaitSleep, SpuriousWakeup, workerVars, operationVars
<1>3. CASE Return(w) /\ WaitPop(w) /\ operation' = [operation EXCEPT ![w] = Head(queue)]
  <2> USE <1>3 DEF Return, WaitPop, operationVars
  <2>1. /\ Head(queue) \in Queued /\ Queued' = Queued \ {Head(queue)} /\ QueueInjective'
    BY PopQueued DEF Ownership, QueuedFresh
  <2>2. QueuedFresh'
    BY <2>1 DEF Ownership, QueuedFresh
  <2>3. HeldFresh'
    <3>1. \A v \in Workers : operation[v] # Head(queue)
      BY <2>1, NoOpAssumption DEF Ownership, QueuedFresh, HeldFresh, TypeOK
    <3>2. operation[w] = NoOp
      BY DEF Ownership, HeldFresh
    <3>3. /\ Head(queue) \in submitted /\ Head(queue) \notin Queued'
          /\ frees[Head(queue)] = 0 /\ calls[Head(queue)] = 0
      BY <2>1 DEF Ownership, QueuedFresh
    <3>4. \A v \in Workers :
             /\ operation'[v] = IF v = w THEN Head(queue) ELSE operation[v]
             /\ workerPc'[v] = IF v = w THEN "check" ELSE workerPc[v]
      BY DEF TypeOK
    <3> QED BY <2>1, <3>1, <3>2, <3>3, <3>4 DEF Ownership, HeldFresh
  <2>4. CountsBounded'
    BY DEF Ownership, CountsBounded
  <2> QED BY <1>1, <2>2, <2>3, <2>4 DEF Ownership
<1>4. CASE Return(w) /\ WaitReturnEmpty(w) /\ UNCHANGED operation
  BY <1>1, <1>4 DEF Ownership, QueuedFresh, QueueInjective, HeldFresh, CountsBounded, Queued,
         Return, WaitReturnEmpty, queueVars, operationVars, TypeOK
<1>5. CASE Quit(w)
  <2> USE <1>5 DEF Quit, operationVars, queueVars
  <2>1. HeldFresh'
    BY DEF Ownership, HeldFresh, TypeOK, Queued
  <2> QED BY <1>1, <2>1 DEF Ownership, QueuedFresh, QueueInjective, CountsBounded, Queued
<1>6. CASE Call(w)
  <2> USE <1>6 DEF Call, queueVars
  <2>1. /\ operation[w] \in Ops /\ operation[w] \in submitted /\ operation[w] \notin Queued
        /\ calls[operation[w]] = 0
    BY DEF TypeOK, Ownership, HeldFresh
  <2>2. \A op \in Ops : calls'[op] = IF op = operation[w] THEN 1 ELSE calls[op]
    BY <2>1 DEF TypeOK
  <2>3. Queued' = Queued /\ QueueInjective'
    BY DEF Queued, QueueInjective, Ownership, QueuedFresh
  <2>4. QueuedFresh'
    BY <2>1, <2>2, <2>3 DEF Ownership, QueuedFresh, TypeOK
  <2>5. \A v \in Workers : workerPc'[v] = IF v = w THEN "call" ELSE workerPc[v]
    BY DEF TypeOK
  <2>6. HeldFresh'
    <3> SUFFICES ASSUME NEW v \in Workers PROVE HeldFresh!(v)'
      BY DEF HeldFresh
    <3>1. CASE v = w
      BY <3>1, <2>1, <2>2, <2>3, <2>5 DEF Ownership, HeldFresh
    <3>2. CASE v # w
      <4>1. operation[v] # NoOp => operation[v] \in Ops /\ operation[v] # operation[w]
        BY <3>2 DEF TypeOK, Ownership, HeldFresh
      <4> QED BY <3>2, <4>1, <2>2, <2>3, <2>5 DEF Ownership, HeldFresh
    <3> QED BY <3>1, <3>2
  <2>7. CountsBounded'
    BY <2>1, <2>2 DEF Ownership, CountsBounded
  <2> QED BY <1>1, <2>4, <2>6, <2>7 DEF Ownership
<1>7. CASE Delete(w)
  <2> USE <1>7 DEF Delete, queueVars
  <2>1. /\ operation[w] \in Ops /\ operation[w] \in submitted /\ operation[w] \notin Queued
        /\ frees[operation[w]] = 0
    BY DEF TypeOK, Ownership, HeldFresh
  <2>2. \A op \in Ops : frees'[op] = IF op = operation[w] THEN 1 ELSE frees[op]
    BY <2>1 DEF TypeOK
  <2>3. Queued' = Queued /\ QueueInjective'
    BY DEF Queued, QueueInjective, Ownership, QueuedFresh
  <2>4. QueuedFresh'
    BY <2>1, <2>2, <2>3 DEF Ownership, QueuedFresh, TypeOK
  <2>5. \A v \in Workers :
           /\ workerPc'[v] = IF v = w THEN "pop" ELSE workerPc[v]
           /\ operation'[v] = IF v = w THEN NoOp ELSE operation[v]
    BY DEF TypeOK
  <2>6. HeldFresh'
    <3> SUFFICES ASSUME NEW v \in Workers PROVE HeldFresh!(v)'
      BY DEF HeldFresh
    <3>1. CASE v = w
      BY <3>1, <2>5 DEF HeldFresh
    <3>2. CASE v # w
      <4>1. operation[v] # NoOp => operation[v] \in Ops /\ operation[v] # operation[w]
        BY <3>2 DEF TypeOK, Ownership, HeldFresh
      <4> QED BY <3>2, <4>1, <2>2, <2>3, <2>5 DEF Ownership, HeldFresh
    <3> QED BY <3>1, <3>2
  <2>7. CountsBounded'
    BY <2>1, <2>2 DEF Ownership, CountsBounded
  <2> QED BY <1>1, <2>4, <2>6, <2>7 DEF Ownership
<1>8. CASE Crash(w)
  BY <1>1, <1>8 DEF Ownership, QueuedFresh, QueueInjective, HeldFresh, CountsBounded, Queued,
         Crash, queueVars, workerVars, operationVars
<1> QED BY <1>2, <1>3, <1>4, <1>5, <1>6, <1>7, <1>8 DEF Worker, Progress, Return

LEMMA CancelOwnership ==
  ASSUME TypeOK, Ownership, Cancel, FreeQueued,
         UNCHANGED <<workerVars, opened, submitted, calls>>,
         mainPc' \notin {"construct", "connect", "openSync"}
  PROVE  Ownership'
<1> USE DEF workerVars
<1>1. Queued' = {} /\ QueueInjective'
  BY EmptyQueued DEF Cancel
<1>2. \A op \in Ops : frees'[op] = IF op \in Queued THEN frees[op] + 1 ELSE frees[op]
  BY DEF FreeQueued
<1>3. OpenFirst'
  BY DEF Ownership, OpenFirst
<1>4. QueuedFresh'
  BY <1>1 DEF QueuedFresh
<1>5. HeldFresh'
  BY <1>1, <1>2 DEF Ownership, HeldFresh, TypeOK
<1>6. CountsBounded'
  BY <1>2 DEF Ownership, QueuedFresh, CountsBounded
<1> QED BY <1>3, <1>4, <1>5, <1>6 DEF Ownership

LEMMA MainOwnership ==
  ASSUME TypeOK, Ownership, Main
  PROVE  Ownership'
<1>1. CASE CancelQueue
  BY <1>1, CancelOwnership DEF CancelQueue
<1>2. CASE Destroy
  BY <1>2, CancelOwnership DEF Destroy
<1>3. CASE Construct
  <2> USE <1>3 DEF Construct, queueVars, connectionVars, operationVars
  <2>1. \A w \in Workers : operation[w] = NoOp
    BY DEF Ownership, OpenFirst, HeldFresh
  <2>2. HeldFresh'
    BY <2>1 DEF Ownership, HeldFresh, TypeOK
  <2> QED BY <2>2 DEF Ownership, OpenFirst, QueuedFresh, QueueInjective, CountsBounded, Queued
<1>4. CASE Connect \/ ConnectFails \/ OpenSync \/ Close \/ FreeHandle \/ SetToken \/ Join
  <2> USE <1>4 DEF Connect, ConnectFails, OpenSync, Close, FreeHandle, SetToken, Join,
          queueVars, workerVars, operationVars
  <2>1. OpenFirst'
    BY DEF Ownership, OpenFirst
  <2>2. UNCHANGED <<queueVars, workerVars, operationVars>>
    OBVIOUS
  <2> QED BY <2>1, <2>2 DEF Ownership, QueuedFresh, QueueInjective, HeldFresh,
             CountsBounded, Queued
<1> QED BY <1>1, <1>2, <1>3, <1>4 DEF Main, MainStep

LEMMA OwnershipStep == TypeOK /\ Ownership /\ [Next]_vars => Ownership'
<1> SUFFICES ASSUME TypeOK, Ownership, [Next]_vars PROVE Ownership'
  OBVIOUS
<1>1. CASE UNCHANGED vars
  BY <1>1 DEF vars, queueVars, workerVars, connectionVars, mainVars, operationVars, Ownership,
     OpenFirst, QueuedFresh, QueueInjective, HeldFresh, CountsBounded, Queued
<1> QED BY <1>1, EnqueueOwnership, WorkerOwnership, MainOwnership DEF Next, Ended

LEMMA OwnershipCorrect == Spec => []Ownership
BY TypeCorrect, OwnershipInit, OwnershipStep, PTL DEF Spec

\* SingleOwner: an operation is called at most once and deleted at most once, and never
\* called after it was deleted.
THEOREM SingleOwnerCorrect == Spec => []SingleOwner
<1>1. TypeOK /\ Ownership => SingleOwner
  BY DEF TypeOK, Ownership, HeldFresh, CountsBounded, SingleOwner
<1> QED BY <1>1, TypeCorrect, OwnershipCorrect, PTL

-----------------------------------------------------------------------------
(* Wakeups.                                                                *)

\* Only a worker inside WaitAndPop sleeps, and none does after Cancel.
SleepersWait ==
    /\ \A w \in sleeping : workerPc[w] = "pop"
    /\ NoSleeperAfterCancel

LEMMA AlertFinite == ASSUME NEW A \in SUBSET Workers
                     PROVE  IsFiniteSet(A) /\ Cardinality(A) \in Nat
<1>1. IsFiniteSet(Workers)
  BY NumAsyncAssumption, FS_Interval DEF Workers
<1> QED BY <1>1, FS_Subset, FS_CardinalityType

Wakeups == SleepersWait /\ WorkConserving

LEMMA WakeupsInit == Init => Wakeups
BY DEF Init, QueueInit, Wakeups, SleepersWait, NoSleeperAfterCancel, WorkConserving

\* A step that only adds to Alert, and neither puts a worker to sleep nor queues anything.
LEMMA MoreAlert ==
  ASSUME TypeOK, TypeOK', WorkConserving, sleeping' \subseteq sleeping,
         Alert \subseteq Alert', UNCHANGED queue
  PROVE  WorkConserving'
<1>1. /\ Cardinality(Alert) \in Nat /\ Cardinality(Alert') \in Nat
      /\ Cardinality(Alert) <= Cardinality(Alert')
  BY AlertFinite, FS_Subset DEF Alert
<1>2. Len(queue) \in Nat
  BY DEF TypeOK
<1> QED BY <1>1, <1>2 DEF WorkConserving

LEMMA EnqueueWakeups ==
  ASSUME TypeOK, TypeOK', Wakeups, NEW op \in Ops, Enqueue(op)
  PROVE  Wakeups'
<1> USE DEF Enqueue, Push, workerVars, connectionVars, mainVars
<1>1. Len(queue) \in Nat /\ Len(queue') = Len(queue) + 1
  BY AppendProperties DEF TypeOK
<1>2. CASE sleeping = {} /\ UNCHANGED sleeping
  BY <1>2 DEF Wakeups, SleepersWait, NoSleeperAfterCancel, WorkConserving
<1>3. ASSUME NEW t \in sleeping, sleeping' = sleeping \ {t} PROVE Wakeups'
  <2>1. t \in Workers /\ workerPc[t] = "pop"
    BY DEF TypeOK, Wakeups, SleepersWait
  <2>2. Alert' = Alert \cup {t} /\ t \notin Alert
    BY <1>3, <2>1 DEF Alert
  <2>3. Cardinality(Alert) \in Nat /\ Cardinality(Alert') = Cardinality(Alert) + 1
    BY <2>2, AlertFinite, FS_AddElement DEF Alert
  <2>4. WorkConserving'
    BY <1>1, <2>3 DEF Wakeups, WorkConserving
  <2>5. SleepersWait'
    BY <1>3 DEF Wakeups, SleepersWait, NoSleeperAfterCancel
  <2> QED BY <2>4, <2>5 DEF Wakeups
<1> QED BY <1>2, <1>3 DEF NotifyOne

LEMMA WorkerWakeups ==
  ASSUME TypeOK, TypeOK', Ownership, Wakeups, NEW w \in Workers, Worker(w)
  PROVE  Wakeups'
<1> USE DEF connectionVars, mainVars
<1>1. CASE workerPc[w] = "pop" /\ WaitSleep(w) /\ UNCHANGED workerPc
  <2>1. Len(queue') = 0
    BY <1>1 DEF WaitSleep
  <2>2. Cardinality(Alert') \in Nat
    BY AlertFinite DEF Alert
  <2>3. SleepersWait'
    BY <1>1 DEF WaitSleep, Wakeups, SleepersWait, NoSleeperAfterCancel
  <2> QED BY <2>1, <2>2, <2>3 DEF Wakeups, WorkConserving
<1>2. CASE SpuriousWakeup(w) /\ UNCHANGED workerPc
  <2>1. sleeping' \subseteq sleeping /\ Alert \subseteq Alert' /\ UNCHANGED <<queue, shutdown>>
    BY <1>2 DEF SpuriousWakeup, Alert
  <2>2. SleepersWait'
    BY <1>2, <2>1 DEF Wakeups, SleepersWait, NoSleeperAfterCancel
  <2> QED BY <2>1, <2>2, MoreAlert DEF Wakeups
<1>3. CASE Return(w) /\ WaitPop(w)
  <2> USE <1>3 DEF Return, WaitPop
  <2>1. Len(queue) \in Nat \ {0} /\ Len(queue') = Len(queue) - 1
    BY PopQueued DEF Ownership, QueuedFresh
  <2>2. w \in Alert /\ Alert' = Alert \ {w}
    BY DEF Alert, TypeOK
  <2>3. Cardinality(Alert) \in Nat /\ Cardinality(Alert') = Cardinality(Alert) - 1
    BY <2>2, AlertFinite, FS_RemoveElement DEF Alert
  <2>4. SleepersWait'
    BY DEF TypeOK, Wakeups, SleepersWait, NoSleeperAfterCancel
  <2> QED BY <2>1, <2>3, <2>4 DEF Wakeups, WorkConserving
<1>4. CASE Return(w) /\ WaitReturnEmpty(w)
  BY <1>4 DEF Return, WaitReturnEmpty, queueVars, Wakeups, SleepersWait, NoSleeperAfterCancel,
              WorkConserving
<1>5. CASE Quit(w) \/ Call(w) \/ Delete(w)
  <2> USE <1>5 DEF Quit, Call, Delete, queueVars
  <2>1. w \notin sleeping /\ workerPc[w] # "pop" /\ UNCHANGED <<queue, shutdown, sleeping>>
    BY DEF Wakeups, SleepersWait
  <2>2. \A v \in Workers : v # w => workerPc'[v] = workerPc[v]
    BY DEF TypeOK
  <2>3. Alert \subseteq Alert'
    BY <2>1, <2>2 DEF Alert
  <2>4. SleepersWait'
    BY <2>1, <2>2 DEF TypeOK, Wakeups, SleepersWait, NoSleeperAfterCancel
  <2> QED BY <2>1, <2>3, <2>4, MoreAlert DEF Wakeups
<1>6. CASE Crash(w)
  BY <1>6 DEF Crash, queueVars, workerVars, Wakeups, SleepersWait, NoSleeperAfterCancel,
              WorkConserving, Alert
<1> QED BY <1>1, <1>2, <1>3, <1>4, <1>5, <1>6 DEF Worker, Progress, Idle, Return, workerVars

LEMMA MainWakeups ==
  ASSUME TypeOK, TypeOK', Wakeups, Main
  PROVE  Wakeups'
<1>1. CASE CancelQueue \/ Destroy
  BY <1>1 DEF CancelQueue, Destroy, Cancel, Wakeups, SleepersWait, NoSleeperAfterCancel,
              WorkConserving
<1>2. CASE Construct
  <2> USE <1>2 DEF Construct, queueVars
  <2>1. \A v \in Workers : workerPc'[v] = IF v = cursor THEN "pop" ELSE workerPc[v]
    BY DEF TypeOK
  <2>2. Alert \subseteq Alert'
    BY <2>1 DEF Alert
  <2>3. SleepersWait'
    BY <2>1 DEF TypeOK, Wakeups, SleepersWait, NoSleeperAfterCancel
  <2> QED BY <2>2, <2>3, MoreAlert DEF Wakeups
<1>3. CASE Connect \/ ConnectFails \/ OpenSync \/ Close \/ FreeHandle \/ SetToken \/ Join
  <2>1. UNCHANGED <<queueVars, workerVars>>
    BY <1>3 DEF Connect, ConnectFails, OpenSync, Close, FreeHandle, SetToken, Join
  <2> QED BY <2>1 DEF queueVars, workerVars, Wakeups, SleepersWait, NoSleeperAfterCancel,
                      WorkConserving, Alert
<1> QED BY <1>1, <1>2, <1>3 DEF Main, MainStep

LEMMA WakeupsStep == TypeOK /\ TypeOK' /\ Ownership /\ Wakeups /\ [Next]_vars => Wakeups'
<1> SUFFICES ASSUME TypeOK, TypeOK', Ownership, Wakeups, [Next]_vars PROVE Wakeups'
  OBVIOUS
<1>1. CASE UNCHANGED vars
  BY <1>1 DEF vars, queueVars, workerVars, Wakeups, SleepersWait, NoSleeperAfterCancel,
              WorkConserving, Alert
<1> QED BY <1>1, EnqueueWakeups, WorkerWakeups, MainWakeups DEF Next, Ended

LEMMA WakeupsCorrect == Spec => []Wakeups
<1>1. TypeOK /\ [Next]_vars => TypeOK'
  BY TypeStep
<1> QED BY <1>1, TypeCorrect, OwnershipCorrect, WakeupsInit, WakeupsStep, PTL DEF Spec

\* WorkConserving: a worker sleeps only while every queued operation already has an awake
\* worker on its way to the queue.
THEOREM WorkConservingCorrect == Spec => []WorkConserving
<1>1. Wakeups => WorkConserving
  BY DEF Wakeups
<1> QED BY <1>1, WakeupsCorrect, PTL

\* NoSleeperAfterCancel: after Cancel no worker is asleep on the queue.
THEOREM NoSleeperCorrect == Spec => []NoSleeperAfterCancel
<1>1. Wakeups => NoSleeperAfterCancel
  BY DEF Wakeups, SleepersWait
<1> QED BY <1>1, WakeupsCorrect, PTL

-----------------------------------------------------------------------------
(* The pool implements AsyncExecution.                                     *)

\* A cancelation token is set only while the pool is closing.
TokensClose == \A w \in Workers : cancelationToken[w] => Closing

LEMMA TokensInit == Init => TokensClose
BY DEF Init, TokensClose

LEMMA ClosingStep == TypeOK /\ [Next]_vars => (Closing => Closing')
<1> SUFFICES ASSUME TypeOK, [Next]_vars, Closing PROVE Closing'
  OBVIOUS
<1>1. CASE UNCHANGED mainPc
  BY <1>1 DEF Closing
<1>2. CASE Main
  BY <1>2 DEF Closing, Main, MainStep, Construct, Connect, ConnectFails, OpenSync, Close,
              FreeHandle, SetToken, CancelQueue, Join, Destroy
<1> QED BY <1>1, <1>2 DEF Next, Ended, vars, mainVars, Enqueue, Worker, Progress, Idle, Return,
           Quit, Call, Delete, Crash

LEMMA TokensStep == TypeOK /\ TokensClose /\ [Next]_vars => TokensClose'
<1> SUFFICES ASSUME TypeOK, TokensClose, [Next]_vars PROVE TokensClose'
  OBVIOUS
<1>1. Closing => Closing'
  BY ClosingStep
<1>2. CASE SetToken
  BY <1>2 DEF SetToken, TokensClose, Closing
<1>3. CASE UNCHANGED cancelationToken
  BY <1>1, <1>3 DEF TokensClose
<1> QED BY <1>2, <1>3 DEF Next, Ended, vars, connectionVars, Enqueue, Worker, Progress, Idle,
           Return, Quit, Call, Delete, Crash, Main, MainStep, Construct, Connect, ConnectFails,
           OpenSync, Close, FreeHandle, CancelQueue, Join, Destroy

\* A worker with empty hands leaves room for one more operation.
LEMMA RoomForOne ==
  ASSUME NEW w \in Workers, operation[w] = NoOp
  PROVE  IsFiniteSet(InFlight) /\ Cardinality(InFlight) < NumAsync
<1> DEFINE Others == Workers \ {w}
           f == [v \in Others |-> operation[v]]
           Image == {operation[v] : v \in Others}
<1>1. IsFiniteSet(Workers) /\ Cardinality(Workers) = NumAsync
  BY NumAsyncAssumption, FS_Interval DEF Workers
<1>2. IsFiniteSet(Others) /\ Cardinality(Others) = NumAsync - 1
  BY <1>1, FS_RemoveElement
<1>3. f \in Surjection(Others, Image)
  BY DEF Surjection
<1>4. IsFiniteSet(Image) /\ Cardinality(Image) <= NumAsync - 1
  BY <1>2, <1>3, FS_Surjection
<1>5. InFlight \in SUBSET Image
  BY DEF InFlight
<1>6. /\ IsFiniteSet(InFlight) /\ Cardinality(InFlight) <= Cardinality(Image)
  BY <1>4, <1>5, FS_Subset
<1>7. Cardinality(InFlight) \in Nat /\ Cardinality(Image) \in Nat
  BY <1>4, <1>6, FS_CardinalityType
<1> QED BY <1>4, <1>6, <1>7, NumAsyncAssumption

LEMMA InitImplements == Init => Async!Init
<1> SUFFICES ASSUME Init PROVE Async!Init
  OBVIOUS
<1>1. InFlight = {}
  BY DEF Init, InFlight
<1>2. Done = {} /\ Dropped = {} /\ Closing = FALSE /\ queue = <<>>
  BY DEF Init, QueueInit, Done, Dropped, Closing
<1> QED BY <1>1, <1>2 DEF Async!Init

\* What the mapping sees is in the operations' counts.
LEMMA MappingFacts ==
  ASSUME TypeOK, Ownership
  PROVE  /\ Async!Pending = Queued
         /\ InFlight \subseteq submitted /\ Queued \subseteq submitted
         /\ InFlight \cap Queued = {}
BY DEF Async!Pending, Queued, InFlight, Ownership, QueuedFresh, HeldFresh

LEMMA EnqueueImplements ==
  ASSUME TypeOK, Ownership, NEW op \in Ops, Enqueue(op)
  PROVE  Async!Submit(op)
<1> USE DEF Enqueue, Push, workerVars, connectionVars, mainVars
<1>1. /\ op \notin submitted /\ submitted' = submitted \cup {op} /\ calls[op] = 0
      /\ queue' = Append(queue, op)
  BY DEF Ownership, CountsBounded
<1>2. Queued' = Queued \cup {op}
  BY <1>1, MappingFacts, PushQueued DEF Ownership, QueuedFresh
<1>3. UNCHANGED InFlight /\ UNCHANGED Closing /\ UNCHANGED calls
  BY DEF InFlight, Closing
<1>4. UNCHANGED Done
  BY <1>1, <1>3 DEF Done
<1>5. UNCHANGED Dropped
  BY <1>1, <1>2, <1>3 DEF Dropped
<1>6. op \notin Async!Pending \cup InFlight \cup Done \cup Dropped
  BY <1>1, MappingFacts DEF Done, Dropped
<1> QED BY <1>1, <1>3, <1>4, <1>5, <1>6 DEF Async!Submit

LEMMA SameCardinality == \A S : Async!Cardinality(S) = Cardinality(S)
BY DEF Async!Cardinality, Cardinality

LEMMA PopImplements ==
  ASSUME TypeOK, Ownership, NEW w \in Workers, workerPc[w] = "pop", WaitPop(w),
         operation' = [operation EXCEPT ![w] = Head(queue)],
         UNCHANGED <<submitted, calls, mainPc>>
  PROVE  Async!Start
<1> USE DEF WaitPop
<1>1. /\ Head(queue) \in Queued /\ Queued' = Queued \ {Head(queue)}
  BY PopQueued DEF Ownership, QueuedFresh
<1>2. operation[w] = NoOp
  BY DEF Ownership, HeldFresh
<1>3. /\ Head(queue) # NoOp /\ calls[Head(queue)] = 0
  BY <1>1, NoOpAssumption DEF Ownership, QueuedFresh, TypeOK
<1>4. \A v \in Workers : operation'[v] = IF v = w THEN Head(queue) ELSE operation[v]
  BY DEF TypeOK
<1>5. InFlight' = InFlight \cup {Head(queue)}
  BY <1>2, <1>3, <1>4 DEF InFlight
<1>6. UNCHANGED Done
  BY <1>3, <1>5 DEF Done
<1>7. UNCHANGED Dropped
  BY <1>1, <1>5 DEF Dropped
<1>8. Cardinality(InFlight) < NumAsync
  BY <1>2, RoomForOne
<1> QED BY <1>5, <1>6, <1>7, <1>8, SameCardinality DEF Async!Start, Closing

LEMMA QuitImplements ==
  ASSUME TypeOK, Ownership, TokensClose, NEW w \in Workers, Quit(w)
  PROVE  (\E op \in Ops : Async!Abandon(op)) \/ UNCHANGED Async!vars
<1> USE DEF Quit, queueVars, mainVars, operationVars
<1>1. \A v \in Workers : operation'[v] = IF v = w THEN NoOp ELSE operation[v]
  BY DEF TypeOK
<1>2. UNCHANGED <<Queued, Closing>>
  BY DEF Queued, Closing
<1>3. CASE operation[w] = NoOp
  <2>1. UNCHANGED operation
    BY <1>3 DEF TypeOK
  <2> QED BY <1>2, <2>1 DEF Async!vars, InFlight, Done, Dropped, Closing
<1>4. CASE operation[w] # NoOp
  <2>1. /\ operation[w] \in Ops /\ operation[w] \in submitted /\ operation[w] \notin Queued
        /\ calls[operation[w]] = 0 /\ operation[w] \in InFlight
        /\ \A v \in Workers : v # w => operation[v] # operation[w]
    BY <1>4 DEF TypeOK, Ownership, HeldFresh, InFlight
  <2>2. InFlight' = InFlight \ {operation[w]}
    BY <1>1, <1>4, <2>1 DEF InFlight
  <2>3. UNCHANGED Done
    BY <2>1, <2>2 DEF Done
  <2>4. Dropped' = Dropped \cup {operation[w]}
    BY <1>2, <2>1, <2>2 DEF Dropped
  <2>5. Closing
    BY <1>4 DEF TokensClose
  <2> QED BY <1>2, <2>1, <2>2, <2>3, <2>4, <2>5 DEF Async!Abandon
<1> QED BY <1>3, <1>4

LEMMA DeleteImplements ==
  ASSUME TypeOK, Ownership, NEW w \in Workers, Delete(w)
  PROVE  \E op \in Ops : Async!Finish(op)
<1> USE DEF Delete, queueVars, mainVars
<1>1. /\ operation[w] \in Ops /\ operation[w] \in submitted /\ operation[w] # NoOp
      /\ calls[operation[w]] = 1 /\ operation[w] \in InFlight
      /\ \A v \in Workers : v # w => operation[v] # operation[w]
  BY DEF TypeOK, Ownership, HeldFresh, InFlight
<1>2. \A v \in Workers : operation'[v] = IF v = w THEN NoOp ELSE operation[v]
  BY DEF TypeOK
<1>3. UNCHANGED <<Queued, Closing>>
  BY DEF Queued, Closing
<1>4. InFlight' = InFlight \ {operation[w]}
  BY <1>1, <1>2 DEF InFlight
<1>5. Done' = Done \cup {operation[w]}
  BY <1>1, <1>4 DEF Done
<1>6. UNCHANGED Dropped
  BY <1>1, <1>3, <1>4 DEF Dropped
<1> QED BY <1>1, <1>3, <1>4, <1>5, <1>6 DEF Async!Finish

LEMMA WorkerImplements ==
  ASSUME TypeOK, Ownership, TokensClose, NEW w \in Workers, Worker(w)
  PROVE  [Async!Next]_(Async!vars)
<1> USE DEF connectionVars, mainVars
<1>1. CASE Idle(w)
  BY <1>1 DEF Idle, WaitSleep, SpuriousWakeup, workerVars, operationVars, Async!vars, InFlight,
              Done, Dropped, Queued, Closing
<1>2. CASE Return(w)
  <2>1. CASE WaitPop(w) /\ operation' = [operation EXCEPT ![w] = Head(queue)]
    BY <1>2, <2>1, PopImplements DEF Return, operationVars, Async!Next
  <2>2. CASE WaitReturnEmpty(w) /\ UNCHANGED operation
    BY <1>2, <2>2 DEF Return, WaitReturnEmpty, queueVars, operationVars, Async!vars, InFlight,
                      Done, Dropped, Queued, Closing
  <2> QED BY <1>2, <2>1, <2>2 DEF Return
<1>3. CASE Quit(w)
  BY <1>3, QuitImplements DEF Async!Next
<1>4. CASE Call(w)
  <2> USE <1>4 DEF Call, queueVars
  <2>1. /\ operation[w] \in Ops /\ operation[w] \in InFlight
        /\ \A op \in Ops : op # operation[w] => calls'[op] = calls[op]
    BY DEF TypeOK, InFlight
  <2>2. UNCHANGED <<InFlight, Queued, Closing, submitted>>
    BY DEF InFlight, Queued, Closing
  <2>3. UNCHANGED <<Done, Dropped>>
    BY <2>1, <2>2 DEF Done, Dropped, TypeOK
  <2> QED BY <2>2, <2>3 DEF Async!vars
<1>5. CASE Delete(w)
  BY <1>5, DeleteImplements DEF Async!Next
<1>6. CASE Crash(w)
  BY <1>6 DEF Crash, queueVars, workerVars, operationVars, Async!vars, InFlight, Done, Dropped,
              Queued, Closing
<1> QED BY <1>1, <1>2, <1>3, <1>4, <1>5, <1>6 DEF Worker, Progress

LEMMA MainImplements ==
  ASSUME TypeOK, Ownership, Main
  PROVE  [Async!Next]_(Async!vars)
<1>1. CASE CancelQueue \/ Destroy
  <2> USE <1>1 DEF CancelQueue, Destroy, Cancel, workerVars
  <2>1. Queued' = {} /\ UNCHANGED <<InFlight, Done>>
    BY EmptyQueued DEF InFlight, Done
  <2>2. Dropped' = Dropped \cup Queued
    BY <2>1, MappingFacts DEF Dropped, Ownership, QueuedFresh
  <2>3. Closing /\ Closing'
    BY DEF Closing
  <2> QED BY <2>1, <2>2, <2>3, MappingFacts DEF Async!Next, Async!DropPending
<1>2. CASE UNCHANGED <<queueVars, operation, operationVars>>
  <2>1. UNCHANGED <<queue, InFlight, Done, Dropped>>
    BY <1>2 DEF queueVars, operationVars, InFlight, Done, Dropped, Queued
  <2>2. ~Closing \/ UNCHANGED Closing
    BY ClosingStep DEF Closing, Main, MainStep, Construct, Connect, ConnectFails, OpenSync, Close,
       FreeHandle, SetToken, CancelQueue, Join, Destroy
  <2> QED BY <2>1, <2>2 DEF Async!Next, Async!BeginClose, Async!vars, Closing
<1> QED BY <1>1, <1>2 DEF Main, MainStep, Construct, Connect, ConnectFails, OpenSync, Close,
           FreeHandle, SetToken, Join, workerVars

LEMMA StepImplements ==
  TypeOK /\ Ownership /\ TokensClose /\ [Next]_vars => [Async!Next]_(Async!vars)
<1> SUFFICES ASSUME TypeOK, Ownership, TokensClose, [Next]_vars PROVE [Async!Next]_(Async!vars)
  OBVIOUS
<1>1. CASE UNCHANGED vars
  BY <1>1 DEF vars, queueVars, workerVars, mainVars, operationVars, Async!vars, InFlight, Done,
              Dropped, Queued, Closing
<1>2. ASSUME NEW op \in Ops, Enqueue(op) PROVE Async!Next
  BY <1>2, EnqueueImplements DEF Async!Next
<1> QED BY <1>1, <1>2, WorkerImplements, MainImplements DEF Next, Ended

\* ImplementsAsyncExecution: operations are taken in submission order, at most NumAsync are
\* in progress, each is executed at most once, and only a closing pool drops any.
THEOREM PoolImplementsAsyncExecution == Spec => ImplementsAsyncExecution
<1>1. Spec => []TokensClose
  BY TypeCorrect, TokensInit, TokensStep, PTL DEF Spec
<1> QED BY <1>1, TypeCorrect, OwnershipCorrect, InitImplements, StepImplements, PTL
        DEF Spec, ImplementsAsyncExecution, Async!Spec

=============================================================================
