-------------------------- MODULE MapThreads_proofs --------------------------
(* That the phases of a map's update are kept apart and that wait waits for *)
(* everything, for any number of workers, phases and requests.              *)
EXTENDS MapThreads, FiniteSetTheorems, SequenceTheorems, TLAPS

-----------------------------------------------------------------------------
(* The pool by itself.                                                     *)

PoolInv == PoolTypeOK /\ CountIsExact

LEMMA RunningIsFinite ==
    IsFiniteSet(In("running")) /\ Cardinality(In("running")) \in Nat
  BY WorkersAssumption, FS_Subset, FS_CardinalityType DEF In

\* When nothing is counted nothing is queued or running.
LEMMA NothingCounted ==
    ASSUME PoolInv, requestCount = 0
    PROVE  Pending = {}
<1>1. Len(queue) \in Nat BY DEF PoolInv, PoolTypeOK
<1>2. Len(queue) = 0 /\ Cardinality(In("running")) = 0
  BY <1>1, RunningIsFinite DEF PoolInv, CountIsExact
<1>3. In("running") = {} BY <1>2, RunningIsFinite, FS_EmptySet
<1> QED BY <1>2, <1>3 DEF Pending

\* A step that changes neither the queue nor who runs what keeps the pool's invariant.
LEMMA PoolUntouched ==
    ASSUME PoolInv, UNCHANGED <<queue, requestCount, request>>, frozen' \in BOOLEAN,
           sleepers' \subseteq Waiters, worker' \in [Workers -> WorkerStates],
           In("running")' = In("running")
    PROVE  PoolInv' /\ Pending' = Pending
<1>1. \A w \in Workers : worker'[w] = "running" <=> worker[w] = "running" BY DEF In
<1>2. PoolTypeOK' BY <1>1 DEF PoolInv, PoolTypeOK
<1>3. CountIsExact' BY DEF PoolInv, CountIsExact
<1>4. Pending' = Pending BY DEF Pending
<1> QED BY <1>2, <1>3, <1>4 DEF PoolInv

\* Moving one worker among the other states is such a step, and so is waking some of them.
LEMMA WorkerMoves ==
    ASSUME PoolInv, NEW w \in Workers, worker[w] # "running",
           NEW s \in WorkerStates \ {"running"}, worker' = [worker EXCEPT ![w] = s]
    PROVE  worker' \in [Workers -> WorkerStates] /\ In("running")' = In("running")
  BY DEF PoolInv, PoolTypeOK, In, WorkerStates

LEMMA WakeOneMoves ==
    ASSUME PoolInv, WakeOne
    PROVE  worker' \in [Workers -> WorkerStates] /\ In("running")' = In("running")
<1>1. CASE UNCHANGED worker BY <1>1 DEF PoolInv, PoolTypeOK, In
<1>2. ASSUME NEW w \in In("asleep"), worker' = [worker EXCEPT ![w] = "poll"]
      PROVE  worker' \in [Workers -> WorkerStates] /\ In("running")' = In("running")
  BY <1>2, WorkerMoves DEF In, WorkerStates
<1> QED BY <1>1, <1>2 DEF WakeOne

LEMMA ScheduleStep ==
    ASSUME PoolInv, NEW r \in Requests, schedule(r)
    PROVE  PoolInv' /\ Pending' \subseteq Pending \cup {r}
<1>1. CASE frozen
  <2>1. UNCHANGED poolVars BY <1>1 DEF schedule, poolVars
  <2> QED BY <2>1, PoolUntouched DEF poolVars, In, PoolInv, PoolTypeOK
<1>2. CASE ~frozen
  <2>1. /\ queue' = Append(queue, r) /\ requestCount' = requestCount + 1 /\ WakeOne
        /\ UNCHANGED <<frozen, request, sleepers>>
    BY <1>2 DEF schedule
  <2>2. worker' \in [Workers -> WorkerStates] /\ In("running")' = In("running")
    BY <2>1, WakeOneMoves
  <2>3. queue \in Seq(Requests) /\ Len(queue) \in Nat BY DEF PoolInv, PoolTypeOK
  <2>4. /\ queue' \in Seq(Requests) /\ Len(queue') = Len(queue) + 1
        /\ \A i \in 1..Len(queue) : queue'[i] = queue[i]
        /\ queue'[Len(queue) + 1] = r
    BY <2>1, <2>3, AppendProperties
  <2>5. \A w \in Workers : worker'[w] = "running" <=> worker[w] = "running" BY <2>2 DEF In
  <2>6. PoolTypeOK' BY <2>1, <2>2, <2>4, <2>5 DEF PoolInv, PoolTypeOK
  <2>7. CountIsExact' BY <2>1, <2>2, <2>3, <2>4, RunningIsFinite DEF PoolInv, CountIsExact
  <2>8. ASSUME NEW i \in 1..Len(queue') PROVE queue'[i] \in Pending \cup {r}
    <3>1. CASE i \in 1..Len(queue) BY <2>4, <3>1 DEF Pending
    <3>2. CASE i = Len(queue) + 1 BY <2>4, <3>2
    <3> QED BY <2>3, <2>4, <3>1, <3>2
  <2>9. ASSUME NEW w \in In("running")' PROVE request'[w] \in Pending
    BY <2>1, <2>2, <2>9 DEF Pending
  <2>10. Pending' \subseteq Pending \cup {r} BY <2>8, <2>9 DEF Pending
  <2> QED BY <2>6, <2>7, <2>10 DEF PoolInv
<1> QED BY <1>1, <1>2

LEMMA FallAsleepStep ==
    ASSUME PoolInv, NEW t \in Waiters, FallAsleep(t)
    PROVE  PoolInv' /\ Pending' = Pending
  BY PoolUntouched DEF FallAsleep, PoolInv, PoolTypeOK, In

LEMMA FreezeStep ==
    ASSUME PoolInv, freeze
    PROVE  PoolInv' /\ Pending' = Pending
<1>1. worker' \in [Workers -> WorkerStates] /\ In("running")' = In("running")
  BY DEF freeze, PoolInv, PoolTypeOK, In, WorkerStates
<1> QED BY <1>1, PoolUntouched DEF freeze, PoolInv, PoolTypeOK

LEMMA TakeStep ==
    ASSUME PoolInv, NEW w \in Workers, Take(w)
    PROVE  PoolInv' /\ Pending' \subseteq Pending
<1>1. queue \in Seq(Requests) /\ queue # <<>> BY DEF Take, PoolInv, PoolTypeOK
<1>2. /\ Head(queue) \in Requests /\ queue' \in Seq(Requests)
      /\ Len(queue') = Len(queue) - 1
      /\ \A i \in 1..Len(queue') : queue'[i] = queue[i + 1]
      /\ Head(queue) = queue[1] /\ Len(queue) \in Nat \ {0}
  BY <1>1, HeadTailProperties, EmptySeq DEF Take
<1>3. w \notin In("running") /\ In("running")' = In("running") \cup {w}
  BY DEF Take, In, PoolInv, PoolTypeOK
<1>4. Cardinality(In("running")') = Cardinality(In("running")) + 1
  BY <1>3, RunningIsFinite, FS_AddElement
<1>5. PoolTypeOK'
  BY <1>2, RequestsAssumption DEF Take, PoolInv, PoolTypeOK, WorkerStates
<1>6. CountIsExact' BY <1>2, <1>4, RunningIsFinite DEF Take, PoolInv, CountIsExact
<1>7. ASSUME NEW i \in 1..Len(queue') PROVE queue'[i] \in Pending
  <2>1. i + 1 \in 1..Len(queue) BY <1>2
  <2> QED BY <1>2, <2>1 DEF Pending
<1>8. ASSUME NEW x \in In("running")' PROVE request'[x] \in Pending
  <2>1. CASE x = w
    <3>1. request'[x] = queue[1] BY <1>2, <2>1 DEF Take, PoolInv, PoolTypeOK
    <3>2. 1 \in 1..Len(queue) BY <1>2
    <3> QED BY <3>1, <3>2 DEF Pending
  <2>2. CASE x # w
    <3>1. x \in In("running") /\ request'[x] = request[x]
      BY <1>3, <1>8, <2>2 DEF Take, In, PoolInv, PoolTypeOK
    <3> QED BY <3>1 DEF Pending
  <2> QED BY <2>1, <2>2
<1> QED BY <1>5, <1>6, <1>7, <1>8 DEF PoolInv, Pending

LEMMA FinishStep ==
    ASSUME PoolInv, NEW w \in Workers, Finish(w)
    PROVE  PoolInv' /\ Pending' \subseteq Pending
<1>1. w \in In("running") /\ In("running")' = In("running") \ {w}
  BY DEF Finish, In, PoolInv, PoolTypeOK
<1>2. Cardinality(In("running")') = Cardinality(In("running")) - 1
  BY <1>1, RunningIsFinite, FS_RemoveElement
<1>3. Cardinality(In("running")) # 0 BY <1>1, RunningIsFinite, FS_EmptySet
<1>4. Len(queue) \in Nat BY DEF PoolInv, PoolTypeOK
<1>5. requestCount' = Len(queue') + Cardinality(In("running")') /\ requestCount' \in Nat
  BY <1>2, <1>3, <1>4, RunningIsFinite DEF Finish, PoolInv, CountIsExact
<1>6. sleepers' \subseteq Waiters BY DEF Finish, WakeWaiters, PoolInv, PoolTypeOK
<1>7. PoolTypeOK'
  BY <1>5, <1>6, RequestsAssumption DEF Finish, PoolInv, PoolTypeOK, WorkerStates
<1>8. Pending' \subseteq Pending
  <2>1. \A x \in In("running")' : x \in In("running") /\ request'[x] = request[x]
    BY <1>1 DEF Finish, PoolInv, PoolTypeOK, In
  <2>2. queue' = queue BY DEF Finish
  <2> QED BY <2>1, <2>2 DEF Pending
<1> QED BY <1>5, <1>7, <1>8 DEF PoolInv, CountIsExact

LEMMA WorkerStep ==
    ASSUME PoolInv, NEW w \in Workers, threadFunc(w)
    PROVE  PoolInv' /\ Pending' \subseteq Pending
<1>1. CASE Leave(w)
  BY <1>1, WorkerMoves, PoolUntouched DEF Leave, WorkerStates, PoolInv, PoolTypeOK
<1>2. CASE Check(w)
  BY <1>2, WorkerMoves, PoolUntouched DEF Check, WorkerStates, PoolInv, PoolTypeOK
<1>3. CASE Block(w)
  BY <1>3, WorkerMoves, PoolUntouched DEF Block, WorkerStates, PoolInv, PoolTypeOK
<1> QED BY <1>1, <1>2, <1>3, TakeStep, FinishStep DEF threadFunc

LEMMA SpuriousStep ==
    ASSUME PoolInv, Spurious
    PROVE  PoolInv' /\ Pending' = Pending
<1>1. ASSUME NEW w \in In("asleep"), worker' = [worker EXCEPT ![w] = "poll"],
             UNCHANGED <<queue, frozen, requestCount, request, sleepers>>
      PROVE  PoolInv' /\ Pending' = Pending
  BY <1>1, WorkerMoves, PoolUntouched DEF In, WorkerStates, PoolInv, PoolTypeOK
<1>2. ASSUME NEW t \in sleepers, sleepers' = sleepers \ {t},
             UNCHANGED <<queue, frozen, requestCount, worker, request>>
      PROVE  PoolInv' /\ Pending' = Pending
  BY <1>2, PoolUntouched DEF In, PoolInv, PoolTypeOK
<1> QED BY <1>1, <1>2 DEF Spurious

-----------------------------------------------------------------------------
(* The map.                                                                *)

\* What may be queued or running as long as UpdateLoop has caught no exception.
Now == IF mapAt = "waiting" \/ (mapAt = "update" /\ batch > 0) THEN {phase} ELSE {}

\* The inductive invariant: between two phases nothing is left, although the state then is
\* the same as while a phase is being scheduled.
IInv ==
    /\ TypeOK
    /\ CountIsExact
    /\ mapAt \notin {"update", "waiting"} => phase = 0 /\ batch = 0
    /\ throws = 0 => Pending \subseteq Now

LEMMA NothingLeft ==
    ASSUME IInv, requestCount = 0 PROVE Pending = {}
  BY NothingCounted DEF IInv, TypeOK, PoolInv

LEMMA PoolStays ==
    ASSUME IInv, UNCHANGED poolVars PROVE PoolTypeOK' /\ CountIsExact' /\ Pending' = Pending
  BY DEF poolVars, IInv, TypeOK, PoolTypeOK, CountIsExact, Pending, In

LEMMA InitIInv == ASSUME Init PROVE IInv
<1>1. In("running") = {} BY DEF Init, InitPool, In
<1>2. Cardinality({}) = 0 BY FS_EmptySet
<1>3. <<>> \in Seq(Requests) /\ Len(<<>>) = 0 OBVIOUS
<1>4. PoolTypeOK BY <1>3, RequestsAssumption DEF Init, InitPool, PoolTypeOK, WorkerStates
<1>5. CountIsExact /\ Pending = {}
  BY <1>1, <1>2, <1>3 DEF Init, InitPool, CountIsExact, Pending
<1>6. mapAt \in MapStates /\ worldAt \in WorldStates BY DEF Init, MapStates, WorldStates
<1>7. phase \in 0..LastPhase /\ batch \in 0..MaxBatch /\ throws \in 0..MaxThrows
  BY PhasesAssumption, BoundsAssumption DEF Init
<1>8. stop \in BOOLEAN /\ unload \in BOOLEAN BY Zenon DEF Init
<1>9. TypeOK BY <1>4, <1>6, <1>7, <1>8 DEF TypeOK
<1> QED BY <1>5, <1>9 DEF IInv, Init

\* The map thread's steps that leave the pool alone, between two updates or at their ends.
LEMMA MapMoves ==
    ASSUME IInv, UNCHANGED <<poolVars, worldAt>>, stop' \in BOOLEAN, unload' \in BOOLEAN,
           mapAt' \in MapStates, throws' \in 0..MaxThrows, throws' = 0 => throws = 0,
           \/ /\ mapAt' \notin {"update", "waiting"} /\ phase' = 0 /\ batch' = 0
              /\ throws' = 0 => Pending = {}
           \/ mapAt' = "waiting" /\ mapAt = "update" /\ UNCHANGED <<phase, batch>>
           \/ /\ mapAt' = "update" /\ batch' = 0 /\ phase' \in 0..LastPhase
              /\ throws' = 0 => Pending = {}
    PROVE  IInv'
<1>1. PoolTypeOK' /\ CountIsExact' /\ Pending' = Pending BY PoolStays
<1>2. TypeOK' BY <1>1, PhasesAssumption, BoundsAssumption DEF IInv, TypeOK
<1>3. throws' = 0 => Pending \subseteq Now' BY DEF Now, IInv
<1> QED BY <1>1, <1>2, <1>3 DEF IInv

LEMMA UpdateLoopStep == ASSUME IInv, UpdateLoop PROVE IInv'
<1> USE DEF Goto
<1>1. /\ UNCHANGED worldAt /\ stop \in BOOLEAN /\ unload \in BOOLEAN /\ throws \in 0..MaxThrows
      /\ phase \in 0..LastPhase /\ batch \in 0..MaxBatch /\ mapAt \in MapStates
  BY DEF UpdateLoop, IInv, TypeOK
<1>2. ASSUME mapAt \notin {"update", "waiting"}
      PROVE  phase = 0 /\ batch = 0 /\ (throws = 0 => Pending = {})
  BY <1>2 DEF IInv, Now
<1>3. CASE StartRound
  BY <1>1, <1>2, <1>3, MapMoves DEF StartRound, MapStates, flagVars
<1>4. CASE EndSessions
  BY <1>1, <1>2, <1>4, MapMoves DEF EndSessions, MapStates, flagVars
<1>5. CASE Schedule
  <2>1. phase \in Requests BY <1>1, PhasesAssumption
  <2>2. PoolInv' /\ Pending' \subseteq Pending \cup {phase}
    BY <1>5, <2>1, ScheduleStep DEF Schedule, IInv, TypeOK, PoolInv
  <2>3. batch' \in 0..MaxBatch /\ batch' > 0 BY <1>1, <1>5, BoundsAssumption DEF Schedule
  <2>4. TypeOK' BY <1>1, <1>5, <2>2, <2>3 DEF Schedule, flagVars, IInv, TypeOK, PoolInv
  <2>5. throws' = 0 => Pending' \subseteq Now'
    BY <1>5, <2>2, <2>3 DEF Schedule, flagVars, IInv, Now
  <2> QED BY <1>5, <2>2, <2>4, <2>5 DEF Schedule, IInv, PoolInv
<1>6. CASE ReturnFromUpdate
  <2>1. throws = 0 => Pending = {} BY <1>6 DEF ReturnFromUpdate, IInv, Now
  <2> QED BY <1>1, <1>6, <2>1, MapMoves DEF ReturnFromUpdate, EndUpdate, MapStates, flagVars
<1>7. CASE StartWaiting
  BY <1>1, <1>7, MapMoves DEF StartWaiting, MapStates, flagVars
<1>8. CASE Wait
  <2>1. PoolInv' /\ Pending' = Pending
    BY <1>8, FallAsleepStep, WaitersAssumption DEF Wait, IInv, TypeOK, PoolInv
  <2> QED BY <1>1, <1>8, <2>1 DEF Wait, mapVars, flagVars, IInv, TypeOK, PoolInv, Now
<1>9. CASE EndPhase
  <2>1. Pending = {} BY <1>9, NothingLeft DEF EndPhase, Passes
  <2>2. CASE phase < LastPhase
    <3>1. phase + 1 \in 0..LastPhase BY <1>1, <2>2, PhasesAssumption
    <3> QED BY <1>1, <1>9, <2>1, <2>2, <3>1, MapMoves
        DEF EndPhase, GotoPhase, MapStates, flagVars
  <2>3. CASE ~(phase < LastPhase)
    BY <1>1, <1>9, <2>1, <2>3, MapMoves DEF EndPhase, EndUpdate, MapStates, flagVars
  <2> QED BY <2>2, <2>3
<1>10. CASE Throw
  <2>1. throws' \in 0..MaxThrows /\ throws' # 0 BY <1>1, <1>10, BoundsAssumption DEF Throw
  <2> QED BY <1>1, <1>10, <2>1, MapMoves DEF Throw, MapStates, flagVars
<1>11. CASE Crash
  BY <1>1, <1>2, <1>11, MapMoves DEF Crash, MapStates
<1>12. CASE EndCrash
  BY <1>1, <1>2, <1>12, MapMoves DEF EndCrash, MapStates
<1>13. CASE WakeUp
  BY <1>1, <1>2, <1>13, MapMoves DEF WakeUp, MapStates, flagVars
<1>14. CASE Exit
  BY <1>1, <1>2, <1>14, MapMoves DEF Exit, MapStates, flagVars
<1> QED
  BY <1>3, <1>4, <1>5, <1>6, <1>7, <1>8, <1>9, <1>10, <1>11, <1>12, <1>13, <1>14 DEF UpdateLoop

LEMMA UnloadAllStep == ASSUME IInv, UnloadAll PROVE IInv'
<1>1. worldAt' \in WorldStates /\ stop' \in BOOLEAN /\ unload' \in BOOLEAN
  BY DEF UnloadAll, StopMap, UnloadMap, WorldWait, DeleteMap, StopPool, DeletePool, JoinMap,
     GoOn, WorldStates, flagVars, IInv, TypeOK
<1>2. PoolInv' /\ Pending' = Pending
  <2>1. CASE UNCHANGED poolVars BY <2>1, PoolStays DEF PoolInv
  <2>2. CASE WorldWait
    BY <2>2, FallAsleepStep, WaitersAssumption DEF WorldWait, IInv, TypeOK, PoolInv
  <2>3. CASE StopPool BY <2>3, FreezeStep DEF StopPool, IInv, TypeOK, PoolInv
  <2> QED BY <2>1, <2>2, <2>3 DEF UnloadAll, StopMap, UnloadMap, DeleteMap, DeletePool, JoinMap
<1>3. UNCHANGED <<mapAt, phase, batch, throws>> BY DEF UnloadAll, mapVars
<1> QED BY <1>1, <1>2, <1>3 DEF IInv, TypeOK, PoolInv, Now

LEMMA NextIInv == ASSUME IInv, [Next]_vars PROVE IInv'
<1>1. ASSUME UNCHANGED <<mapVars, worldAt, flagVars, throws>>, PoolInv', Pending' \subseteq Pending
      PROVE  IInv'
  BY <1>1 DEF mapVars, flagVars, IInv, TypeOK, PoolInv, Now
<1>2. PoolInv BY DEF IInv, TypeOK, PoolInv
<1>3. ASSUME NEW w \in Workers, threadFunc(w), UNCHANGED <<mapVars, worldAt, flagVars, throws>>
      PROVE  IInv'
  BY <1>1, <1>2, <1>3, WorkerStep
<1>4. CASE Spurious /\ UNCHANGED <<mapVars, worldAt, flagVars, throws>>
  BY <1>1, <1>2, <1>4, SpuriousStep
<1>5. CASE UNCHANGED vars
  BY <1>1, <1>2, <1>5, PoolStays DEF vars, PoolInv
<1> QED BY <1>3, <1>4, <1>5, UpdateLoopStep, UnloadAllStep DEF Next

-----------------------------------------------------------------------------
LEMMA Invariance == Spec => []IInv
<1>1. Init => IInv BY InitIInv
<1>2. IInv /\ [Next]_vars => IInv' BY NextIInv
<1> QED BY <1>1, <1>2, PTL DEF Spec

\* The type invariant, for any number of workers, phases, requests and exceptions.
THEOREM MapThreadsTypeCorrect == Spec => []TypeOK
<1>1. IInv => TypeOK BY DEF IInv
<1> QED BY <1>1, Invariance, PTL

\* Until UpdateLoop catches an exception, what the workers have belongs to the phase the map
\* thread is in, and they have nothing while it is anywhere else.
THEOREM PhasesAreSeparated == Spec => []PhasesSeparated
<1>1. IInv => PhasesSeparated BY DEF IInv, PhasesSeparated, Now
<1> QED BY <1>1, Invariance, PTL

\* wait returns to nobody before everything that was scheduled is done, exceptions and the
\* shutdown included.
THEOREM WaitWaits == Spec => WaitMeansDone
<1>1. IInv /\ [Next]_vars => [EndPhase \/ EndCrash \/ DeleteMap \/ StopPool => Pending = {}]_vars
  BY NothingLeft DEF EndPhase, EndCrash, DeleteMap, StopPool, Passes
<1> QED BY <1>1, Invariance, PTL DEF Spec, WaitMeansDone
=============================================================================
