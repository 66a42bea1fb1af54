-------------------------- MODULE LoginQueue_proofs --------------------------
(***************************************************************************)
(* Who waits and who is held back, how exact the counter of the sessions   *)
(* is and what follows for the limit, for any sessions, accounts, limits.  *)
(***************************************************************************)
EXTENDS LoginQueue, SequenceTheorems, FiniteSetTheorems, TLAPS

-----------------------------------------------------------------------------
(* Sequences without repetitions.                                          *)

LEMMA ElementsType ==
  ASSUME NEW S, NEW T, NEW q \in Seq(S), ToSet(q) \subseteq T
  PROVE  q \in Seq(T)
<1>1. Len(q) \in Nat /\ q \in [1..Len(q) -> S]
  OBVIOUS
<1>2. q \in [1..Len(q) -> T]
  BY <1>1 DEF ToSet
<1> QED BY <1>1, <1>2

LEMMA TypeOfElements ==
  ASSUME NEW S, NEW q \in Seq(S)
  PROVE  ToSet(q) \subseteq S /\ Len(q) \in Nat /\ DOMAIN q = 1..Len(q)
BY DEF ToSet

LEMMA TailFacts ==
  ASSUME NEW S, NEW q \in Seq(S), IsInjective(q), q # <<>>
  PROVE  /\ Tail(q) \in Seq(S) /\ IsInjective(Tail(q))
         /\ Head(q) \in ToSet(q)
         /\ ToSet(Tail(q)) = ToSet(q) \ {Head(q)}
<1>1. /\ Len(q) \in Nat \ {0} /\ Tail(q) \in Seq(S) /\ Len(Tail(q)) = Len(q) - 1
      /\ Head(q) = q[1]
      /\ \A i \in 1..Len(Tail(q)) : Tail(q)[i] = q[i + 1]
  BY EmptySeq, HeadTailProperties
<1>2. DOMAIN q = 1..Len(q) /\ DOMAIN Tail(q) = 1..Len(Tail(q))
  BY <1>1
<1>3. IsInjective(Tail(q))
  BY <1>1, <1>2 DEF IsInjective
<1>4. Head(q) \in ToSet(q)
  BY <1>1, <1>2 DEF ToSet
<1>5. \A i \in DOMAIN Tail(q) : i + 1 \in DOMAIN q /\ i + 1 # 1
  BY <1>1, <1>2
<1>6. \A i \in DOMAIN q : i # 1 => i - 1 \in DOMAIN Tail(q) /\ Tail(q)[i - 1] = q[i]
  BY <1>1, <1>2
<1>7. ToSet(Tail(q)) \subseteq ToSet(q) \ {Head(q)}
  BY <1>1, <1>2, <1>5 DEF ToSet, IsInjective
<1>8. ToSet(q) \ {Head(q)} \subseteq ToSet(Tail(q))
  BY <1>1, <1>6 DEF ToSet
<1> QED BY <1>1, <1>3, <1>4, <1>7, <1>8

LEMMA AppendFacts ==
  ASSUME NEW S, NEW q \in Seq(S), IsInjective(q), NEW e \in S, e \notin ToSet(q)
  PROVE  /\ Append(q, e) \in Seq(S) /\ IsInjective(Append(q, e))
         /\ ToSet(Append(q, e)) = ToSet(q) \cup {e}
<1>1. /\ Append(q, e) \in Seq(S) /\ Len(q) \in Nat
      /\ Len(Append(q, e)) = Len(q) + 1
      /\ \A i \in 1..Len(q) : Append(q, e)[i] = q[i]
      /\ Append(q, e)[Len(q) + 1] = e
  BY AppendProperties
<1>2. DOMAIN q = 1..Len(q) /\ DOMAIN Append(q, e) = 1..Len(q) + 1
  BY <1>1
<1>3. IsInjective(Append(q, e))
  BY <1>1, <1>2 DEF IsInjective, ToSet
<1>4. ToSet(Append(q, e)) = ToSet(q) \cup {e}
  BY <1>1, <1>2 DEF ToSet
<1> QED BY <1>1, <1>3, <1>4

\* Erasing the first occurrence of an element of such a sequence leaves none.
LEMMA RemoveFirstFacts ==
  ASSUME NEW S, NEW q \in Seq(S), IsInjective(q), NEW e
  PROVE  /\ RemoveFirst(q, e) \in Seq(S) /\ IsInjective(RemoveFirst(q, e))
         /\ ToSet(RemoveFirst(q, e)) = ToSet(q) \ {e}
<1>1. Len(q) \in Nat /\ DOMAIN q = 1..Len(q)
  OBVIOUS
<1>2. CASE e \notin ToSet(q)
  <2>1. RemoveFirst(q, e) = q
    BY <1>1, <1>2 DEF RemoveFirst, ToSet
  <2> QED BY <1>2, <2>1
<1>3. CASE e \in ToSet(q)
  <2>1. PICK k \in 1..Len(q) : q[k] = e
    BY <1>1, <1>3 DEF ToSet
  <2>2. {i \in 1..Len(q) : q[i] = e} = {k}
    BY <1>1, <2>1 DEF IsInjective
  <2>3. Min({k}) = k
    BY <2>1 DEF Min
  <2>4. RemoveFirst(q, e) = RemoveAt(q, k)
    BY <2>1, <2>2, <2>3 DEF RemoveFirst, SelectInSeq
  <2> DEFINE r == RemoveAt(q, k)
             at(i) == IF i < k THEN i ELSE i + 1
  <2> DEFINE left == SubSeq(q, 1, k - 1)
             right == SubSeq(q, k + 1, Len(q))
  <2>5. left \in Seq(S) /\ Len(left) = k - 1 /\ \A i \in 1..k - 1 : left[i] = q[i]
    BY <1>1, <2>1, SubSeqProperties
  <2>6. right \in Seq(S) /\ Len(right) = Len(q) - k /\ \A i \in 1..Len(q) - k : right[i] = q[i + k]
    <3>1. k + 1 \in Int /\ Len(q) \in Int /\ \A i \in k + 1..Len(q) : q[i] \in S
      BY <1>1, <2>1
    <3>2. /\ right \in Seq(S)
          /\ Len(right) = IF k + 1 <= Len(q) THEN Len(q) - (k + 1) + 1 ELSE 0
          /\ \A i \in 1..Len(q) - (k + 1) + 1 : right[i] = q[(k + 1) + i - 1]
      BY <3>1, SubSeqProperties
    <3> HIDE DEF right
    <3>3. \A i \in 1..Len(q) - k : (k + 1) + i - 1 = i + k /\ i \in 1..Len(q) - (k + 1) + 1
      BY <1>1, <2>1
    <3>4. \A n \in Nat : \A j \in 1..n : (IF j + 1 <= n THEN n - (j + 1) + 1 ELSE 0) = n - j
      OBVIOUS
    <3>5. Len(right) = Len(q) - k
      BY <1>1, <2>1, <3>2, <3>4
    <3> QED BY <3>2, <3>3, <3>5
  <2> HIDE DEF left, right
  <2>7. r = left \o right
    BY DEF RemoveAt, left, right
  <2> HIDE DEF r
  <2>8. r \in Seq(S) /\ Len(r) = Len(q) - 1
    <3>1. r \in Seq(S) /\ Len(r) = Len(left) + Len(right)
      BY <2>5, <2>6, <2>7, ConcatProperties
    <3> QED BY <1>1, <2>1, <2>5, <2>6, <3>1
  <2>9. \A i \in 1..Len(left) + Len(right) :
           r[i] = IF i <= Len(left) THEN left[i] ELSE right[i - Len(left)]
    BY <2>5, <2>6, <2>7, ConcatProperties
  <2>10. ASSUME NEW i \in 1..Len(q) - 1 PROVE r[i] = q[at(i)]
    <3>0. i \in 1..Len(left) + Len(right) /\ (i <= Len(left) <=> i < k) /\ Len(left) = k - 1
      BY <1>1, <2>1, <2>5, <2>6
    <3>1. CASE i < k
      <4>1. r[i] = left[i] /\ i \in 1..k - 1
        BY <2>1, <2>9, <3>0, <3>1
      <4> QED BY <2>5, <3>1, <4>1
    <3>2. CASE i >= k
      <4>1. r[i] = right[i - (k - 1)]
        BY <2>9, <3>0, <3>2
      <4>2. i - (k - 1) \in 1..Len(q) - k /\ i - (k - 1) + k = i + 1
        BY <1>1, <2>1, <3>2
      <4>3. right[i - (k - 1)] = q[i + 1]
        BY <2>6, <4>2
      <4> QED BY <1>1, <2>1, <3>2, <4>1, <4>3
    <3> QED BY <1>1, <2>1, <3>1, <3>2
  <2>11. /\ DOMAIN r = 1..Len(q) - 1
         /\ \A i \in DOMAIN r : at(i) \in DOMAIN q /\ at(i) # k
         /\ \A i, j \in DOMAIN r : at(i) = at(j) => i = j
    BY <1>1, <2>1, <2>8
  <2>12. IsInjective(r)
    BY <2>10, <2>11 DEF IsInjective
  <2>13. ToSet(r) \subseteq ToSet(q) \ {e}
    BY <1>1, <2>1, <2>10, <2>11 DEF ToSet, IsInjective
  <2>14. ASSUME NEW i \in DOMAIN q, i # k PROVE q[i] \in ToSet(r)
    <3> DEFINE j == IF i < k THEN i ELSE i - 1
    <3>1. j \in DOMAIN r /\ at(j) = i
      BY <1>1, <2>1, <2>11, <2>14
    <3> QED BY <2>10, <2>11, <3>1 DEF ToSet
  <2>15. ToSet(q) \ {e} \subseteq ToSet(r)
    BY <2>1, <2>14 DEF ToSet
  <2> QED BY <2>4, <2>8, <2>12, <2>13, <2>15 DEF r
<1> QED BY <1>2, <1>3

-----------------------------------------------------------------------------
(* The inductive invariant.                                                *)

\* A session is found under its own account.
KeysOK == \A a \in Accounts : sessions[a] # None => Account[sessions[a]] = a

\* The sessions the world thread has not yet inserted.
Arriving == ToSet(addSessQueue) \cup (IF pc = "insert" THEN {current} ELSE {})

\* They are new to the world, each on its way once, and AddSession_ has made room for
\* the one it inserts.
ArrivalsOK ==
    /\ IsInjective(addSessQueue)
    /\ Arriving \cap (InWorld \cup admitted) = {}
    /\ pc = "insert" => current \notin ToSet(addSessQueue) /\ sessions[Account[current]] = None

\* An open session that was admitted is still in the world: it cannot be handed over
\* again.  The one being erased has no socket.
OpenOK ==
    /\ linked \cap admitted \subseteq InWorld
    /\ pc = "erase" => current \in InWorld \ linked

IInv == TypeOK /\ KeysOK /\ ArrivalsOK /\ OpenOK /\ QueueOK /\ HeldBack

LEMMA Constants ==
  /\ None \notin Sessions /\ None \notin Nat
  /\ \A s \in Sessions : Account[s] \in Accounts
BY AccountAssumption, NoneAssumption

LEMMA InitInv == Init => IInv
<1> SUFFICES ASSUME Init PROVE IInv
  OBVIOUS
<1>1. \A S : <<>> \in Seq(S) /\ IsInjective(<<>>) /\ ToSet(<<>>) = {}
  BY DEF IsInjective, ToSet
<1>2. InWorld = {}
  BY Constants DEF Init, InWorld
<1>3. 0 \in 0..Width - 1 /\ 0 \in 0..MaxLost
  BY WidthAssumption, BoundAssumption
<1>4. TypeOK
  BY <1>1, <1>3 DEF Init, TypeOK
<1> QED BY <1>1, <1>2, <1>4
        DEF Init, IInv, KeysOK, ArrivalsOK, Arriving, OpenOK, QueueOK, Queued, HeldBack

\* The sequences of TypeOK, seen as sets.
LEMMA TypeFacts ==
  ASSUME TypeOK
  PROVE  /\ Queued \subseteq alive /\ ToSet(addSessQueue) \subseteq alive
         /\ alive \subseteq Sessions /\ InWorld \subseteq alive /\ current \in alive \cup {None}
         /\ \A a \in Accounts : sessions[a] \in alive \cup {None}
<1>1. /\ Queued \subseteq alive /\ ToSet(addSessQueue) \subseteq alive
      /\ alive \subseteq Sessions /\ current \in alive \cup {None}
      /\ \A a \in Accounts : sessions[a] \in alive \cup {None}
  BY TypeOfElements DEF TypeOK, Queued
<1>2. InWorld \subseteq alive
  BY <1>1, Constants DEF InWorld
<1> QED BY <1>1, <1>2

LEMMA CountType ==
  ASSUME TypeOK, NEW d \in Int, CountBy(d)
  PROVE  sessionCount' \in 0..Width - 1 /\ lost' \in 0..MaxLost
<1>1. Width \in Nat \ {0} /\ sessionCount \in Int /\ lost \in 0..MaxLost
  BY WidthAssumption DEF TypeOK
<1>2. (sessionCount + d) % Width \in 0..Width - 1
  BY <1>1
<1>3. lost < MaxLost => lost + 1 \in 0..MaxLost
  BY <1>1, BoundAssumption
<1> QED BY <1>1, <1>2, <1>3 DEF CountBy, Plus, TypeOK

-----------------------------------------------------------------------------
(* What the calls of the world thread do to the queue and to m_sessions.   *)

\* RemoveQueuedPlayer takes the session out and at most admits some that waited.
LEMMA Removal ==
  ASSUME TypeOK, QueueOK, NEW s, RemoveQueuedPlayer(s)
  PROVE  /\ queue' \in Seq(alive) /\ IsInjective(queue')
         /\ Queued' \subseteq Queued \ {s}
         /\ admitted \subseteq admitted'
         /\ admitted' \ admitted \subseteq Queued \ ({s} \cup Queued')
<1> DEFINE rest == RemoveFirst(queue, s)
<1>1. rest \in Seq(alive) /\ IsInjective(rest) /\ ToSet(rest) = Queued \ {s}
  BY RemoveFirstFacts DEF TypeOK, QueueOK, Queued
<1> HIDE DEF rest
<1>2. CASE queue' = rest /\ UNCHANGED admitted
  BY <1>1, <1>2 DEF Queued
<1>3. CASE rest # <<>> /\ queue' = Tail(rest) /\ admitted' = admitted \cup {Head(rest)}
  <2>1. /\ Tail(rest) \in Seq(alive) /\ IsInjective(Tail(rest)) /\ Head(rest) \in ToSet(rest)
        /\ ToSet(Tail(rest)) = ToSet(rest) \ {Head(rest)}
    BY <1>1, <1>3, TailFacts
  <2> QED BY <1>1, <1>3, <2>1 DEF Queued
<1> QED BY <1>2, <1>3 DEF RemoveQueuedPlayer, rest

LEMMA Insertion ==
  ASSUME TypeOK, KeysOK, NEW s \in alive, sessions[Account[s]] = None,
         sessions' = [sessions EXCEPT ![Account[s]] = s]
  PROVE  /\ sessions' \in [Accounts -> alive \cup {None}] /\ KeysOK'
         /\ InWorld' = InWorld \cup {s}
<1>1. s \in Sessions /\ Account[s] \in Accounts
  BY TypeFacts, Constants
<1>2. \A a \in Accounts : sessions'[a] = IF a = Account[s] THEN s ELSE sessions[a]
  BY DEF TypeOK
<1>3. InWorld' = InWorld \cup {s}
  BY <1>1, <1>2, Constants DEF InWorld
<1> QED BY <1>1, <1>2, <1>3 DEF KeysOK, TypeOK

LEMMA Erasure ==
  ASSUME TypeOK, KeysOK, NEW a \in Accounts, sessions' = [sessions EXCEPT ![a] = None]
  PROVE  /\ sessions' \in [Accounts -> alive \cup {None}] /\ KeysOK'
         /\ sessions'[a] = None /\ InWorld' = InWorld \ {sessions[a]}
<1>1. \A b \in Accounts : sessions'[b] = IF b = a THEN None ELSE sessions[b]
  BY DEF TypeOK
<1>2. InWorld' = InWorld \ {sessions[a]}
  <2> SUFFICES ASSUME NEW t \in Sessions PROVE t \in InWorld' <=> t \in InWorld \ {sessions[a]}
    BY DEF InWorld
  <2>1. CASE Account[t] = a
    BY <1>1, <2>1, Constants DEF InWorld
  <2>2. CASE Account[t] # a
    BY <1>1, <2>2, Constants DEF InWorld, KeysOK
  <2> QED BY <2>1, <2>2
<1> QED BY <1>1, <1>2 DEF KeysOK, TypeOK

-----------------------------------------------------------------------------
(* The steps of other threads.                                             *)

LEMMA AuthenticateInv ==
  ASSUME IInv, NEW s \in Sessions, Authenticate(s)
  PROVE  IInv'
<1> USE DEF Authenticate, queueVars, threadVars
<1>1. TypeOK /\ KeysOK /\ ArrivalsOK /\ OpenOK /\ QueueOK /\ HeldBack
  BY DEF IInv
<1>2. s \notin alive /\ s \notin admitted /\ s \notin InWorld
  BY <1>1, TypeFacts DEF TypeOK
<1>3. addSessQueue \in Seq(alive') /\ queue \in Seq(alive')
  BY <1>1, TypeFacts, ElementsType DEF TypeOK, Queued
<1>4. sessionCount' \in 0..Width - 1 /\ lost' \in 0..MaxLost
  BY <1>1, CountType
<1>5. TypeOK'
  BY <1>1, <1>3, <1>4 DEF TypeOK
<1>6. UNCHANGED <<InWorld, Queued, Arriving>>
  BY DEF InWorld, Queued, Arriving
<1> QED BY <1>1, <1>2, <1>5, <1>6 DEF IInv, KeysOK, ArrivalsOK, OpenOK, QueueOK, HeldBack

LEMMA AckInv ==
  ASSUME IInv, NEW s \in Sessions, EnableEncryptionAck(s)
  PROVE  IInv'
<1> USE DEF EnableEncryptionAck, objectVars, queueVars, threadVars, countVars
<1>1. TypeOK /\ KeysOK /\ ArrivalsOK /\ OpenOK /\ QueueOK /\ HeldBack
  BY DEF IInv
<1>2. s \in alive /\ s \notin ToSet(addSessQueue) /\ s \notin InWorld /\ s # current
      /\ s \notin admitted
  BY <1>1 DEF TypeOK, Handed, OpenOK
<1>3. /\ addSessQueue' \in Seq(alive) /\ IsInjective(addSessQueue')
      /\ ToSet(addSessQueue') = ToSet(addSessQueue) \cup {s}
  BY <1>1, <1>2, AppendFacts DEF TypeOK, ArrivalsOK
<1>4. TypeOK'
  BY <1>1, <1>3 DEF TypeOK
<1>5. UNCHANGED <<InWorld, Queued>> /\ Arriving' = Arriving \cup {s}
  BY <1>3 DEF InWorld, Queued, Arriving
<1> QED BY <1>1, <1>2, <1>3, <1>4, <1>5 DEF IInv, KeysOK, ArrivalsOK, OpenOK, QueueOK, HeldBack

LEMMA CloseInv ==
  ASSUME IInv, NEW s \in Sessions, CloseSocket(s)
  PROVE  IInv'
<1> USE DEF CloseSocket, queueVars, threadVars, countVars
<1>1. TypeOK /\ KeysOK /\ ArrivalsOK /\ OpenOK /\ QueueOK /\ HeldBack
  BY DEF IInv
<1>2. TypeOK'
  BY <1>1 DEF TypeOK
<1>3. UNCHANGED <<InWorld, Queued, Arriving>>
  BY DEF InWorld, Queued, Arriving
<1> QED BY <1>1, <1>2, <1>3 DEF IInv, KeysOK, ArrivalsOK, OpenOK, QueueOK, HeldBack

LEMMA DestroyInv ==
  ASSUME IInv, NEW s \in Sessions, Destroy(s)
  PROVE  IInv'
<1> USE DEF Destroy, threadVars
<1>1. TypeOK /\ KeysOK /\ ArrivalsOK /\ OpenOK /\ QueueOK /\ HeldBack
  BY DEF IInv
<1>2. s \notin ToSet(addSessQueue) /\ s \notin InWorld /\ s # current /\ s \notin Queued /\ s \notin linked
  BY DEF Handed
<1>3. addSessQueue \in Seq(alive') /\ queue \in Seq(alive')
  BY <1>1, <1>2, TypeFacts, ElementsType DEF TypeOK, Queued
<1>4. \A a \in Accounts : sessions[a] # s
  BY <1>1, <1>2, Constants DEF KeysOK, InWorld
<1>5. sessions \in [Accounts -> alive' \cup {None}]
  BY <1>1, <1>4 DEF TypeOK
<1>6. sessionCount' \in 0..Width - 1 /\ lost' \in 0..MaxLost
  <2>1. -1 \in Int
    OBVIOUS
  <2> QED BY <1>1, <2>1, CountType
<1>7. current' \in alive' \cup {None}
  BY <1>1, <1>2 DEF TypeOK
<1>8. TypeOK'
  BY <1>1, <1>2, <1>3, <1>5, <1>6, <1>7 DEF TypeOK
<1>9. UNCHANGED <<InWorld, Queued, Arriving>>
  BY DEF InWorld, Queued, Arriving
<1> QED BY <1>1, <1>2, <1>8, <1>9 DEF IInv, KeysOK, ArrivalsOK, OpenOK, QueueOK, HeldBack

-----------------------------------------------------------------------------
(* The steps of the world thread.                                          *)

LEMMA StartAddingInv ==
  ASSUME IInv, NEW s \in Sessions, StartAdding(s)
  PROVE  IInv'
<1> DEFINE old == sessions[Account[s]]
<1> USE DEF StartAdding, countVars
<1>1. TypeOK /\ KeysOK /\ ArrivalsOK /\ OpenOK /\ QueueOK /\ HeldBack /\ Account[s] \in Accounts
  BY Constants DEF IInv
<1>2. /\ s \in ToSet(addSessQueue) /\ addSessQueue' \in Seq(alive) /\ IsInjective(addSessQueue')
      /\ ToSet(addSessQueue') = ToSet(addSessQueue) \ {s}
  BY <1>1, TailFacts DEF TypeOK, ArrivalsOK
<1>3. /\ s \in alive /\ s \notin InWorld /\ s \notin admitted /\ s # None
      /\ Arriving' \subseteq Arriving /\ old \in alive \cup {None}
  BY <1>1, <1>2, TypeFacts, Constants DEF ArrivalsOK, Arriving
<1>4. /\ sessions' \in [Accounts -> alive \cup {None}] /\ KeysOK'
      /\ sessions'[Account[s]] = None /\ InWorld' = InWorld \ {old}
  BY <1>1, Erasure
<1>5. /\ queue' \in Seq(alive) /\ IsInjective(queue')
      /\ Queued' \subseteq Queued \ {old}
      /\ admitted \subseteq admitted'
      /\ admitted' \ admitted \subseteq Queued \ ({old} \cup Queued')
  <2>1. CASE old = None
    <3>1. UNCHANGED <<queue, admitted, Queued>> /\ None \notin Queued
      BY <1>1, <2>1, TypeFacts, Constants DEF Queued
    <3> QED BY <1>1, <2>1, <3>1 DEF TypeOK, QueueOK
  <2>2. CASE old # None
    BY <1>1, <2>2, Removal
  <2> QED BY <2>1, <2>2
<1>6. Queued \subseteq InWorld \ admitted /\ Queued \subseteq alive
  BY <1>1, TypeFacts DEF QueueOK
<1>7. /\ pc' = "insert" /\ current' = s /\ linked' = linked \ {old}
      /\ inQueue' = inQueue \ ({old} \cap Queued) /\ decrease' \in BOOLEAN
      /\ UNCHANGED <<used, alive, staff, initialised, limit, sessionCount, lost, disconnects>>
  OBVIOUS
<1> HIDE DEF StartAdding, old
<1>8. TypeOK'
  BY <1>1, <1>2, <1>3, <1>4, <1>5, <1>6, <1>7 DEF TypeOK
<1>9. ArrivalsOK'
  BY <1>1, <1>2, <1>3, <1>4, <1>5, <1>6, <1>7 DEF ArrivalsOK
<1>10. OpenOK' /\ QueueOK' /\ HeldBack'
  BY <1>1, <1>4, <1>5, <1>6, <1>7 DEF OpenOK, QueueOK, HeldBack
<1> QED BY <1>4, <1>8, <1>9, <1>10 DEF IInv

LEMMA FinishAddingInv ==
  ASSUME IInv, FinishAdding
  PROVE  IInv'
<1> USE DEF FinishAdding, objectVars, countVars
<1>1. TypeOK /\ KeysOK /\ ArrivalsOK /\ OpenOK /\ QueueOK /\ HeldBack
  BY DEF IInv
<1>2. /\ current \in alive /\ sessions[Account[current]] = None
      /\ current \notin ToSet(addSessQueue) /\ current \notin admitted
  BY <1>1 DEF TypeOK, ArrivalsOK, Arriving
<1>3. /\ sessions' \in [Accounts -> alive \cup {None}] /\ KeysOK'
      /\ InWorld' = InWorld \cup {current}
  BY <1>1, <1>2, Insertion
<1>4. current \notin InWorld /\ current \notin Queued
  BY <1>1, <1>2, TypeFacts, Constants DEF InWorld, QueueOK
<1>5. ToSet(addSessQueue) \cap (InWorld \cup admitted) = {} /\ Arriving' = ToSet(addSessQueue)
  BY <1>1 DEF ArrivalsOK, Arriving
<1>6. CASE AddQueuedPlayer(current)
  <2> USE <1>6 DEF AddQueuedPlayer
  <2>1. queue' \in Seq(alive) /\ IsInjective(queue') /\ Queued' = Queued \cup {current}
    BY <1>1, <1>2, <1>4, AppendFacts DEF TypeOK, QueueOK, Queued
  <2>2. TypeOK'
    BY <1>1, <1>2, <1>3, <2>1 DEF TypeOK
  <2> QED BY <1>1, <1>2, <1>3, <1>4, <1>5, <2>1, <2>2
          DEF IInv, ArrivalsOK, OpenOK, QueueOK, HeldBack
<1>7. CASE InitializeSession(current)
  <2> USE <1>7 DEF InitializeSession
  <2>1. UNCHANGED Queued
    BY DEF Queued
  <2>2. TypeOK'
    BY <1>1, <1>2, <1>3 DEF TypeOK
  <2> QED BY <1>1, <1>2, <1>3, <1>4, <1>5, <2>1, <2>2
          DEF IInv, ArrivalsOK, OpenOK, QueueOK, HeldBack
<1> QED BY <1>6, <1>7

LEMMA CallbackInv ==
  ASSUME IInv, NEW s \in Sessions, InitializeSessionCallback(s)
  PROVE  IInv'
<1> USE DEF InitializeSessionCallback, objectVars, threadVars, countVars
<1>1. TypeOK /\ KeysOK /\ ArrivalsOK /\ OpenOK /\ QueueOK /\ HeldBack
  BY DEF IInv
<1>2. TypeOK'
  BY <1>1 DEF TypeOK
<1>3. UNCHANGED <<InWorld, Queued, Arriving>>
  BY DEF InWorld, Queued, Arriving
<1> QED BY <1>1, <1>2, <1>3 DEF IInv, KeysOK, ArrivalsOK, OpenOK, QueueOK, HeldBack

LEMMA StartErasingInv ==
  ASSUME IInv, NEW s \in Sessions, StartErasing(s)
  PROVE  IInv'
<1> USE DEF StartErasing, objectVars, countVars
<1>1. TypeOK /\ KeysOK /\ ArrivalsOK /\ OpenOK /\ QueueOK /\ HeldBack /\ Account[s] \in Accounts
  BY Constants DEF IInv
<1>2. /\ queue' \in Seq(alive) /\ IsInjective(queue')
      /\ Queued' \subseteq Queued \ {s}
      /\ admitted \subseteq admitted'
      /\ admitted' \ admitted \subseteq Queued \ ({s} \cup Queued')
  BY <1>1, Removal
<1>3. Queued \subseteq InWorld \ admitted /\ Queued \subseteq alive /\ s \in alive /\ s # None
  BY <1>1, TypeFacts, Constants DEF QueueOK
<1>4. UNCHANGED InWorld /\ Arriving' \subseteq Arriving
  BY DEF InWorld, Arriving
<1>5. disconnects' \subseteq Accounts
  BY <1>1 DEF TypeOK
<1>6. /\ pc' = "erase" /\ current' = s /\ s \in InWorld \ linked
      /\ inQueue' = inQueue \ ({s} \cap Queued)
      /\ UNCHANGED <<used, alive, staff, linked, addSessQueue, sessions, initialised, decrease,
                     limit, sessionCount, lost>>
  OBVIOUS
<1> HIDE DEF StartErasing
<1>7. TypeOK'
  BY <1>1, <1>2, <1>3, <1>5, <1>6 DEF TypeOK
<1>8. ArrivalsOK'
  BY <1>1, <1>2, <1>3, <1>4, <1>6 DEF ArrivalsOK
<1>9. OpenOK' /\ QueueOK' /\ HeldBack' /\ KeysOK'
  BY <1>1, <1>2, <1>3, <1>4, <1>6 DEF OpenOK, QueueOK, HeldBack, KeysOK
<1> QED BY <1>7, <1>8, <1>9 DEF IInv

LEMMA FinishErasingInv ==
  ASSUME IInv, FinishErasing
  PROVE  IInv'
<1> USE DEF FinishErasing, objectVars, countVars
<1>1. TypeOK /\ KeysOK /\ ArrivalsOK /\ OpenOK /\ QueueOK /\ HeldBack
  BY DEF IInv
<1>2. /\ current \in alive /\ current \in Sessions /\ current \in InWorld \ linked
      /\ Account[current] \in Accounts /\ sessions[Account[current]] = current
  BY <1>1, TypeFacts, Constants DEF OpenOK, InWorld
<1>3. /\ sessions' \in [Accounts -> alive \cup {None}] /\ KeysOK' /\ InWorld' = InWorld \ {current}
  BY <1>1, <1>2, Erasure
<1>4. /\ queue' \in Seq(alive) /\ IsInjective(queue')
      /\ Queued' \subseteq Queued \ {current}
      /\ admitted \subseteq admitted'
      /\ admitted' \ admitted \subseteq Queued \ ({current} \cup Queued')
  BY <1>1, Removal
<1>5. Queued \subseteq InWorld \ admitted /\ Queued \subseteq alive
  BY <1>1, TypeFacts DEF QueueOK
<1>6. Arriving' \subseteq Arriving
  BY DEF Arriving
<1>7. /\ pc' = "idle" /\ current' = None
      /\ inQueue' = inQueue \ ({current} \cap Queued)
      /\ UNCHANGED <<used, alive, staff, linked, addSessQueue, initialised, decrease, limit,
                     sessionCount, lost, disconnects>>
  OBVIOUS
<1> HIDE DEF FinishErasing
<1>8. TypeOK'
  BY <1>1, <1>3, <1>4, <1>5, <1>7 DEF TypeOK
<1>9. ArrivalsOK'
  BY <1>1, <1>3, <1>4, <1>5, <1>6, <1>7 DEF ArrivalsOK
<1>10. OpenOK' /\ QueueOK' /\ HeldBack'
  BY <1>1, <1>2, <1>3, <1>4, <1>5, <1>7 DEF OpenOK, QueueOK, HeldBack
<1> QED BY <1>3, <1>8, <1>9, <1>10 DEF IInv

LEMMA KickAllInv ==
  ASSUME IInv, KickAll
  PROVE  IInv'
<1> USE DEF KickAll, threadVars, countVars
<1>1. TypeOK /\ KeysOK /\ ArrivalsOK /\ OpenOK /\ QueueOK /\ HeldBack
  BY DEF IInv
<1>2. <<>> \in Seq(alive) /\ IsInjective(<<>>) /\ Queued' = {}
  BY DEF IsInjective, Queued, ToSet
<1>3. TypeOK'
  BY <1>1, <1>2 DEF TypeOK
<1>4. UNCHANGED <<InWorld, Arriving>>
  BY DEF InWorld, Arriving
<1> QED BY <1>1, <1>2, <1>3, <1>4 DEF IInv, KeysOK, ArrivalsOK, OpenOK, QueueOK, HeldBack

LEMMA StepInv == IInv /\ [Next]_vars => IInv'
<1> SUFFICES ASSUME IInv, [Next]_vars PROVE IInv'
  OBVIOUS
<1>1. ASSUME NEW n \in Limits, SetPlayerAmountLimit(n) PROVE IInv'
  BY <1>1 DEF SetPlayerAmountLimit, IInv, TypeOK, KeysOK, ArrivalsOK, OpenOK, QueueOK, HeldBack,
     InWorld, Queued, Arriving, objectVars, queueVars, threadVars, countVars
<1>2. CASE UNCHANGED vars
  BY <1>2 DEF vars, IInv, TypeOK, KeysOK, ArrivalsOK, OpenOK, QueueOK, HeldBack,
     InWorld, Queued, Arriving, objectVars, queueVars, threadVars, countVars
<1> QED
  BY <1>1, <1>2, AuthenticateInv, AckInv, CloseInv, DestroyInv, StartAddingInv, FinishAddingInv,
     CallbackInv, StartErasingInv, FinishErasingInv, KickAllInv DEF Next

-----------------------------------------------------------------------------
(* The theorems.                                                           *)

LEMMA Inductive == Spec => []IInv
BY InitInv, StepInv, PTL DEF Spec

\* The types of the model of the login queue are preserved, for all constants.
THEOREM LoginTypeCorrect == Spec => []TypeOK
<1>1. IInv => TypeOK
  BY DEF IInv
<1> QED BY <1>1, Inductive, PTL

\* Whoever waits is in the world, waits once and has not been admitted.
THEOREM QueueCorrect == Spec => []QueueOK
<1>1. IInv => QueueOK
  BY DEF IInv
<1> QED BY <1>1, Inductive, PTL

\* No client that was not admitted can use the commands of the character screen.
THEOREM HeldBackCorrect == Spec => []HeldBack
<1>1. IInv => HeldBack
  BY DEF IInv
<1> QED BY <1>1, Inductive, PTL

-----------------------------------------------------------------------------
(* The counter of the sessions, and the limit.                             *)

\* m_sessionCount is, in its width, a number that differs from the number of objects by
\* at most the updates that got lost, and that exceeds the sessions of all time never.
CountOK ==
    \E c, k \in Int : /\ sessionCount = c - Width * k
                      /\ c <= Cardinality(used)
                      /\ Cardinality(alive) - lost <= c /\ c <= Cardinality(alive) + lost

LEMMA Finite ==
  ASSUME NEW S \in SUBSET Sessions
  PROVE  IsFiniteSet(S) /\ Cardinality(S) \in Nat /\ Cardinality(S) < Width
<1>1. /\ IsFiniteSet(Sessions) /\ Cardinality(Sessions) < Width /\ Width \in Nat
      /\ IsFiniteSet(S) /\ Cardinality(S) <= Cardinality(Sessions)
  BY WidthAssumption, FS_Subset
<1>2. Cardinality(S) \in Nat /\ Cardinality(Sessions) \in Nat
  BY <1>1, FS_CardinalityType
<1> QED BY <1>1, <1>2

\* One more or one less, and the step over the end of the width.
LEMMA PlusWraps ==
  ASSUME NEW W \in Nat \ {0}, NEW n \in 0..W - 1
  PROVE  /\ (n + 1) % W = IF n = W - 1 THEN 0 ELSE n + 1
         /\ (n + -1) % W = IF n = 0 THEN W - 1 ELSE n - 1
<1>1. ASSUME NEW m \in 0..W - 1 PROVE m % W = m
  BY <1>1
<1>2. W % W = 0
  OBVIOUS
<1>3. (-1) % W = W - 1
  OBVIOUS
<1>4. CASE n = W - 1
  BY <1>1, <1>2, <1>4
<1>5. CASE n # W - 1
  BY <1>1, <1>5
<1>6. CASE n = 0
  BY <1>3, <1>6
<1>7. CASE n # 0
  <2>1. n - 1 \in 0..W - 1 /\ n + -1 = n - 1
    BY <1>7
  <2> QED BY <1>1, <1>7, <2>1
<1> QED BY <1>4, <1>5, <1>6, <1>7

\* A number that follows the counter can be found again after it was changed.
LEMMA PlusFollows ==
  ASSUME NEW W \in Nat \ {0}, NEW n \in 0..W - 1, NEW c \in Int, NEW k \in Int, n = c - W * k
  PROVE  /\ \E j \in Int : (n + 1) % W = (c + 1) - W * j
         /\ \E j \in Int : (n + -1) % W = (c - 1) - W * j
<1>1. PICK up \in Int : W * up = W * k + W
  <2>1. W * (k + 1) = W * k + W
    OBVIOUS
  <2> WITNESS k + 1 \in Int
  <2> QED BY <2>1
<1>2. PICK down \in Int : W * down = W * k - W
  <2>1. W * (k - 1) = W * k - W
    OBVIOUS
  <2> WITNESS k - 1 \in Int
  <2> QED BY <2>1
<1>3. W * k \in Int
  OBVIOUS
<1>4. (n + 1) % W \in {(c + 1) - W * up, (c + 1) - W * k}
  BY <1>1, <1>3, PlusWraps
<1>5. (n + -1) % W \in {(c - 1) - W * down, (c - 1) - W * k}
  BY <1>2, <1>3, PlusWraps
<1> QED BY <1>4, <1>5

LEMMA CountNext ==
  ASSUME IInv, CountOK, [Next]_vars
  PROVE  CountOK'
<1>1. TypeOK /\ TypeOK'
  BY StepInv DEF IInv
<1>2. /\ alive \in SUBSET Sessions /\ used \in SUBSET Sessions
      /\ Width \in Nat \ {0} /\ lost \in Nat /\ sessionCount \in 0..Width - 1
  BY <1>1, WidthAssumption, BoundAssumption DEF TypeOK
<1>3. PICK c \in Int, k \in Int :
          /\ sessionCount = c - Width * k
          /\ c <= Cardinality(used)
          /\ Cardinality(alive) - lost <= c /\ c <= Cardinality(alive) + lost
  BY DEF CountOK
<1>4. Cardinality(alive) \in Nat /\ Cardinality(used) \in Nat
  BY <1>2, Finite
<1>5. ASSUME NEW s \in Sessions, Authenticate(s) PROVE CountOK'
  <2>1. Cardinality(used') = Cardinality(used) + 1 /\ Cardinality(alive') = Cardinality(alive) + 1
    BY <1>1, <1>2, <1>5, Finite, FS_AddElement DEF Authenticate, TypeOK
  <2>2. CASE sessionCount' = Plus(sessionCount, 1) /\ UNCHANGED lost
    <3>1. PICK j \in Int : (sessionCount + 1) % Width = (c + 1) - Width * j
      BY <1>2, <1>3, PlusFollows
    <3>2. /\ sessionCount' = (c + 1) - Width * j
          /\ c + 1 <= Cardinality(used')
          /\ Cardinality(alive') - lost' <= c + 1 /\ c + 1 <= Cardinality(alive') + lost'
      BY <1>2, <1>3, <1>4, <2>1, <2>2, <3>1 DEF Plus
    <3>3. c + 1 \in Int
      OBVIOUS
    <3> QED BY <3>2, <3>3 DEF CountOK
  <2>3. CASE lost' = lost + 1 /\ UNCHANGED sessionCount
    <3>1. /\ sessionCount' = c - Width * k
          /\ c <= Cardinality(used')
          /\ Cardinality(alive') - lost' <= c /\ c <= Cardinality(alive') + lost'
      BY <1>2, <1>3, <1>4, <2>1, <2>3
    <3> QED BY <3>1 DEF CountOK
  <2> QED BY <1>5, <2>2, <2>3 DEF Authenticate, CountBy
<1>6. ASSUME NEW s \in Sessions, Destroy(s) PROVE CountOK'
  <2>1. Cardinality(used') = Cardinality(used) /\ Cardinality(alive') = Cardinality(alive) - 1
    BY <1>1, <1>2, <1>6, Finite, FS_RemoveElement DEF Destroy, TypeOK
  <2>2. CASE sessionCount' = Plus(sessionCount, -1) /\ UNCHANGED lost
    <3>1. PICK j \in Int : (sessionCount + -1) % Width = (c - 1) - Width * j
      BY <1>2, <1>3, PlusFollows
    <3>2. /\ sessionCount' = (c - 1) - Width * j
          /\ c - 1 <= Cardinality(used')
          /\ Cardinality(alive') - lost' <= c - 1 /\ c - 1 <= Cardinality(alive') + lost'
      BY <1>2, <1>3, <1>4, <2>1, <2>2, <3>1 DEF Plus
    <3>3. c - 1 \in Int
      OBVIOUS
    <3> QED BY <3>2, <3>3 DEF CountOK
  <2>3. CASE lost' = lost + 1 /\ UNCHANGED sessionCount
    <3>1. /\ sessionCount' = c - Width * k
          /\ c <= Cardinality(used')
          /\ Cardinality(alive') - lost' <= c /\ c <= Cardinality(alive') + lost'
      BY <1>2, <1>3, <1>4, <2>1, <2>3
    <3> QED BY <3>1 DEF CountOK
  <2> QED BY <1>6, <2>2, <2>3 DEF Destroy, CountBy
<1>7. CASE UNCHANGED <<used, alive, countVars>>
  BY <1>7 DEF CountOK, countVars
<1>8. (\A s \in Sessions : ~Authenticate(s) /\ ~Destroy(s)) => UNCHANGED <<used, alive, countVars>>
  BY DEF Next, EnableEncryptionAck, CloseSocket, StartAdding, InitializeSessionCallback,
         StartErasing, FinishAdding, FinishErasing, KickAll, SetPlayerAmountLimit,
         vars, objectVars, countVars
<1> QED BY <1>5, <1>6, <1>7, <1>8

LEMMA CountInit == Init => CountOK
<1> SUFFICES ASSUME Init PROVE CountOK
  OBVIOUS
<1>1. 0 = 0 - Width * 0 /\ Cardinality({}) = 0
  BY WidthAssumption, FS_EmptySet
<1> QED BY <1>1 DEF Init, CountOK

\* What a reader of the counter learns of the objects.
LEMMA CountBounds ==
  ASSUME TypeOK, CountOK
  PROVE  /\ Cardinality(alive) - lost <= sessionCount
         /\ lost = 0 => sessionCount = Cardinality(alive)
<1>1. /\ alive \in SUBSET Sessions /\ used \in SUBSET Sessions
      /\ Width \in Nat \ {0} /\ lost \in Nat
  BY WidthAssumption, BoundAssumption DEF TypeOK
<1>2. PICK c \in Int, k \in Int :
          /\ sessionCount = c - Width * k
          /\ c <= Cardinality(used)
          /\ Cardinality(alive) - lost <= c /\ c <= Cardinality(alive) + lost
  BY DEF CountOK
<1>3. Cardinality(alive) \in Nat /\ Cardinality(used) \in Nat /\ Cardinality(used) < Width
  BY <1>1, Finite
<1>4. c < Width
  BY <1>1, <1>2, <1>3
<1>5. sessionCount \in 0..Width - 1
  BY DEF TypeOK
<1>6. sessionCount >= c /\ (c >= 0 => sessionCount = c)
  <2>1. CASE c < 0
    BY <1>1, <1>5, <2>1
  <2>2. CASE c >= 0
    <3>1. /\ k >= 1 => Width * k >= Width
          /\ k <= -1 => Width * k <= -Width
          /\ k = 0 => Width * k = 0
          /\ Width * k \in Int
      BY <1>1
    <3>2. ~(k >= 1) /\ ~(k <= -1)
      BY <1>1, <1>2, <1>4, <1>5, <2>2, <3>1
    <3> QED BY <1>1, <1>2, <3>1, <3>2
  <2> QED BY <2>1, <2>2
<1> QED BY <1>1, <1>2, <1>3, <1>5, <1>6

LEMMA InjectiveLength ==
  ASSUME NEW S, NEW q \in Seq(S), IsInjective(q)
  PROVE  IsFiniteSet(ToSet(q)) /\ Cardinality(ToSet(q)) = Len(q) /\ Len(q) \in Nat
<1>1. Len(q) \in Nat /\ q \in [1..Len(q) -> S] /\ IsInjective(q)
  OBVIOUS
<1>2. ToSet(q) = {q[i] : i \in 1..Len(q)}
  BY <1>1 DEF ToSet
<1>3. q \in Bijection(1..Len(q), ToSet(q))
  BY <1>1, <1>2 DEF Bijection, Injection, Surjection, IsInjective
<1>4. IsFiniteSet(1..Len(q)) /\ Cardinality(1..Len(q)) = Len(q)
  BY <1>1, FS_Interval
<1> QED BY <1>1, <1>3, <1>4, FS_Bijection DEF ExistsBijection

LEMMA QueueCount ==
  ASSUME TypeOK, QueueOK
  PROVE  IsFiniteSet(Queued) /\ Cardinality(Queued) = Len(queue) /\ Len(queue) \in Nat
BY InjectiveLength DEF TypeOK, QueueOK, Queued

\* Those of a set who are neither waiting nor leaving, and one more.
LEMMA Others ==
  ASSUME TypeOK, QueueOK, NEW s \in alive, NEW P, NEW h,
         P \subseteq ((alive \ Queued) \ {s}) \cup {h}
  PROVE  /\ Cardinality(P) \in Int
         /\ s \in Queued => Cardinality(P) <= Cardinality(alive) - Len(queue) + 1
         /\ s \notin Queued => Cardinality(P) <= Cardinality(alive) - Len(queue)
<1> DEFINE A == alive \ Queued
<1>1. alive \in SUBSET Sessions /\ Queued \subseteq alive
  BY TypeFacts DEF TypeOK
<1>2. IsFiniteSet(alive) /\ IsFiniteSet(Queued) /\ IsFiniteSet(A)
      /\ Cardinality(alive) \in Nat /\ Cardinality(Queued) \in Nat /\ Cardinality(A) \in Nat
  BY <1>1, Finite
<1>3. Cardinality(A) = Cardinality(alive) - Len(queue)
  <2>1. A \cup Queued = alive /\ A \cap Queued = {}
    BY <1>1
  <2>2. Cardinality(alive) = Cardinality(A) + Cardinality(Queued) - Cardinality(A \cap Queued)
    BY <1>2, <2>1, FS_Union
  <2>3. Cardinality(A \cap Queued) = 0
    BY <2>1, FS_EmptySet
  <2>4. Cardinality(Queued) = Len(queue)
    BY QueueCount
  <2> HIDE DEF A
  <2> QED BY <1>2, <2>2, <2>3, <2>4
<1>4. /\ IsFiniteSet(A \ {s})
      /\ Cardinality(A \ {s}) = IF s \in A THEN Cardinality(A) - 1 ELSE Cardinality(A)
  BY <1>2, FS_RemoveElement
<1>5. /\ IsFiniteSet((A \ {s}) \cup {h})
      /\ Cardinality((A \ {s}) \cup {h}) \in Nat
      /\ Cardinality((A \ {s}) \cup {h}) <= Cardinality(A \ {s}) + 1
  <2> DEFINE B == A \ {s}
  <2> HIDE DEF A, B
  <2>1. IsFiniteSet(B)
    BY <1>4 DEF B
  <2>2. /\ IsFiniteSet(B \cup {h})
        /\ Cardinality(B \cup {h}) = IF h \in B THEN Cardinality(B) ELSE Cardinality(B) + 1
    BY <2>1, FS_AddElement
  <2>3. Cardinality(B) \in Nat /\ Cardinality(B \cup {h}) \in Nat
    BY <2>1, <2>2, FS_CardinalityType
  <2> QED BY <2>2, <2>3 DEF B
<1>6. IsFiniteSet(P) /\ Cardinality(P) <= Cardinality((A \ {s}) \cup {h}) /\ Cardinality(P) \in Nat
  BY <1>5, FS_Subset, FS_CardinalityType
<1>7. s \in A <=> s \notin Queued
  OBVIOUS
<1> HIDE DEF A
<1> QED BY <1>2, <1>3, <1>4, <1>5, <1>6, <1>7, QueueCount

\* Whom RemoveQueuedPlayer admits has a place, if the one it removes leaves the world.
LEMMA RemovalRespects ==
  ASSUME IInv, CountOK, NEW s \in alive, RemoveQueuedPlayer(s), limit > 0,
         admitted' # admitted, Players' \subseteq alive \ {s}, Players' \subseteq admitted'
  PROVE  Cardinality(Players') <= limit + lost
<1>1. TypeOK /\ QueueOK
  BY DEF IInv
<1>2. PICK count \in ActiveSessionCounts :
          LET others == IF s \notin Queued /\ count > 0 THEN count - 1 ELSE count
          IN  /\ others < limit
              /\ admitted' = admitted \cup {Head(RemoveFirst(queue, s))}
  BY DEF RemoveQueuedPlayer
<1> DEFINE h == Head(RemoveFirst(queue, s))
<1>3. Players' \subseteq ((alive \ Queued) \ {s}) \cup {h}
  BY <1>1, <1>2 DEF QueueOK
<1> HIDE DEF h
<1>4. /\ limit \in Nat /\ lost \in Nat /\ Width \in Nat \ {0} /\ sessionCount \in Nat
      /\ Len(queue) \in Nat /\ Cardinality(alive) \in Nat
  <2>1. Cardinality(alive) \in Nat
    BY <1>1, Finite DEF TypeOK
  <2> QED BY <1>1, <2>1, QueueCount, WidthAssumption, BoundAssumption, LimitAssumption DEF TypeOK
<1>5. Cardinality(alive) - lost <= sessionCount
  BY <1>1, CountBounds
<1>6. /\ Cardinality(Players') \in Int
      /\ s \in Queued => Cardinality(Players') <= Cardinality(alive) - Len(queue) + 1
      /\ s \notin Queued => Cardinality(Players') <= Cardinality(alive) - Len(queue)
  <2> DEFINE P == Players'
  <2> HIDE DEF P
  <2>1. P \subseteq ((alive \ Queued) \ {s}) \cup {h}
    BY <1>3 DEF P
  <2>2. /\ Cardinality(P) \in Int
        /\ s \in Queued => Cardinality(P) <= Cardinality(alive) - Len(queue) + 1
        /\ s \notin Queued => Cardinality(P) <= Cardinality(alive) - Len(queue)
    BY <1>1, <2>1, Others
  <2> QED BY <2>2 DEF P
<1>7. CASE sessionCount >= Len(queue)
  <2>1. count = sessionCount - Len(queue)
    BY <1>7 DEF ActiveSessionCounts
  <2>2. CASE s \in Queued
    BY <1>2, <1>4, <1>5, <1>6, <2>1, <2>2
  <2>3. CASE s \notin Queued
    BY <1>2, <1>4, <1>5, <1>6, <2>1, <2>3
  <2> QED BY <2>2, <2>3
<1>8. CASE ~(sessionCount >= Len(queue))
  BY <1>4, <1>5, <1>6, <1>8
<1> QED BY <1>7, <1>8

LEMMA LimitStep ==
  ASSUME IInv, CountOK, [Next]_vars, NEW s \in admitted' \ admitted,
         IsPlayerAccount(s), limit > 0, ~HasRecentlyDisconnected(s)
  PROVE  Cardinality(Players') <= limit + lost
<1>1. TypeOK /\ QueueOK /\ KeysOK /\ ArrivalsOK /\ OpenOK
  BY DEF IInv
<1>2. IInv' /\ TypeOK'
  BY StepInv DEF IInv
<1>3. Players' \subseteq alive' /\ Players' \subseteq admitted'
  BY <1>2 DEF TypeOK, Players
<1>4. admitted' # admitted
  OBVIOUS
<1>5. ASSUME NEW t \in Sessions, StartAdding(t) PROVE Cardinality(Players') <= limit + lost
  <2> DEFINE old == sessions[Account[t]]
  <2>1. old # None /\ RemoveQueuedPlayer(old) /\ alive' = alive
        /\ sessions' = [sessions EXCEPT ![Account[t]] = None]
    BY <1>4, <1>5 DEF StartAdding
  <2>2. old \in alive /\ InWorld' = InWorld \ {old}
    BY <1>1, <2>1, TypeFacts, Erasure, Constants
  <2> HIDE DEF old
  <2>3. Players' \subseteq alive \ {old}
    BY <1>3, <2>1, <2>2 DEF Players
  <2> QED BY <1>3, <1>4, <2>1, <2>2, <2>3, RemovalRespects
<1>6. ASSUME NEW t \in Sessions, StartErasing(t) PROVE Cardinality(Players') <= limit + lost
  <2>1. RemoveQueuedPlayer(t) /\ alive' = alive /\ current' = t /\ t \in InWorld
    BY <1>6 DEF StartErasing, objectVars
  <2>2. t \in alive /\ Players' \subseteq alive \ {t}
    BY <1>1, <1>3, <2>1, TypeFacts DEF Players
  <2> QED BY <1>3, <1>4, <2>1, <2>2, RemovalRespects
<1>7. CASE FinishErasing
  <2>1. RemoveQueuedPlayer(current) /\ alive' = alive /\ pc = "erase"
        /\ sessions' = [sessions EXCEPT ![Account[current]] = None]
    BY <1>7 DEF FinishErasing, objectVars
  <2>2. current \in alive /\ current \in InWorld
    BY <1>1, <2>1, TypeFacts DEF OpenOK
  <2>3. Account[current] \in Accounts /\ sessions[Account[current]] = current
    BY <1>1, <2>2, TypeFacts, Constants DEF InWorld
  <2>4. InWorld' = InWorld \ {current}
    BY <1>1, <2>1, <2>3, Erasure
  <2>5. Players' \subseteq alive \ {current}
    BY <1>3, <2>1, <2>4 DEF Players
  <2> QED BY <1>3, <1>4, <2>1, <2>2, <2>5, RemovalRespects
<1>8. CASE FinishAdding
  <2>1. pc = "insert" /\ alive' = alive /\ ~(ServerIsFull /\ IsPlayerAccount(current)
        /\ ~HasRecentlyDisconnected(current)) /\ admitted' = admitted \cup {current}
    BY <1>4, <1>8 DEF FinishAdding, objectVars, AddQueuedPlayer, InitializeSession
  <2>2. s = current /\ ~ServerIsFull
    BY <2>1
  <2>3. (IF decrease THEN (sessionCount + -1) % Width ELSE sessionCount) < limit
    <3>1. /\ limit \in Nat /\ sessionCount \in Int /\ Width \in Nat \ {0}
          /\ (sessionCount + -1) % Width \in Int
      BY <1>1, LimitAssumption, WidthAssumption DEF TypeOK
    <3> QED BY <2>2, <3>1 DEF ServerIsFull, Plus
  <2>4. /\ alive \in SUBSET Sessions /\ limit \in Nat /\ lost \in Nat
        /\ Width \in Nat \ {0} /\ sessionCount \in 0..Width - 1
    BY <1>1, LimitAssumption, WidthAssumption, BoundAssumption DEF TypeOK
  <2>5. /\ IsFiniteSet(alive) /\ Cardinality(alive) \in Nat /\ Cardinality(alive) < Width
    BY <2>4, Finite
  <2>6. Cardinality(Players') \in Nat /\ Cardinality(Players') <= Cardinality(alive)
    <3> DEFINE P == Players'
    <3>1. P \in SUBSET alive
      BY <1>3, <2>1
    <3> HIDE DEF P
    <3>2. IsFiniteSet(P) /\ Cardinality(P) <= Cardinality(alive)
      BY <2>5, <3>1, FS_Subset
    <3>3. Cardinality(P) \in Nat
      BY <3>2, FS_CardinalityType
    <3> QED BY <3>2, <3>3 DEF P
  <2>7. Cardinality(alive) - lost <= sessionCount
    BY <1>1, CountBounds
  <2>8. CASE ~decrease
    BY <2>3, <2>4, <2>5, <2>6, <2>7, <2>8
  <2>9. CASE decrease /\ sessionCount > 0
    <3>1. (sessionCount + -1) % Width = sessionCount - 1
      BY <2>4, <2>9
    <3> QED BY <2>3, <2>4, <2>5, <2>6, <2>7, <2>9, <3>1
  <2>10. CASE decrease /\ sessionCount = 0
    BY <2>4, <2>5, <2>6, <2>7, <2>10
  <2> QED BY <2>4, <2>8, <2>9, <2>10
<1>9. ASSUME admitted' \subseteq admitted PROVE FALSE
  BY <1>9
<1> QED
  BY <1>5, <1>6, <1>7, <1>8, <1>9
     DEF Next, Authenticate, EnableEncryptionAck, CloseSocket, Destroy,
         InitializeSessionCallback, KickAll, SetPlayerAmountLimit, vars, queueVars

\* A queue does not get longer by a removal.
LEMMA ShorterQueue ==
  ASSUME NEW S, NEW q \in Seq(S), IsInjective(q), NEW e
  PROVE  RemoveFirst(q, e) \in Seq(S) /\ Len(RemoveFirst(q, e)) <= Len(q)
<1> DEFINE r == RemoveFirst(q, e)
<1>1. r \in Seq(S) /\ IsInjective(r) /\ ToSet(r) = ToSet(q) \ {e}
  BY RemoveFirstFacts
<1> HIDE DEF r
<1>2. Cardinality(ToSet(r)) = Len(r) /\ Cardinality(ToSet(q)) = Len(q) /\ IsFiniteSet(ToSet(q))
  BY <1>1, InjectiveLength
<1>3. Cardinality(ToSet(r)) <= Cardinality(ToSet(q))
  BY <1>1, <1>2, FS_Subset
<1> QED BY <1>1, <1>2, <1>3 DEF r

\* A player is queued only if the others fill the server.
LEMMA OthersStep ==
  ASSUME IInv, CountOK, [Next]_vars, lost = 0, decrease, Len(queue') > Len(queue)
  PROVE  Cardinality(alive \ {current}) >= limit
<1>1. TypeOK /\ QueueOK
  BY DEF IInv
<1>2. Len(queue) \in Nat
  BY <1>1, QueueCount
<1>3. ASSUME NEW s, RemoveQueuedPlayer(s) PROVE FALSE
  <2> DEFINE rest == RemoveFirst(queue, s)
  <2>1. Len(rest) \in Nat /\ Len(rest) <= Len(queue) /\ rest \in Seq(alive)
    BY <1>1, ShorterQueue DEF TypeOK, QueueOK
  <2> HIDE DEF rest
  <2>2. queue' = rest \/ (rest # <<>> /\ queue' = Tail(rest))
    BY <1>3 DEF RemoveQueuedPlayer, rest
  <2>3. rest # <<>> => Len(Tail(rest)) = Len(rest) - 1
    BY <2>1
  <2> QED BY <1>2, <2>1, <2>2, <2>3
<1>4. queue' # queue /\ queue' # <<>>
  BY <1>2
<1>5. FinishAdding
  BY <1>3, <1>4
     DEF Next, Authenticate, EnableEncryptionAck, CloseSocket, Destroy, StartAdding, StartErasing,
         FinishErasing, InitializeSessionCallback, KickAll, SetPlayerAmountLimit, vars, queueVars
<1>6. pc = "insert" /\ ServerIsFull
  BY <1>4, <1>5 DEF FinishAdding, InitializeSession
<1>7. current \in alive
  BY <1>1, <1>6 DEF TypeOK
<1>8. /\ Width \in Nat \ {0} /\ limit \in Nat /\ sessionCount \in 0..Width - 1
      /\ sessionCount = Cardinality(alive) /\ alive \in SUBSET Sessions
  BY <1>1, CountBounds, WidthAssumption, LimitAssumption DEF TypeOK
<1>9. /\ Cardinality(alive \ {current}) = Cardinality(alive) - 1
      /\ Cardinality(alive \ {current}) \in Nat /\ Cardinality(alive) \in Nat
  BY <1>7, <1>8, Finite, FS_RemoveElement
<1>10. (sessionCount + -1) % Width >= limit
  BY <1>6 DEF ServerIsFull, Plus
<1>11. (sessionCount + -1) % Width = sessionCount - 1
  BY <1>8, <1>9, PlusWraps
<1> QED BY <1>8, <1>9, <1>10, <1>11

LEMMA Counted == Spec => [](IInv /\ CountOK)
<1>1. IInv /\ CountOK /\ [Next]_vars => CountOK'
  BY CountNext
<1> QED BY InitInv, CountInit, StepInv, <1>1, PTL DEF Spec

\* Players are admitted up to the limit, and beyond it by no more than the updates of
\* m_sessionCount that its lack of a lock may lose.
THEOREM LimitIsRespected == Spec => LimitRespected
<1>1. IInv /\ CountOK /\ [Next]_vars
      => [\A s \in admitted' \ admitted :
             IsPlayerAccount(s) /\ limit > 0 /\ ~HasRecentlyDisconnected(s)
                 => Cardinality(Players') <= limit + lost]_vars
  BY LimitStep
<1> QED BY <1>1, Counted, PTL DEF Spec, LimitRespected

\* As long as no update got lost, nobody waits before the others reach the limit.
THEOREM OthersFill == Spec => OthersFillTheServer
<1>1. IInv /\ CountOK /\ [Next]_vars
      => [lost = 0 /\ decrease /\ Len(queue') > Len(queue)
             => Cardinality(alive \ {current}) >= limit]_vars
  BY OthersStep
<1> QED BY <1>1, Counted, PTL DEF Spec, OthersFillTheServer
=============================================================================
