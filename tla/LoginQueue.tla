----------------------------- MODULE LoginQueue -----------------------------
(***************************************************************************)
(* The admission of sessions to the world and its waiting queue: the       *)
(* network threads construct sessions and give them to the world thread,   *)
(* which adds them in World::UpdateSessions, queues them when the server   *)
(* is full, and removes those whose socket is closed.                      *)
(*                                                                         *)
(* m_sessionCount counts the WorldSession objects.  Constructors run in    *)
(* network threads, destructors where the last pointer goes, and the       *)
(* counter is a plain uint32: an update can get lost.  The world thread    *)
(* reads it several times in one call, so its calls are split in steps.    *)
(*                                                                         *)
(* Rate.Online is 1 (its default), and a client acknowledges the           *)
(* encryption once.                                                        *)
(***************************************************************************)
EXTENDS Integers, Sequences, FiniteSets, SequencesExt

CONSTANTS
    Sessions,       \* WorldSession objects, each constructed at most once
    Accounts,
    Account,        \* Sessions -> Accounts
    Promotable,     \* the accounts whose security level may be above SEC_PLAYER
    Limits,         \* values of PlayerLimit
    Tolerance,      \* DisconnectToleranceInterval
    Width,          \* the values of a uint32
    MaxLost,        \* bound on the updates of m_sessionCount that get lost
    None

ASSUME AccountAssumption == Account \in [Sessions -> Accounts] /\ Promotable \subseteq Accounts
ASSUME LimitAssumption == Limits # {} /\ Limits \subseteq Nat /\ Tolerance \in Nat
ASSUME WidthAssumption == Width \in Nat \ {0} /\ IsFiniteSet(Sessions) /\ Cardinality(Sessions) < Width
ASSUME BoundAssumption == MaxLost \in Nat
ASSUME NoneAssumption == None \notin Sessions \cup Nat

VARIABLES
    used,           \* sessions constructed so far
    alive,          \* and not destroyed yet
    staff,          \* sessions whose IsPlayerAccount is false
    linked,         \* sessions held by an open socket
    addSessQueue,   \* handed over by the network threads
    sessions,       \* m_sessions
    queue,          \* m_QueuedPlayer
    inQueue,        \* sessions with m_inQueue set
    admitted,       \* sessions whose InitializeSession was called
    initialised,    \* and InitializeSessionCallback
    pc,             \* the world thread: "idle", "insert" in AddSession_, "erase" in UpdateSessions
    current,        \* the session it is about
    decrease,       \* decrease_session
    limit,          \* m_playerLimit
    sessionCount,   \* m_sessionCount
    lost,           \* updates of it that got lost
    disconnects     \* the accounts in m_disconnects

objectVars == <<used, alive, staff, linked>>
queueVars == <<queue, inQueue, admitted>>
threadVars == <<pc, current, decrease>>
countVars == <<sessionCount, lost>>
vars == <<objectVars, addSessQueue, sessions, queueVars, initialised, threadVars, limit, countVars, disconnects>>

Init ==
    /\ used = {} /\ alive = {} /\ staff = {} /\ linked = {}
    /\ addSessQueue = <<>>
    /\ sessions = [a \in Accounts |-> None]
    /\ queue = <<>> /\ inQueue = {}
    /\ admitted = {} /\ initialised = {}
    /\ pc = "idle" /\ current = None /\ decrease = TRUE
    /\ limit \in Limits
    /\ sessionCount = 0 /\ lost = 0
    /\ disconnects = {}

Queued == ToSet(queue)
InWorld == {s \in Sessions : sessions[Account[s]] = s}
IsPlayerAccount(s) == s \notin staff

\* The admitted sessions of players that the world knows and is not about to erase.
Players == {s \in (InWorld \ {current}) \cap admitted : IsPlayerAccount(s)}

-----------------------------------------------------------------------------
(* The constructor and destructor, in any thread.                          *)

\* Mutant of Plus: without a width.
PlusUnbounded(n, d) == n + d

Plus(n, d) == (n + d) % Width

\* ++ or -- on m_sessionCount; another thread's may overwrite it.
CountBy(d) ==
    \/ sessionCount' = Plus(sessionCount, d) /\ UNCHANGED lost
    \/ lost < MaxLost /\ lost' = lost + 1 /\ UNCHANGED sessionCount

\* HandleAuthSessionCallback constructs the session, with the security level it read.
Authenticate(s) ==
    /\ s \notin used
    /\ used' = used \cup {s}
    /\ alive' = alive \cup {s}
    /\ staff' = staff \/ (Account[s] \in Promotable /\ staff' = staff \cup {s})
    /\ linked' = linked \cup {s}
    /\ CountBy(1)
    /\ UNCHANGED <<addSessQueue, sessions, queueVars, initialised, threadVars, limit, disconnects>>

Handed(s) ==
    s \in ToSet(addSessQueue) \/ s \in InWorld \/ s = current

\* HandleEnableEncryptionAck hands it to the world thread.
EnableEncryptionAck(s) ==
    /\ s \in linked /\ ~Handed(s)
    /\ addSessQueue' = Append(addSessQueue, s)
    /\ UNCHANGED <<objectVars, sessions, queueVars, initialised, threadVars, limit, countVars, disconnects>>

\* The socket is closed, by the peer or by a kick, and lets go of the session.
CloseSocket(s) ==
    /\ s \in linked
    /\ linked' = linked \ {s}
    /\ UNCHANGED <<used, alive, staff, addSessQueue, sessions, queueVars, initialised, threadVars, limit, countVars, disconnects>>

\* The last pointer to the session goes, and its fields with it.
Destroy(s) ==
    /\ s \in alive \ linked
    /\ ~Handed(s) /\ s \notin Queued
    /\ alive' = alive \ {s} /\ staff' = staff \ {s}
    /\ inQueue' = inQueue \ {s}
    /\ admitted' = admitted \ {s} /\ initialised' = initialised \ {s}
    /\ CountBy(-1)
    /\ UNCHANGED <<used, linked, addSessQueue, sessions, queue, threadVars, limit, disconnects>>

-----------------------------------------------------------------------------
(* RemoveQueuedPlayer, which also admits the first in the queue.           *)

\* What GetActiveSessionCount returns.  The subtraction is done in 64 bits and goes
\* through a float: after an underflow the result is undefined.
ActiveSessionCounts ==
    IF sessionCount >= Len(queue) THEN {sessionCount - Len(queue)} ELSE 0..Width - 1

\* Mutants of RemoveQueuedPlayer: the session that is removed stays in the queue; the
\* first leaves the queue and is not initialised.
KeepQueuedPlayer(s) == UNCHANGED <<queue, admitted>>

RemoveAndDrop(s) ==
    LET rest == RemoveFirst(queue, s)
    IN  queue' = (IF rest = <<>> THEN rest ELSE Tail(rest)) /\ UNCHANGED admitted

RemoveQueuedPlayer(s) ==
    LET rest == RemoveFirst(queue, s)
    IN  \E count \in ActiveSessionCounts :
            LET others == IF s \notin Queued /\ count > 0 THEN count - 1 ELSE count
            IN  IF rest # <<>> /\ (limit = 0 \/ others < limit)
                THEN queue' = Tail(rest) /\ admitted' = admitted \cup {Head(rest)}
                ELSE queue' = rest /\ UNCHANGED admitted

-----------------------------------------------------------------------------
(* The world thread: AddSession_ and the update of the sessions.           *)

\* An older session of the account is kicked, taken out of the queue and erased.
StartAdding(s) ==
    /\ pc = "idle"
    /\ addSessQueue # <<>> /\ s = Head(addSessQueue)
    /\ addSessQueue' = Tail(addSessQueue)
    /\ pc' = "insert"
    /\ current' = s
    /\ LET old == sessions[Account[s]]
       IN  /\ sessions' = [sessions EXCEPT ![Account[s]] = None]
           /\ linked' = linked \ {old}
           /\ inQueue' = inQueue \ ({old} \cap Queued)
           /\ decrease' = (old \notin Queued)
           /\ IF old = None THEN UNCHANGED <<queue, admitted>> ELSE RemoveQueuedPlayer(old)
    /\ UNCHANGED <<used, alive, staff, initialised, limit, countVars, disconnects>>

\* Mutant of HasRecentlyDisconnected: anybody's disconnection will do.
SomebodyDisconnected(s) == Tolerance > 0 /\ disconnects # {}

\* The difference between the stored time and the present one is never positive, and so
\* always below the tolerance: every entry counts, and none is ever erased.
HasRecentlyDisconnected(s) == Tolerance > 0 /\ Account[s] \in disconnects

\* Mutants of ServerIsFull: the session that logs in is counted; one place too many.
CountsItself == limit > 0 /\ sessionCount >= limit
FullLater ==
    limit > 0 /\ (IF decrease THEN Plus(sessionCount, -1) ELSE sessionCount) > limit

ServerIsFull ==
    limit > 0 /\ (IF decrease THEN Plus(sessionCount, -1) ELSE sessionCount) >= limit

\* Mutant of AddQueuedPlayer: SetInQueue is missing.
AddUnmarked(s) == queue' = Append(queue, s) /\ UNCHANGED <<inQueue, admitted>>

\* m_inQueue is what holds a client back from the commands of the character screen.
AddQueuedPlayer(s) ==
    /\ queue' = Append(queue, s)
    /\ inQueue' = inQueue \cup {s}
    /\ UNCHANGED admitted

\* The queries for the session are sent.
InitializeSession(s) ==
    /\ admitted' = admitted \cup {s}
    /\ UNCHANGED <<queue, inQueue>>

\* The session enters m_sessions and is queued or admitted.
FinishAdding ==
    /\ pc = "insert"
    /\ pc' = "idle"
    /\ current' = None
    /\ decrease' = TRUE
    /\ sessions' = [sessions EXCEPT ![Account[current]] = current]
    /\ IF ServerIsFull /\ IsPlayerAccount(current) /\ ~HasRecentlyDisconnected(current)
       THEN AddQueuedPlayer(current)
       ELSE InitializeSession(current)
    /\ UNCHANGED <<objectVars, addSessQueue, initialised, limit, countVars, disconnects>>

\* The queries of InitializeSession are answered and the session's update sees it.
InitializeSessionCallback(s) ==
    /\ pc = "idle"
    /\ s \in InWorld /\ s \in admitted \ initialised
    /\ initialised' = initialised \cup {s}
    /\ inQueue' = inQueue \ {s}
    /\ UNCHANGED <<objectVars, addSessQueue, sessions, queue, admitted, threadVars, limit, countVars, disconnects>>

\* The update of a session whose socket is closed returns false, at once or when the
\* session expires.
StartErasing(s) ==
    /\ pc = "idle"
    /\ s \in InWorld \ linked
    /\ pc' = "erase"
    /\ current' = s
    /\ RemoveQueuedPlayer(s)
    /\ inQueue' = inQueue \ ({s} \cap Queued)
    /\ disconnects' = IF s \notin Queued /\ Tolerance > 0
                      THEN disconnects \cup {Account[s]} ELSE disconnects
    /\ UNCHANGED <<objectVars, addSessQueue, sessions, initialised, decrease, limit, countVars>>

\* RemoveQueuedPlayer is called again, and the session leaves m_sessions.
FinishErasing ==
    /\ pc = "erase"
    /\ pc' = "idle"
    /\ current' = None
    /\ RemoveQueuedPlayer(current)
    /\ inQueue' = inQueue \ ({current} \cap Queued)
    /\ sessions' = [sessions EXCEPT ![Account[current]] = None]
    /\ UNCHANGED <<objectVars, addSessQueue, initialised, decrease, limit, countVars, disconnects>>

\* The server stops.
KickAll ==
    /\ pc = "idle"
    /\ queue' = <<>>
    /\ linked' = linked \ InWorld
    /\ UNCHANGED <<used, alive, staff, addSessQueue, sessions, inQueue, admitted, initialised, threadVars, limit, countVars, disconnects>>

\* The command "server plimit", between two updates.
SetPlayerAmountLimit(n) ==
    /\ pc = "idle"
    /\ limit' = n
    /\ UNCHANGED <<objectVars, addSessQueue, sessions, queueVars, initialised, threadVars, countVars, disconnects>>

Next ==
    \/ \E s \in Sessions :
        \/ Authenticate(s) \/ EnableEncryptionAck(s) \/ CloseSocket(s) \/ Destroy(s)
        \/ StartAdding(s) \/ InitializeSessionCallback(s) \/ StartErasing(s)
    \/ FinishAdding \/ FinishErasing
    \/ KickAll \/ \E n \in Limits : SetPlayerAmountLimit(n)

Spec == Init /\ [][Next]_vars

\* Every update of the world drains addSessQueue and visits every session, queries are
\* answered, and pointers on stacks and in callbacks go away.
Fairness ==
    /\ WF_vars(FinishAdding) /\ WF_vars(FinishErasing)
    /\ \A s \in Sessions :
        /\ WF_vars(StartAdding(s)) /\ WF_vars(InitializeSessionCallback(s)) /\ WF_vars(StartErasing(s))
        /\ WF_vars(Destroy(s))

FairSpec == Spec /\ Fairness

-----------------------------------------------------------------------------
(* Properties.                                                             *)

\* The type invariant.
TypeOK ==
    /\ used \subseteq Sessions /\ alive \subseteq used /\ linked \subseteq alive
    /\ staff \subseteq alive
    /\ addSessQueue \in Seq(alive)
    /\ sessions \in [Accounts -> alive \cup {None}]
    /\ queue \in Seq(alive)
    /\ inQueue \subseteq alive
    /\ initialised \subseteq admitted /\ admitted \subseteq alive
    /\ pc \in {"idle", "insert", "erase"}
    /\ current \in alive \cup {None} /\ (current = None <=> pc = "idle")
    /\ decrease \in BOOLEAN
    /\ limit \in Limits
    /\ sessionCount \in 0..Width - 1
    /\ lost \in 0..MaxLost
    /\ disconnects \subseteq Accounts

\* Whoever waits is known to the world, waits once and has not been admitted: a session
\* that is replaced or removed never stays behind in the queue.
QueueOK ==
    /\ IsInjective(queue)
    /\ Queued \subseteq InWorld \ admitted

\* A client that m_inQueue does not hold back has been admitted.
HeldBack == \A s \in InWorld \cap linked : s \in inQueue \/ s \in admitted

\* No player is admitted over the limit, except after a recent disconnection, and by
\* as many as updates of the counter got lost.
LimitRespected ==
    [][\A s \in admitted' \ admitted :
        IsPlayerAccount(s) /\ limit > 0 /\ ~HasRecentlyDisconnected(s)
            => Cardinality(Players') <= limit + lost]_vars

\* The session that logs in does not count, unless it replaces one that waited: nobody
\* has to wait unless there are as many other sessions as the limit allows.
OthersFillTheServer ==
    [][lost = 0 /\ decrease /\ Len(queue') > Len(queue)
        => Cardinality(alive \ {current}) >= limit]_vars

\* A session handed to the world, or taken from the queue, is initialised or waits,
\* unless its socket is closed; one whose socket is closed is destroyed, it leaves the
\* world and the queue.
IsServed ==
    \A s \in Sessions :
        /\ Handed(s) /\ s \notin Queued ~> (s \in initialised \cup Queued \/ s \notin linked)
        /\ s \in alive \ linked ~> s \notin alive
=============================================================================
