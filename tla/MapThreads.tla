------------------------------ MODULE MapThreads ------------------------------
(* A map with its update thread and its pool of workers, and the world's   *)
(* thread that unloads it at the shutdown.  The map thread schedules the   *)
(* objects of one phase (every second cell of every second row), waits and *)
(* goes on with the next; after the last phase it schedules the data of    *)
(* objects that go to the clients.                                         *)
EXTENDS ThreadPoolMap

CONSTANTS
    LastPhase,      \* after the phases 0..LastPhase - 1 of the cells: the data for clients
    MaxBatch,       \* bound on the requests of one phase
    MaxThrows       \* bound on exceptions

ASSUME PhasesAssumption == LastPhase \in Nat /\ Requests = 0..LastPhase
ASSUME WaitersAssumption == Waiters = {"map", "world"}
ASSUME BoundsAssumption == MaxBatch \in Nat /\ MaxThrows \in Nat

VARIABLES
    mapAt,      \* where the map thread is
    phase,      \* of Map::Update
    batch,      \* how many requests of the phase it has scheduled
    worldAt,    \* where MapManager::UnloadAll is
    stop,       \* b_isMapStop
    unload,     \* b_isMapUnload
    throws      \* how many exceptions UpdateLoop has caught

mapVars == <<mapAt, phase, batch>>
flagVars == <<stop, unload>>
vars == <<poolVars, mapVars, worldAt, flagVars, throws>>

MapStates == {"loop", "sessions", "update", "waiting", "crashed", "sleeping", "exited"}
WorldStates == {"running", "sleeping", "unloading", "destroying", "joining", "freed", "done"}

Init ==
    /\ InitPool
    /\ mapAt = "loop" /\ phase = 0 /\ batch = 0
    /\ worldAt = "running"
    /\ stop = FALSE /\ unload = FALSE
    /\ throws = 0

\* The Map and its pool are deleted.
Freed == worldAt \in {"freed", "done"}

-----------------------------------------------------------------------------
(* The map thread: UpdateLoop and Map::Update.                             *)

Goto(place) == mapAt' = place /\ UNCHANGED <<phase, batch>>
GotoPhase(p) == mapAt' = "update" /\ phase' = p /\ batch' = 0
EndUpdate == mapAt' = "sleeping" /\ phase' = 0 /\ batch' = 0

\* The timers decide which updates a round makes.
StartRound ==
    /\ mapAt = "loop" /\ ~stop
    /\ Goto("sessions") \/ Goto("update") \/ Goto("sleeping")
    /\ UNCHANGED <<poolVars, flagVars, throws>>

EndSessions ==
    /\ mapAt = "sessions"
    /\ Goto("update") \/ Goto("sleeping")
    /\ UNCHANGED <<poolVars, flagVars, throws>>

Schedule ==
    /\ mapAt = "update" /\ batch < MaxBatch
    /\ schedule(phase)
    /\ batch' = batch + 1
    /\ UNCHANGED <<mapAt, phase, flagVars, throws>>

\* Before the first phase and before the data Update looks at b_isMapUnload.
ReturnFromUpdate ==
    /\ mapAt = "update" /\ unload
    /\ phase \in {0, LastPhase} /\ batch = 0
    /\ EndUpdate
    /\ UNCHANGED <<poolVars, flagVars, throws>>

\* Mutant of StartWaiting: the next phase begins at once.
StartNext ==
    /\ mapAt = "update"
    /\ IF phase < LastPhase THEN GotoPhase(phase + 1) ELSE EndUpdate
    /\ UNCHANGED <<poolVars, flagVars, throws>>

StartWaiting ==
    /\ mapAt = "update"
    /\ Goto("waiting")
    /\ UNCHANGED <<poolVars, flagVars, throws>>

Wait ==
    /\ mapAt \in {"waiting", "crashed"}
    /\ FallAsleep("map")
    /\ UNCHANGED <<mapVars, flagVars, throws>>

EndPhase ==
    /\ mapAt = "waiting" /\ Passes("map")
    /\ IF phase < LastPhase THEN GotoPhase(phase + 1) ELSE EndUpdate
    /\ UNCHANGED <<poolVars, flagVars, throws>>

\* An exception after the data has been scheduled: UpdateLoop catches it and begins its
\* next round without a wait.
Throw ==
    /\ mapAt = "update" /\ phase = LastPhase /\ throws < MaxThrows
    /\ throws' = throws + 1
    /\ mapAt' = "loop" /\ phase' = 0 /\ batch' = 0
    /\ UNCHANGED <<poolVars, flagVars>>

\* m_worldCrashChecker: the map thread unloads the map itself.
Crash ==
    /\ mapAt = "loop" /\ ~stop
    /\ Goto("crashed")
    /\ unload' = TRUE
    /\ UNCHANGED <<poolVars, stop, throws>>

EndCrash ==
    /\ mapAt = "crashed" /\ Passes("map")
    /\ Goto("exited")
    /\ stop' = TRUE
    /\ UNCHANGED <<poolVars, unload, throws>>

WakeUp ==
    /\ mapAt = "sleeping"
    /\ Goto("loop")
    /\ UNCHANGED <<poolVars, flagVars, throws>>

Exit ==
    /\ mapAt = "loop" /\ stop
    /\ Goto("exited")
    /\ UNCHANGED <<poolVars, flagVars, throws>>

\* Once the map is deleted anything may happen; the model ends.
UpdateLoop ==
    /\ ~Freed
    /\ \/ StartRound \/ EndSessions \/ Schedule \/ ReturnFromUpdate \/ StartWaiting \/ Wait
       \/ EndPhase \/ Throw \/ Crash \/ EndCrash \/ WakeUp \/ Exit
    /\ UNCHANGED worldAt

-----------------------------------------------------------------------------
(* The world's thread: MapManager::UnloadAll.                              *)

GoOn(from, to) == worldAt = from /\ worldAt' = to

StopMap ==
    /\ GoOn("running", "sleeping")
    /\ stop' = TRUE
    /\ UNCHANGED <<poolVars, unload>>

\* A second has passed, however far the map thread is.
UnloadMap ==
    /\ GoOn("sleeping", "unloading")
    /\ unload' = TRUE
    /\ UNCHANGED <<poolVars, stop>>

WorldWait ==
    /\ worldAt \in {"unloading", "destroying"}
    /\ FallAsleep("world")
    /\ UNCHANGED <<worldAt, flagVars>>

\* The destructor of the map unloads it again.
DeleteMap ==
    /\ GoOn("unloading", "destroying") /\ Passes("world")
    /\ UNCHANGED <<poolVars, flagVars>>

StopPool ==
    /\ GoOn("destroying", "joining") /\ Passes("world")
    /\ freeze
    /\ UNCHANGED flagVars

DeletePool ==
    /\ GoOn("joining", "freed") /\ Joined
    /\ UNCHANGED <<poolVars, flagVars>>

JoinMap ==
    /\ GoOn("freed", "done") /\ mapAt = "exited"
    /\ UNCHANGED <<poolVars, flagVars>>

UnloadAll ==
    /\ StopMap \/ UnloadMap \/ WorldWait \/ DeleteMap \/ StopPool \/ DeletePool \/ JoinMap
    /\ UNCHANGED <<mapVars, throws>>

-----------------------------------------------------------------------------
Next ==
    \/ UpdateLoop
    \/ UnloadAll
    \/ \E w \in Workers : threadFunc(w) /\ UNCHANGED <<mapVars, worldAt, flagVars, throws>>
    \/ ~Freed /\ Spurious /\ UNCHANGED <<mapVars, worldAt, flagVars, throws>>

\* Threads are scheduled and get the mutexes they wait for; a sleep ends.  Nothing is said
\* of wake-ups without a notification, crashes, exceptions and the shutdown.
Fairness ==
    /\ \A w \in Workers : WF_vars(threadFunc(w) /\ UNCHANGED <<mapVars, worldAt, flagVars, throws>>)
    /\ WF_vars(UpdateLoop /\ ~Crash /\ ~Throw)
    /\ WF_vars(UnloadAll /\ ~StopMap)

Spec == Init /\ [][Next]_vars /\ Fairness

-----------------------------------------------------------------------------
(* Properties.                                                             *)

\* The type invariant.
TypeOK ==
    /\ PoolTypeOK
    /\ mapAt \in MapStates
    /\ phase \in 0..LastPhase
    /\ batch \in 0..MaxBatch
    /\ worldAt \in WorldStates
    /\ stop \in BOOLEAN /\ unload \in BOOLEAN
    /\ throws \in 0..MaxThrows

\* Objects of two phases are never updated at once, and none while the sessions are: as
\* long as UpdateLoop has caught no exception, what is queued or running belongs to the
\* phase the map thread is in.
PhasesSeparated ==
    throws = 0 => Pending \subseteq (IF mapAt \in {"update", "waiting"} THEN {phase} ELSE {})

\* When wait returns, to the map thread or to the one that unloads the map, nothing that
\* was scheduled is left in the queue or with a worker.
WaitMeansDone ==
    [][EndPhase \/ EndCrash \/ DeleteMap \/ StopPool => Pending = {}]_vars

\* The map thread does not wait for ever while its pool lives, and the unloading of the
\* map goes on, whatever the map thread still schedules.
WaitReturns ==
    /\ mapAt = "waiting" ~> (mapAt # "waiting" \/ frozen)
    /\ worldAt = "unloading" ~> worldAt # "unloading"
=============================================================================
