---------------------------- MODULE WorldSession ----------------------------
(* One session and the threads that update it.  The world's thread updates *)
(* it until a character is in the game, then the thread of the map the     *)
(* character is on; a teleport hands it from one map's thread to another   *)
(* while both keep running.  World::UpdateSessions calls Update without a  *)
(* map: World stands for its thread and for that null pointer.             *)
EXTENDS Naturals, Sequences, FiniteSets

CONSTANTS
    Maps,           \* maps, each with its thread
    World,          \* the world's thread, and "no map"
    MaxProcessed,   \* MAX_PROCESSED_PACKETS_IN_SAME_WORLDSESSION_UPDATE
    MaxGames,       \* bound on the packets of the game the client sends
    MaxTeleports,   \* bound on the teleports
    MaxThrows       \* bound on the exceptions of handlers

ASSUME WorldAssumption == World \notin Maps
ASSUME BoundsAssumption ==
    MaxProcessed \in Nat /\ MaxGames \in Nat /\ MaxTeleports \in Nat /\ MaxThrows \in Nat

Threads == Maps \cup {World}

VARIABLES
    map,        \* m_map
    busy,       \* m_sUpdate
    listed,     \* the threads that have the session in their m_sessions
    queued,     \* the maps that have it in their addSessQueue
    player,     \* the character
    login,      \* of the login: "none", "connect", "query" (running), "ready"
    loading,    \* m_playerLoading
    event,      \* the delayed event that puts the player into this map, or World
    canLogout,  \* canLogout
    recently,   \* m_playerRecentlyLogout
    recv,       \* _recvQueue
    open,       \* the connection to the client is open
    socket,     \* m_Socket[CONNECTION_TYPE_REALM] is set
    grace,      \* updates until expireTime has passed
    due,        \* what the client has been asked for
    pc,         \* where each thread is
    ret,        \* where SafeTeleport returns to
    dest,       \* the map it goes to
    count,      \* processedPackets
    again,      \* requeuePackets
    games, teleports, throws,   \* how many there have been
    handled,    \* the last packet of the game that a handler has got
    clash       \* a player was deleted or teleported while a teleport was under way

ownVars == <<map, busy, listed, queued>>
playVars == <<player, login, loading, event, canLogout, recently>>
netVars == <<recv, open, socket, grace, due>>
threadVars == <<pc, ret, dest, count, again>>
boundVars == <<games, teleports, throws, handled, clash>>
vars == <<ownVars, playVars, netVars, threadVars, boundVars>>

NoPlayer == [there |-> FALSE, at |-> World, inWorld |-> FALSE, changing |-> FALSE,
             far |-> FALSE, removing |-> FALSE, target |-> World]
Players == [there : BOOLEAN, at : Threads, inWorld : BOOLEAN, changing : BOOLEAN,
            far : BOOLEAN, removing : BOOLEAN, target : Threads]

Kinds == {"login", "loaded", "ack", "game", "logout"}
Packets == [kind : Kinds, id : Nat]

Init ==
    /\ map = World /\ busy = FALSE
    /\ listed = {World} /\ queued = {}
    /\ player = NoPlayer /\ login = "none" /\ loading = FALSE
    /\ event = World /\ canLogout = FALSE /\ recently = FALSE
    /\ recv = <<>> /\ open = TRUE /\ socket = TRUE /\ grace = 1 /\ due = {"login"}
    /\ pc = [t \in Threads |-> "idle"]
    /\ ret = [t \in Threads |-> "idle"]
    /\ dest = [t \in Threads |-> World]
    /\ count = [t \in Threads |-> 0]
    /\ again = [t \in Threads |-> <<>>]
    /\ games = 0 /\ teleports = 0 /\ throws = 0 /\ handled = 0 /\ clash = FALSE

Goto(t, place) == pc' = [pc EXCEPT ![t] = place]

\* Where a thread is inside SafeTeleport or ZoneTeleport.
Teleporting == {"set1", "add1", "leave", "set2", "add2", "zoneSet", "zoneAdd"}
Sections == {"loop", "queries", "entered", "finish"}
\* A thread is between "m_sUpdate = true" and "m_sUpdate = false".
InUpdate(t) == pc[t] \in Sections \/ (pc[t] \in Teleporting /\ ret[t] = "loop")

\* "if (GetMap() != map) { m_sUpdate = false; return true; }"
GoOnStillBusy(t, place) ==
    /\ Goto(t, IF map = t THEN place ELSE "idle")
    /\ UNCHANGED busy
GoOn(t, place) ==
    \/ map = t /\ Goto(t, place) /\ UNCHANGED busy
    \/ map # t /\ Goto(t, "idle") /\ busy' = FALSE

-----------------------------------------------------------------------------
(* The client, and the parts of the login that are not Update.             *)

Send(kind) ==
    /\ open
    /\ \/ kind \in due /\ due' = due \ {kind} /\ UNCHANGED games
       \/ /\ kind \in {"game", "logout", "login"} /\ games < MaxGames
          /\ games' = games + 1 /\ UNCHANGED due
    /\ recv' = Append(recv, [kind |-> kind, id |-> games'])
    /\ UNCHANGED <<ownVars, playVars, open, socket, grace, threadVars,
                   teleports, throws, handled, clash>>

Disconnect ==
    /\ open /\ open' = FALSE
    /\ UNCHANGED <<ownVars, playVars, recv, socket, grace, due, threadVars, boundVars>>

\* The client's second connection: the world's thread starts the query.
HandleContinuePlayerLogin ==
    /\ pc[World] = "idle" /\ open /\ login = "connect"
    /\ login' = "query"
    /\ UNCHANGED <<ownVars, player, loading, event, canLogout, recently,
                   netVars, threadVars, boundVars>>

QueryHolderDone ==
    /\ login = "query" /\ login' = "ready"
    /\ UNCHANGED <<ownVars, player, loading, event, canLogout, recently,
                   netVars, threadVars, boundVars>>

-----------------------------------------------------------------------------
(* UpdateSessions of a map and of the world.                               *)

\* Map::UpdateSessions takes the sessions that were handed to the map.
TakeSession(t) ==
    /\ pc[t] = "idle" /\ t \in queued
    /\ queued' = queued \ {t} /\ listed' = listed \cup {t}
    /\ UNCHANGED <<map, busy, playVars, netVars, threadVars, boundVars>>

ForgetSession(t) ==
    /\ t \in Maps /\ pc[t] = "idle" /\ t \in listed /\ map # t
    /\ listed' = listed \ {t}
    /\ UNCHANGED <<map, busy, queued, playVars, netVars, threadVars, boundVars>>

Skipped(t) == t \in Maps /\ player.there /\ player.changing

\* The delayed event: the player enters the map, in the map's own thread.
EnterMap(t) ==
    /\ pc[t] = "idle" /\ t \in listed /\ map = t /\ Skipped(t) /\ event # World
    /\ player' = [player EXCEPT !.at = event, !.inWorld = TRUE,
                                !.changing = FALSE, !.far = FALSE]
    /\ event' = World
    /\ UNCHANGED <<ownVars, login, loading, canLogout, recently, netVars,
                   threadVars, boundVars>>

StartUpdate(t) ==
    /\ pc[t] = "idle" /\ t \in listed /\ map = t /\ ~Skipped(t)
    /\ Goto(t, "test")
    /\ UNCHANGED <<ownVars, playVars, netVars, ret, dest, count, again, boundVars>>

TestNothing(t) ==
    /\ pc[t] = "test"
    /\ Goto(t, "set")
    /\ UNCHANGED <<ownVars, playVars, netVars, ret, dest, count, again, boundVars>>

\* "if (m_sUpdate) return true;"
TestBusy(t) ==
    /\ pc[t] = "test"
    /\ Goto(t, IF busy THEN "idle" ELSE "set")
    /\ UNCHANGED <<ownVars, playVars, netVars, ret, dest, count, again, boundVars>>

\* "m_sUpdate = true;"; an event that finds no player does nothing.
SetBusy(t) ==
    /\ pc[t] = "set"
    /\ busy' = TRUE
    /\ event' = IF player.there THEN event ELSE World
    /\ Goto(t, "loop")
    /\ UNCHANGED <<map, listed, queued, player, login, loading, canLogout, recently,
                   netVars, ret, dest, count, again, boundVars>>

-----------------------------------------------------------------------------
(* The packets of one Update.                                              *)

TakeWithoutLimit(t, kinds) ==
    /\ pc[t] = "loop" /\ socket /\ map = t /\ recv # <<>>
    /\ Head(recv).kind \in kinds
    /\ recv' = Tail(recv)
    /\ count' = [count EXCEPT ![t] = @ + 1]

\* Takes the next packet, of one of these kinds, off the queue.
Take(t, kinds) ==
    /\ pc[t] = "loop" /\ socket /\ map = t /\ recv # <<>> /\ count[t] <= MaxProcessed
    /\ Head(recv).kind \in kinds
    /\ recv' = Tail(recv)
    /\ count' = [count EXCEPT ![t] = @ + 1]

\* STATUS_LOGGEDIN without a player that has not just logged out.
Requeue(t) ==
    /\ Take(t, {"game", "logout"})
    /\ ~player.there /\ ~recently
    /\ again' = [again EXCEPT ![t] = Append(@, Head(recv))]
    /\ UNCHANGED <<ownVars, playVars, open, socket, grace, due, pc, ret, dest, boundVars>>

\* Packets that come at the wrong moment are thrown away.
Drop(t) ==
    /\ \/ /\ Take(t, {"game", "logout"})
          /\ (~player.there /\ recently) \/ (player.there /\ ~player.inWorld)
       \/ /\ Take(t, {"ack"})
          /\ ~player.there \/ player.inWorld \/ ~player.far \/ player.changing
    /\ UNCHANGED <<ownVars, playVars, open, socket, grace, due, pc, ret, dest, again,
                   boundVars>>

HandleGame(t) ==
    /\ Take(t, {"game"}) /\ player.there /\ player.inWorld
    /\ handled' = Head(recv).id
    /\ UNCHANGED <<ownVars, playVars, open, socket, grace, due, pc, ret, dest, again,
                   games, teleports, throws, clash>>

\* HandleLogoutRequest for those who may leave at once.
HandleLogoutRequest(t) ==
    /\ Take(t, {"logout"}) /\ player.there /\ player.inWorld
    /\ handled' = Head(recv).id
    /\ player' = [player EXCEPT !.removing = TRUE]
    /\ UNCHANGED <<ownVars, login, loading, event, canLogout, recently, open, socket,
                   grace, due, pc, ret, dest, again, games, teleports, throws, clash>>

\* CMSG_ENUM_CHARACTERS and CMSG_PLAYER_LOGIN, which the client sends after it.
HandlePlayerLoginOpcode(t) ==
    /\ Take(t, {"login"})
    /\ recently' = FALSE
    /\ IF loading \/ player.there
       THEN UNCHANGED <<loading, login>>
       ELSE loading' = TRUE /\ login' = "connect"
    /\ UNCHANGED <<ownVars, player, event, canLogout, open, socket, grace, due,
                   pc, ret, dest, again, boundVars>>

HandleLoadScreenOpcode(t) ==
    /\ Take(t, {"loaded"})
    /\ loading' = FALSE
    /\ UNCHANGED <<ownVars, player, login, event, canLogout, recently, open, socket,
                   grace, due, pc, ret, dest, again, boundVars>>

\* The client has loaded the new map; CanEnter may refuse.  TeleportTo only
\* leaves an event with the player, who is not updated outside the world.
HandleWorldPortAck(t) ==
    /\ Take(t, {"ack"})
    /\ player.there /\ ~player.inWorld /\ player.far /\ ~player.changing
    /\ LET left == [player EXCEPT !.far = FALSE, !.target = World]
           newMap == IF player.target = World THEN t ELSE player.target
           entered == IF newMap = t THEN [left EXCEPT !.at = t, !.inWorld = TRUE]
                      ELSE [left EXCEPT !.changing = TRUE]
       IN player' \in {left, entered}
    /\ UNCHANGED <<ownVars, login, loading, event, canLogout, recently, open, socket,
                   grace, due, pc, ret, dest, again, boundVars>>

\* Update catches two kinds of exceptions; any other leaves m_sUpdate as it is.
HandlerThrows(t) ==
    /\ t \in Maps /\ throws < MaxThrows
    /\ Take(t, {"game"}) /\ player.there /\ player.inWorld
    /\ handled' = Head(recv).id /\ throws' = throws + 1
    /\ Goto(t, "thrown")
    /\ UNCHANGED <<ownVars, playVars, open, socket, grace, due, ret, dest, again,
                   games, teleports, clash>>

\* UpdateLoop catches it and kicks the session.
KickPlayer(t) ==
    /\ pc[t] = "thrown"
    /\ open' = FALSE /\ grace' = 0
    /\ count' = [count EXCEPT ![t] = 0]
    /\ again' = [again EXCEPT ![t] = <<>>]
    /\ Goto(t, "idle")
    /\ UNCHANGED <<ownVars, playVars, recv, socket, due, ret, dest, boundVars>>

\* No more packets, no more time, or the session is another thread's now.
\* readd puts the packets back in front.
ReaddBehind(front, queue) == queue \o front
Readd(front, queue) == front \o queue

LeaveLoop(t) ==
    /\ pc[t] = "loop"
    /\ ~socket \/ map # t \/ recv = <<>> \/ count[t] > 0
    /\ recv' = Readd(again[t], recv)
    /\ again' = [again EXCEPT ![t] = <<>>]
    /\ count' = [count EXCEPT ![t] = 0]
    /\ GoOn(t, "queries")
    /\ UNCHANGED <<map, listed, queued, playVars, open, socket, grace, due, ret, dest,
                   boundVars>>

-----------------------------------------------------------------------------
(* ProcessQueryCallbacks and the rest of Update.                           *)

\* HandlePlayerLogin: the character is on m, the session follows it.
HandlePlayerLogin(t) ==
    /\ pc[t] = "queries" /\ login = "ready"
    /\ \E m \in Maps :
        /\ player' = [NoPlayer EXCEPT !.there = TRUE, !.at = m, !.changing = TRUE]
        /\ map' = m
        /\ dest' = [dest EXCEPT ![t] = m]
    /\ login' = "none"
    /\ due' = due \cup {"loaded"}
    /\ Goto(t, "entered")
    /\ UNCHANGED <<busy, listed, queued, loading, event, canLogout, recently, recv, open,
                   socket, grace, ret, count, again, boundVars>>

\* "GetMap()->AddSession(sess);"
HandOver(t) ==
    /\ pc[t] = "entered"
    /\ queued' = queued \cup {dest[t]}
    /\ event' = dest[t]
    /\ dest' = [dest EXCEPT ![t] = World]
    /\ GoOn(t, "finish")
    /\ UNCHANGED <<map, listed, player, login, loading, canLogout, recently, netVars,
                   ret, count, again, boundVars>>

\* LoadFromDB fails.
LoginFails(t) ==
    /\ pc[t] = "queries" /\ login = "ready"
    /\ login' = "none" /\ loading' = FALSE
    /\ open' = FALSE /\ grace' = 0
    /\ Goto(t, "finish")
    /\ UNCHANGED <<ownVars, player, event, canLogout, recently, recv, socket, due, ret,
                   dest, count, again, boundVars>>

NoQuery(t) ==
    /\ pc[t] = "queries" /\ login # "ready"
    /\ GoOn(t, "finish")
    /\ UNCHANGED <<map, listed, queued, playVars, netVars, ret, dest, count, again,
                   boundVars>>

TeleportUnderWay == \E t \in Threads : pc[t] \in Teleporting

LogoutPlayer ==
    /\ player' = NoPlayer
    /\ clash' = (clash \/ (player.there /\ TeleportUnderWay))
    /\ recently' = TRUE
    /\ due' = IF player.there THEN due \cup {"login"} ELSE due

\* The second half of Update: logout and the clean-up of the sockets.
Finish(t) ==
    /\ pc[t] = "finish"
    /\ IF canLogout THEN LogoutPlayer ELSE UNCHANGED <<player, recently, due, clash>>
    /\ canLogout' = FALSE
    /\ grace' = IF socket /\ ~open /\ grace > 0 THEN grace - 1 ELSE grace
    /\ socket' = (socket /\ (open \/ (grace > 0 /\ player'.there)))
    /\ busy' = FALSE
    /\ Goto(t, IF socket' THEN "idle" ELSE "dead")
    /\ UNCHANGED <<map, listed, queued, login, loading, event, recv, open, ret, dest,
                   count, again, games, teleports, throws, handled>>

\* Update has returned false.
Dead(t) ==
    /\ pc[t] = "dead"
    /\ LogoutPlayer
    /\ map' = IF t = World THEN map ELSE World
    /\ listed' = listed \ {t}
    /\ Goto(t, "idle")
    /\ UNCHANGED <<busy, queued, login, loading, event, canLogout, recv, open, socket,
                   grace, ret, dest, count, again, games, teleports, throws, handled>>

-----------------------------------------------------------------------------
(* SafeTeleport and ZoneTeleport, called by a handler or by Map::Update.   *)

\* A seamless teleport leaves out the first SetMap and AddSession.
StartTeleport(t, back) ==
    /\ teleports < MaxTeleports /\ teleports' = teleports + 1
    /\ clash' = (clash \/ TeleportUnderWay)
    /\ \E m \in Maps \ {player.at}, place \in {"set1", "leave"} :
        /\ dest' = [dest EXCEPT ![t] = m]
        /\ Goto(t, place)
    /\ ret' = [ret EXCEPT ![t] = back]

\* A handler, as that of the release of a spirit, teleports the player.
HandleRepopRequest(t) ==
    /\ Take(t, {"game"}) /\ player.there /\ player.inWorld
    /\ StartTeleport(t, "loop")
    /\ handled' = Head(recv).id
    /\ UNCHANGED <<ownVars, playVars, open, socket, grace, due, again, games, throws>>

\* Map::Update looks at the players in its list.
Updated(t) ==
    /\ t \in Maps /\ pc[t] = "idle"
    /\ player.there /\ player.at = t /\ ~player.changing /\ map = t /\ ~loading

\* Player::Update runs the delayed event that TeleportTo has left.
UpdatePlayer(t) ==
    /\ Updated(t) /\ player.inWorld
    /\ StartTeleport(t, "idle")
    /\ UNCHANGED <<ownVars, playVars, netVars, count, again, games, throws, handled>>

\* Map::Update takes a player who logs out off the map.
RemovePlayer(t) ==
    /\ Updated(t) /\ player.removing
    /\ player' = [player EXCEPT !.inWorld = FALSE, !.removing = FALSE]
    /\ canLogout' = TRUE
    /\ UNCHANGED <<ownVars, login, loading, event, recently, netVars, threadVars,
                   boundVars>>

\* "sess->SetMap(_map);"
SetMap(t, from, to) ==
    /\ pc[t] = from
    /\ map' = dest[t]
    /\ Goto(t, to)
    /\ UNCHANGED <<busy, listed, queued, playVars, netVars, ret, dest, count, again,
                   boundVars>>

SetTargetOnly(t) ==
    /\ pc[t] = "add1"
    /\ player' = IF player.there THEN [player EXCEPT !.target = dest[t]] ELSE player
    /\ Goto(t, "leave")
    /\ UNCHANGED <<ownVars, login, loading, event, canLogout, recently, netVars,
                   ret, dest, count, again, boundVars>>

\* "_map->AddSession(sess);" and the target; a deleted player stays deleted.
AddSession(t) ==
    /\ pc[t] = "add1"
    /\ queued' = queued \cup {dest[t]}
    /\ player' = IF player.there THEN [player EXCEPT !.target = dest[t]] ELSE player
    /\ Goto(t, "leave")
    /\ UNCHANGED <<map, busy, listed, login, loading, event, canLogout, recently, netVars,
                   ret, dest, count, again, boundVars>>

\* RemovePlayerFromMap, and then the player is being teleported.
LeaveMap(t) ==
    /\ pc[t] = "leave"
    /\ player' = IF player.there
                 THEN [player EXCEPT !.inWorld = FALSE, !.far = TRUE] ELSE player
    /\ Goto(t, "set2")
    /\ UNCHANGED <<ownVars, login, loading, event, canLogout, recently, netVars,
                   ret, dest, count, again, boundVars>>

\* The second AddSession; Map::Update goes on with IsRemoveFromMap.
EndTeleport(t) ==
    /\ pc[t] = "add2"
    /\ queued' = queued \cup {dest[t]}
    /\ due' = due \cup {"ack"}
    /\ LET removed == player.there /\ player.removing /\ ret[t] = "idle"
       IN /\ player' = IF player.there
                       THEN [player EXCEPT !.target = dest[t],
                                           !.removing = @ /\ ~removed]
                       ELSE player
          /\ canLogout' = (canLogout \/ removed)
    /\ Goto(t, ret[t])
    /\ ret' = [ret EXCEPT ![t] = "idle"] /\ dest' = [dest EXCEPT ![t] = World]
    /\ UNCHANGED <<map, busy, listed, login, loading, event, recently, recv, open, socket,
                   grace, count, again, boundVars>>

\* ZoneTeleport: the next zone of the same map, without the client's help.
ZoneTeleport(t) ==
    /\ Updated(t) /\ player.inWorld
    /\ teleports < MaxTeleports /\ teleports' = teleports + 1
    /\ clash' = (clash \/ TeleportUnderWay)
    /\ player' = [player EXCEPT !.far = TRUE, !.changing = TRUE, !.inWorld = FALSE]
    /\ \E m \in Maps \ {t} : dest' = [dest EXCEPT ![t] = m]
    /\ ret' = [ret EXCEPT ![t] = "idle"]
    /\ Goto(t, "zoneSet")
    /\ UNCHANGED <<ownVars, login, loading, event, canLogout, recently, netVars,
                   count, again, games, throws, handled>>

EndZoneTeleport(t) ==
    /\ pc[t] = "zoneAdd"
    /\ queued' = queued \cup {dest[t]}
    /\ event' = dest[t]
    /\ Goto(t, "idle")
    /\ dest' = [dest EXCEPT ![t] = World]
    /\ UNCHANGED <<map, busy, listed, player, login, loading, canLogout, recently, netVars,
                   ret, count, again, boundVars>>

Teleport(t) ==
    \/ SetMap(t, "set1", "add1") \/ AddSession(t) \/ LeaveMap(t)
    \/ SetMap(t, "set2", "add2") \/ EndTeleport(t)
    \/ SetMap(t, "zoneSet", "zoneAdd") \/ EndZoneTeleport(t)

-----------------------------------------------------------------------------
Handle(t) ==
    \/ Requeue(t) \/ Drop(t) \/ HandleGame(t) \/ HandleLogoutRequest(t)
    \/ HandlePlayerLoginOpcode(t) \/ HandleLoadScreenOpcode(t) \/ HandleWorldPortAck(t)

Update(t) ==
    \/ TestBusy(t) \/ SetBusy(t) \/ Handle(t) \/ LeaveLoop(t)
    \/ HandlePlayerLogin(t) \/ HandOver(t) \/ LoginFails(t) \/ NoQuery(t)
    \/ Finish(t) \/ Dead(t) \/ KickPlayer(t)

UpdateSessions(t) ==
    TakeSession(t) \/ ForgetSession(t) \/ EnterMap(t) \/ StartUpdate(t)

\* What the threads do by themselves, and what happens to them.
Thread(t) == UpdateSessions(t) \/ Update(t) \/ Teleport(t) \/ RemovePlayer(t)
Events(t) == HandleRepopRequest(t) \/ UpdatePlayer(t) \/ ZoneTeleport(t) \/ HandlerThrows(t)
Client == Disconnect \/ \E kind \in Kinds : Send(kind)

Next ==
    \/ Client \/ HandleContinuePlayerLogin \/ QueryHolderDone
    \/ \E t \in Threads : Thread(t) \/ Events(t)

Fairness == WF_vars(QueryHolderDone) /\ \A t \in Threads : WF_vars(Thread(t))
Spec == Init /\ [][Next]_vars /\ Fairness

-----------------------------------------------------------------------------
(* Properties.                                                             *)

TypeOK ==
    /\ map \in Threads /\ busy \in BOOLEAN
    /\ listed \subseteq Threads /\ queued \subseteq Maps
    /\ player \in Players /\ login \in {"none", "connect", "query", "ready"}
    /\ loading \in BOOLEAN /\ event \in Threads /\ canLogout \in BOOLEAN
    /\ recently \in BOOLEAN
    /\ recv \in Seq(Packets) /\ open \in BOOLEAN /\ socket \in BOOLEAN
    /\ grace \in 0..1 /\ due \subseteq Kinds
    /\ pc \in [Threads -> {"idle", "test", "set", "dead", "thrown"} \cup Sections \cup Teleporting]
    /\ ret \in [Threads -> {"idle", "loop"}]
    /\ dest \in [Threads -> Threads]
    /\ count \in [Threads -> 0..(MaxProcessed + 1)] /\ again \in [Threads -> Seq(Packets)]
    /\ games \in Nat /\ teleports \in Nat /\ throws \in Nat /\ handled \in Nat
    /\ clash \in BOOLEAN

\* The flag m_sUpdate is tested and set in two steps; still, unless two
\* threads teleport the player at once, one thread at a time is in Update.
OneUpdater ==
    clash \/ \A t, u \in Threads : InUpdate(t) /\ InUpdate(u) => t = u

\* The thread m_map names updates the session, or will find it in its queue.
Adding(t) == pc[t] \in {"add1", "add2", "zoneAdd", "entered"}
NotLost ==
    \/ map \in listed \cup queued
    \/ \E t \in Threads : Adding(t) /\ dest[t] = map
    \/ map = World /\ ~socket

\* The packets of the game reach their handlers in the order they came in, unless
\* two threads have teleported the player at once.
InOrder == [][clash \/ handled' >= handled]_handled

\* A session whose client is gone leaves all the lists, and its character the
\* game: whichever thread had it, the world's thread gets it in the end.  An
\* exception that leaves m_sUpdate set, or a clash, may keep it for ever.
Destroyed == listed = {} /\ queued = {} /\ ~player.there
DisconnectedIsDestroyed == ~open ~> (Destroyed \/ throws > 0 \/ clash)
=============================================================================
