------------------------- MODULE WorldSession_proofs -------------------------
(***************************************************************************)
(* Types, who may update a session, and the order of its packets, for any   *)
(* number of maps and packets.                                             *)
(***************************************************************************)
EXTENDS WorldSession, SequenceTheorems, TLAPS

-----------------------------------------------------------------------------
(* TypeOK, in five parts that each use few of the others.                  *)

Places == {"idle", "test", "set", "dead", "thrown"} \cup Sections \cup Teleporting

PlaceType ==
    /\ pc \in [Threads -> Places]
    /\ ret \in [Threads -> {"idle", "loop"}]

PlayerType ==
    /\ player \in Players /\ map \in Threads /\ event \in Threads
    /\ dest \in [Threads -> Threads]

PacketType ==
    /\ recv \in Seq(Packets) /\ again \in [Threads -> Seq(Packets)]
    /\ count \in [Threads -> 0..(MaxProcessed + 1)]
    /\ games \in Nat /\ handled \in Nat

FlagType ==
    /\ busy \in BOOLEAN /\ listed \subseteq Threads /\ queued \subseteq Maps
    /\ login \in {"none", "connect", "query", "ready"}
    /\ loading \in BOOLEAN /\ canLogout \in BOOLEAN /\ recently \in BOOLEAN
    /\ open \in BOOLEAN /\ socket \in BOOLEAN /\ grace \in 0..1 /\ due \subseteq Kinds
    /\ teleports \in Nat /\ throws \in Nat /\ clash \in BOOLEAN

\* Where a thread that is about to add the session to a map got that map from.
MovesTo == Teleporting \cup {"entered"}
DestType == \A t \in Threads : pc[t] \in MovesTo => dest[t] \in Maps

Types == PlaceType /\ PlayerType /\ PacketType /\ FlagType /\ DestType

LEMMA PlaceTypeNext ==
  ASSUME PlaceType, [Next]_vars PROVE PlaceType'
<1> USE DEF vars, ownVars, playVars, netVars, threadVars, boundVars, PlaceType,
        Places, Sections, Teleporting
<1>1. ASSUME NEW kind \in Kinds, Send(kind) PROVE PlaceType'
  BY <1>1 DEF Send
<1>2. CASE Disconnect
  BY <1>2 DEF Disconnect
<1>3. CASE HandleContinuePlayerLogin
  BY <1>3 DEF HandleContinuePlayerLogin
<1>4. CASE QueryHolderDone
  BY <1>4 DEF QueryHolderDone
<1>5. CASE UNCHANGED vars
  BY <1>5
<1>6. ASSUME NEW t \in Threads, Thread(t) \/ Events(t) PROVE PlaceType'
  <2>1. CASE TestBusy(t)
    BY <2>1 DEF TestBusy, Goto
  <2>2. CASE SetBusy(t)
    BY <2>2 DEF SetBusy, Goto
  <2>3. CASE Requeue(t)
    BY <2>3 DEF Requeue, Take
  <2>4. CASE Drop(t)
    BY <2>4 DEF Drop, Take
  <2>5. CASE HandleGame(t)
    BY <2>5 DEF HandleGame, Take
  <2>6. CASE HandleLogoutRequest(t)
    BY <2>6 DEF HandleLogoutRequest, Take
  <2>7. CASE HandlePlayerLoginOpcode(t)
    BY <2>7 DEF HandlePlayerLoginOpcode, Take
  <2>8. CASE HandleLoadScreenOpcode(t)
    BY <2>8 DEF HandleLoadScreenOpcode, Take
  <2>9. CASE HandleWorldPortAck(t)
    BY <2>9 DEF HandleWorldPortAck, Take
  <2>10. CASE LeaveLoop(t)
    BY <2>10 DEF LeaveLoop, GoOn, Goto, Readd
  <2>11. CASE HandlePlayerLogin(t)
    BY <2>11 DEF HandlePlayerLogin, Goto, NoPlayer
  <2>12. CASE HandOver(t)
    BY <2>12 DEF HandOver, GoOn, Goto
  <2>13. CASE LoginFails(t)
    BY <2>13 DEF LoginFails, Goto
  <2>14. CASE NoQuery(t)
    BY <2>14 DEF NoQuery, GoOn, Goto
  <2>15. CASE Finish(t)
    BY <2>15 DEF Finish, Goto, LogoutPlayer, NoPlayer
  <2>16. CASE Dead(t)
    BY <2>16 DEF Dead, Goto, LogoutPlayer, NoPlayer
  <2>17. CASE KickPlayer(t)
    BY <2>17 DEF KickPlayer, Goto
  <2>18. CASE TakeSession(t)
    BY <2>18 DEF TakeSession
  <2>19. CASE ForgetSession(t)
    BY <2>19 DEF ForgetSession
  <2>20. CASE EnterMap(t)
    BY <2>20 DEF EnterMap, Skipped
  <2>21. CASE StartUpdate(t)
    BY <2>21 DEF StartUpdate, Goto
  <2>22. CASE SetMap(t, "set1", "add1")
    BY <2>22 DEF SetMap, Goto
  <2>23. CASE AddSession(t)
    BY <2>23 DEF AddSession, Goto
  <2>24. CASE LeaveMap(t)
    BY <2>24 DEF LeaveMap, Goto
  <2>25. CASE SetMap(t, "set2", "add2")
    BY <2>25 DEF SetMap, Goto
  <2>26. CASE EndTeleport(t)
    <3>1. /\ pc' = [pc EXCEPT ![t] = ret[t]]
          /\ ret' = [ret EXCEPT ![t] = "idle"]
      BY <2>26 DEF EndTeleport, Goto
    <3>2. ret[t] \in Places
      OBVIOUS
    <3> QED BY <3>1, <3>2
  <2>27. CASE SetMap(t, "zoneSet", "zoneAdd")
    BY <2>27 DEF SetMap, Goto
  <2>28. CASE EndZoneTeleport(t)
    BY <2>28 DEF EndZoneTeleport, Goto
  <2>29. CASE RemovePlayer(t)
    BY <2>29 DEF RemovePlayer, Updated
  <2>30. CASE HandleRepopRequest(t)
    BY <2>30 DEF HandleRepopRequest, Take, StartTeleport, Goto
  <2>31. CASE UpdatePlayer(t)
    BY <2>31 DEF UpdatePlayer, Updated, StartTeleport, Goto
  <2>32. CASE ZoneTeleport(t)
    BY <2>32 DEF ZoneTeleport, Updated, Goto
  <2>33. CASE HandlerThrows(t)
    BY <2>33 DEF HandlerThrows, Take, Goto
  <2> QED BY <1>6, <2>1, <2>2, <2>3, <2>4, <2>5, <2>6, <2>7, <2>8, <2>9, <2>10,
      <2>11, <2>12, <2>13, <2>14, <2>15, <2>16, <2>17, <2>18, <2>19, <2>20,
      <2>21, <2>22, <2>23, <2>24, <2>25, <2>26, <2>27, <2>28, <2>29, <2>30,
      <2>31, <2>32, <2>33 DEF Thread, Events, UpdateSessions, Update, Handle,
      Teleport
<1> QED BY <1>1, <1>2, <1>3, <1>4, <1>5, <1>6 DEF Next, Client

LEMMA PlayerTypeNext ==
  ASSUME PlayerType, [Next]_vars PROVE PlayerType'
<1> USE DEF vars, ownVars, playVars, netVars, threadVars, boundVars,
        PlayerType, Players, Threads
<1>1. ASSUME NEW kind \in Kinds, Send(kind) PROVE PlayerType'
  BY <1>1 DEF Send
<1>2. CASE Disconnect
  BY <1>2 DEF Disconnect
<1>3. CASE HandleContinuePlayerLogin
  BY <1>3 DEF HandleContinuePlayerLogin
<1>4. CASE QueryHolderDone
  BY <1>4 DEF QueryHolderDone
<1>5. CASE UNCHANGED vars
  BY <1>5
<1>6. ASSUME NEW t \in Threads, Thread(t) \/ Events(t) PROVE PlayerType'
  <2>1. CASE TestBusy(t)
    BY <2>1 DEF TestBusy, Goto
  <2>2. CASE SetBusy(t)
    BY <2>2 DEF SetBusy, Goto
  <2>3. CASE Requeue(t)
    BY <2>3 DEF Requeue, Take
  <2>4. CASE Drop(t)
    BY <2>4 DEF Drop, Take
  <2>5. CASE HandleGame(t)
    BY <2>5 DEF HandleGame, Take
  <2>6. CASE HandleLogoutRequest(t)
    BY <2>6 DEF HandleLogoutRequest, Take
  <2>7. CASE HandlePlayerLoginOpcode(t)
    BY <2>7 DEF HandlePlayerLoginOpcode, Take
  <2>8. CASE HandleLoadScreenOpcode(t)
    BY <2>8 DEF HandleLoadScreenOpcode, Take
  <2>9. CASE HandleWorldPortAck(t)
    BY <2>9 DEF HandleWorldPortAck, Take
  <2>10. CASE LeaveLoop(t)
    BY <2>10 DEF LeaveLoop, GoOn, Goto, Readd
  <2>11. CASE HandlePlayerLogin(t)
    <3>1. PICK m \in Maps :
             /\ player' = [NoPlayer EXCEPT !.there = TRUE, !.at = m, !.changing = TRUE]
             /\ map' = m /\ dest' = [dest EXCEPT ![t] = m]
      BY <2>11 DEF HandlePlayerLogin
    <3>2. player' = [there |-> TRUE, at |-> m, inWorld |-> FALSE, changing |-> TRUE,
                     far |-> FALSE, removing |-> FALSE, target |-> World]
      BY <3>1 DEF NoPlayer
    <3>3. player' \in Players
      BY <3>2
    <3>4. dest' \in [Threads -> Threads] /\ map' \in Threads
      BY <3>1
    <3> QED BY <2>11, <3>3, <3>4 DEF HandlePlayerLogin
  <2>12. CASE HandOver(t)
    BY <2>12 DEF HandOver, GoOn, Goto
  <2>13. CASE LoginFails(t)
    BY <2>13 DEF LoginFails, Goto
  <2>14. CASE NoQuery(t)
    BY <2>14 DEF NoQuery, GoOn, Goto
  <2>15. CASE Finish(t)
    <3>1. player' \in {player, NoPlayer} /\ NoPlayer \in Players
      BY <2>15 DEF Finish, LogoutPlayer, NoPlayer
    <3> QED BY <2>15, <3>1 DEF Finish
  <2>16. CASE Dead(t)
    BY <2>16 DEF Dead, Goto, LogoutPlayer, NoPlayer
  <2>17. CASE KickPlayer(t)
    BY <2>17 DEF KickPlayer, Goto
  <2>18. CASE TakeSession(t)
    BY <2>18 DEF TakeSession
  <2>19. CASE ForgetSession(t)
    BY <2>19 DEF ForgetSession
  <2>20. CASE EnterMap(t)
    BY <2>20 DEF EnterMap, Skipped
  <2>21. CASE StartUpdate(t)
    BY <2>21 DEF StartUpdate, Goto
  <2>22. CASE SetMap(t, "set1", "add1")
    BY <2>22 DEF SetMap, Goto
  <2>23. CASE AddSession(t)
    BY <2>23 DEF AddSession, Goto
  <2>24. CASE LeaveMap(t)
    BY <2>24 DEF LeaveMap, Goto
  <2>25. CASE SetMap(t, "set2", "add2")
    BY <2>25 DEF SetMap, Goto
  <2>26. CASE EndTeleport(t)
    BY <2>26 DEF EndTeleport
  <2>27. CASE SetMap(t, "zoneSet", "zoneAdd")
    BY <2>27 DEF SetMap, Goto
  <2>28. CASE EndZoneTeleport(t)
    BY <2>28 DEF EndZoneTeleport, Goto
  <2>29. CASE RemovePlayer(t)
    BY <2>29 DEF RemovePlayer, Updated
  <2>30. CASE HandleRepopRequest(t)
    BY <2>30 DEF HandleRepopRequest, Take, StartTeleport, Goto
  <2>31. CASE UpdatePlayer(t)
    BY <2>31 DEF UpdatePlayer, Updated, StartTeleport, Goto
  <2>32. CASE ZoneTeleport(t)
    <3>1. PICK m \in Maps : dest' = [dest EXCEPT ![t] = m]
      BY <2>32 DEF ZoneTeleport
    <3>2. player' \in Players
      BY <2>32 DEF ZoneTeleport
    <3> QED BY <2>32, <3>1, <3>2 DEF ZoneTeleport
  <2>33. CASE HandlerThrows(t)
    BY <2>33 DEF HandlerThrows, Take, Goto
  <2> QED BY <1>6, <2>1, <2>2, <2>3, <2>4, <2>5, <2>6, <2>7, <2>8, <2>9, <2>10,
      <2>11, <2>12, <2>13, <2>14, <2>15, <2>16, <2>17, <2>18, <2>19, <2>20,
      <2>21, <2>22, <2>23, <2>24, <2>25, <2>26, <2>27, <2>28, <2>29, <2>30,
      <2>31, <2>32, <2>33 DEF Thread, Events, UpdateSessions, Update, Handle,
      Teleport
<1> QED BY <1>1, <1>2, <1>3, <1>4, <1>5, <1>6 DEF Next, Client

\* What Take leaves of the queue, and what it has taken, are packets.
LEMMA TakeType ==
  ASSUME PacketType, NEW t \in Threads, NEW kinds, Take(t, kinds)
  PROVE  /\ recv' \in Seq(Packets)
         /\ count' \in [Threads -> 0..(MaxProcessed + 1)]
         /\ Head(recv) \in Packets /\ Head(recv).id \in Nat
<1>1. recv \in Seq(Packets) /\ recv # <<>> /\ recv' = Tail(recv)
  BY DEF PacketType, Take
<1>2. recv' \in Seq(Packets) /\ Head(recv) \in Packets
  BY <1>1, HeadTailProperties
<1>3. count' \in [Threads -> 0..(MaxProcessed + 1)]
  BY BoundsAssumption DEF PacketType, Take
<1> QED BY <1>2, <1>3 DEF Packets

LEMMA PacketTypeNext ==
  ASSUME PacketType, [Next]_vars PROVE PacketType'
<1> USE BoundsAssumption DEF vars, ownVars, playVars, netVars, threadVars, boundVars, PacketType
<1>1. ASSUME NEW kind \in Kinds, Send(kind) PROVE PacketType'
  <2>1. games' \in Nat /\ [kind |-> kind, id |-> games'] \in Packets
    BY <1>1 DEF Send, Packets
  <2>2. recv' \in Seq(Packets)
    BY <1>1, <2>1, AppendProperties DEF Send
  <2> QED BY <1>1, <2>1, <2>2 DEF Send
<1>2. CASE Disconnect
  BY <1>2 DEF Disconnect
<1>3. CASE HandleContinuePlayerLogin
  BY <1>3 DEF HandleContinuePlayerLogin
<1>4. CASE QueryHolderDone
  BY <1>4 DEF QueryHolderDone
<1>5. CASE UNCHANGED vars
  BY <1>5
<1>6. ASSUME NEW t \in Threads, Thread(t) \/ Events(t) PROVE PacketType'
  <2>1. CASE TestBusy(t)
    BY <2>1 DEF TestBusy, Goto
  <2>2. CASE SetBusy(t)
    BY <2>2 DEF SetBusy, Goto
  <2>3. CASE Requeue(t)
    <3>1. Take(t, {"game", "logout"})
          /\ again' = [again EXCEPT ![t] = Append(again[t], Head(recv))]
      BY <2>3 DEF Requeue
    <3>2. Append(again[t], Head(recv)) \in Seq(Packets)
      BY <3>1, TakeType, AppendProperties
    <3> QED BY <2>3, <3>1, <3>2, TakeType DEF Requeue
  <2>4. CASE Drop(t)
    <3>1. PICK kinds : Take(t, kinds)
      BY <2>4 DEF Drop
    <3> QED BY <2>4, <3>1, TakeType DEF Drop
  <2>5. CASE HandleGame(t)
    <3>1. PICK kinds : Take(t, kinds)
      BY <2>5 DEF HandleGame
    <3> QED BY <2>5, <3>1, TakeType DEF HandleGame
  <2>6. CASE HandleLogoutRequest(t)
    <3>1. PICK kinds : Take(t, kinds)
      BY <2>6 DEF HandleLogoutRequest
    <3> QED BY <2>6, <3>1, TakeType DEF HandleLogoutRequest
  <2>7. CASE HandlePlayerLoginOpcode(t)
    <3>1. PICK kinds : Take(t, kinds)
      BY <2>7 DEF HandlePlayerLoginOpcode
    <3> QED BY <2>7, <3>1, TakeType DEF HandlePlayerLoginOpcode
  <2>8. CASE HandleLoadScreenOpcode(t)
    <3>1. PICK kinds : Take(t, kinds)
      BY <2>8 DEF HandleLoadScreenOpcode
    <3> QED BY <2>8, <3>1, TakeType DEF HandleLoadScreenOpcode
  <2>9. CASE HandleWorldPortAck(t)
    <3>1. PICK kinds : Take(t, kinds)
      BY <2>9 DEF HandleWorldPortAck
    <3> QED BY <2>9, <3>1, TakeType DEF HandleWorldPortAck
  <2>10. CASE LeaveLoop(t)
    BY <2>10 DEF LeaveLoop, GoOn, Goto, Readd
  <2>11. CASE HandlePlayerLogin(t)
    BY <2>11 DEF HandlePlayerLogin, Goto, NoPlayer
  <2>12. CASE HandOver(t)
    BY <2>12 DEF HandOver, GoOn, Goto
  <2>13. CASE LoginFails(t)
    BY <2>13 DEF LoginFails, Goto
  <2>14. CASE NoQuery(t)
    BY <2>14 DEF NoQuery, GoOn, Goto
  <2>15. CASE Finish(t)
    BY <2>15 DEF Finish, Goto, LogoutPlayer, NoPlayer
  <2>16. CASE Dead(t)
    BY <2>16 DEF Dead, Goto, LogoutPlayer, NoPlayer
  <2>17. CASE KickPlayer(t)
    BY <2>17 DEF KickPlayer, Goto
  <2>18. CASE TakeSession(t)
    BY <2>18 DEF TakeSession
  <2>19. CASE ForgetSession(t)
    BY <2>19 DEF ForgetSession
  <2>20. CASE EnterMap(t)
    BY <2>20 DEF EnterMap, Skipped
  <2>21. CASE StartUpdate(t)
    BY <2>21 DEF StartUpdate, Goto
  <2>22. CASE SetMap(t, "set1", "add1")
    BY <2>22 DEF SetMap, Goto
  <2>23. CASE AddSession(t)
    BY <2>23 DEF AddSession, Goto
  <2>24. CASE LeaveMap(t)
    BY <2>24 DEF LeaveMap, Goto
  <2>25. CASE SetMap(t, "set2", "add2")
    BY <2>25 DEF SetMap, Goto
  <2>26. CASE EndTeleport(t)
    BY <2>26 DEF EndTeleport
  <2>27. CASE SetMap(t, "zoneSet", "zoneAdd")
    BY <2>27 DEF SetMap, Goto
  <2>28. CASE EndZoneTeleport(t)
    BY <2>28 DEF EndZoneTeleport, Goto
  <2>29. CASE RemovePlayer(t)
    BY <2>29 DEF RemovePlayer, Updated
  <2>30. CASE HandleRepopRequest(t)
    <3>1. PICK kinds : Take(t, kinds)
      BY <2>30 DEF HandleRepopRequest
    <3> QED BY <2>30, <3>1, TakeType DEF HandleRepopRequest, StartTeleport
  <2>31. CASE UpdatePlayer(t)
    BY <2>31 DEF UpdatePlayer, Updated, StartTeleport, Goto
  <2>32. CASE ZoneTeleport(t)
    BY <2>32 DEF ZoneTeleport, Updated, Goto
  <2>33. CASE HandlerThrows(t)
    <3>1. PICK kinds : Take(t, kinds)
      BY <2>33 DEF HandlerThrows
    <3> QED BY <2>33, <3>1, TakeType DEF HandlerThrows
  <2> QED BY <1>6, <2>1, <2>2, <2>3, <2>4, <2>5, <2>6, <2>7, <2>8, <2>9, <2>10,
      <2>11, <2>12, <2>13, <2>14, <2>15, <2>16, <2>17, <2>18, <2>19, <2>20,
      <2>21, <2>22, <2>23, <2>24, <2>25, <2>26, <2>27, <2>28, <2>29, <2>30,
      <2>31, <2>32, <2>33 DEF Thread, Events, UpdateSessions, Update, Handle,
      Teleport
<1> QED BY <1>1, <1>2, <1>3, <1>4, <1>5, <1>6 DEF Next, Client

LEMMA FlagTypeNext ==
  ASSUME FlagType, PlayerType, DestType, [Next]_vars PROVE FlagType'
<1> USE DEF vars, ownVars, playVars, netVars, threadVars, boundVars, FlagType
<1>1. ASSUME NEW kind \in Kinds, Send(kind) PROVE FlagType'
  BY <1>1 DEF Send
<1>2. CASE Disconnect
  BY <1>2 DEF Disconnect
<1>3. CASE HandleContinuePlayerLogin
  BY <1>3 DEF HandleContinuePlayerLogin
<1>4. CASE QueryHolderDone
  BY <1>4 DEF QueryHolderDone
<1>5. CASE UNCHANGED vars
  BY <1>5
<1>6. ASSUME NEW t \in Threads, Thread(t) \/ Events(t) PROVE FlagType'
  <2>1. CASE TestBusy(t)
    BY <2>1 DEF TestBusy, Goto
  <2>2. CASE SetBusy(t)
    BY <2>2 DEF SetBusy, Goto
  <2>3. CASE Requeue(t)
    BY <2>3 DEF Requeue, Take
  <2>4. CASE Drop(t)
    BY <2>4 DEF Drop, Take
  <2>5. CASE HandleGame(t)
    BY <2>5 DEF HandleGame, Take
  <2>6. CASE HandleLogoutRequest(t)
    BY <2>6 DEF HandleLogoutRequest, Take
  <2>7. CASE HandlePlayerLoginOpcode(t)
    BY <2>7 DEF HandlePlayerLoginOpcode, Take
  <2>8. CASE HandleLoadScreenOpcode(t)
    BY <2>8 DEF HandleLoadScreenOpcode, Take
  <2>9. CASE HandleWorldPortAck(t)
    BY <2>9 DEF HandleWorldPortAck, Take
  <2>10. CASE LeaveLoop(t)
    BY <2>10 DEF LeaveLoop, GoOn, Goto, Readd
  <2>11. CASE HandlePlayerLogin(t)
    BY <2>11 DEF HandlePlayerLogin, Goto, NoPlayer, Kinds
  <2>12. CASE HandOver(t)
    <3>1. dest[t] \in Maps
      BY <2>12 DEF HandOver, DestType, MovesTo, Teleporting
    <3> QED BY <2>12, <3>1 DEF HandOver, GoOn
  <2>13. CASE LoginFails(t)
    <3>1. grace' \in 0..1
      BY <2>13 DEF LoginFails
    <3> QED BY <2>13, <3>1 DEF LoginFails
  <2>14. CASE NoQuery(t)
    BY <2>14 DEF NoQuery, GoOn, Goto
  <2>15. CASE Finish(t)
    <3>1. grace' \in 0..1
      BY <2>15 DEF Finish
    <3> QED BY <2>15, <3>1 DEF Finish, LogoutPlayer, Kinds
  <2>16. CASE Dead(t)
    BY <2>16 DEF Dead, Goto, LogoutPlayer, NoPlayer, Kinds
  <2>17. CASE KickPlayer(t)
    <3>1. grace' \in 0..1
      BY <2>17 DEF KickPlayer
    <3> QED BY <2>17, <3>1 DEF KickPlayer
  <2>18. CASE TakeSession(t)
    BY <2>18 DEF TakeSession
  <2>19. CASE ForgetSession(t)
    BY <2>19 DEF ForgetSession
  <2>20. CASE EnterMap(t)
    BY <2>20 DEF EnterMap, Skipped
  <2>21. CASE StartUpdate(t)
    BY <2>21 DEF StartUpdate, Goto
  <2>22. CASE SetMap(t, "set1", "add1")
    BY <2>22 DEF SetMap, Goto
  <2>23. CASE AddSession(t)
    <3>1. dest[t] \in Maps
      BY <2>23 DEF AddSession, DestType, MovesTo, Teleporting
    <3> QED BY <2>23, <3>1 DEF AddSession
  <2>24. CASE LeaveMap(t)
    BY <2>24 DEF LeaveMap, Goto
  <2>25. CASE SetMap(t, "set2", "add2")
    BY <2>25 DEF SetMap, Goto
  <2>26. CASE EndTeleport(t)
    <3>1. dest[t] \in Maps
      BY <2>26 DEF EndTeleport, DestType, MovesTo, Teleporting
    <3> QED BY <2>26, <3>1 DEF EndTeleport, Kinds
  <2>27. CASE SetMap(t, "zoneSet", "zoneAdd")
    BY <2>27 DEF SetMap, Goto
  <2>28. CASE EndZoneTeleport(t)
    <3>1. dest[t] \in Maps
      BY <2>28 DEF EndZoneTeleport, DestType, MovesTo, Teleporting
    <3> QED BY <2>28, <3>1 DEF EndZoneTeleport
  <2>29. CASE RemovePlayer(t)
    BY <2>29 DEF RemovePlayer, Updated
  <2>30. CASE HandleRepopRequest(t)
    BY <2>30 DEF HandleRepopRequest, Take, StartTeleport, Goto
  <2>31. CASE UpdatePlayer(t)
    BY <2>31 DEF UpdatePlayer, Updated, StartTeleport, Goto
  <2>32. CASE ZoneTeleport(t)
    BY <2>32 DEF ZoneTeleport, Updated, Goto
  <2>33. CASE HandlerThrows(t)
    BY <2>33 DEF HandlerThrows, Take, Goto
  <2> QED BY <1>6, <2>1, <2>2, <2>3, <2>4, <2>5, <2>6, <2>7, <2>8, <2>9, <2>10,
      <2>11, <2>12, <2>13, <2>14, <2>15, <2>16, <2>17, <2>18, <2>19, <2>20,
      <2>21, <2>22, <2>23, <2>24, <2>25, <2>26, <2>27, <2>28, <2>29, <2>30,
      <2>31, <2>32, <2>33 DEF Thread, Events, UpdateSessions, Update, Handle,
      Teleport
<1> QED BY <1>1, <1>2, <1>3, <1>4, <1>5, <1>6 DEF Next, Client

LEMMA DestTypeNext ==
  ASSUME PlaceType, PlayerType, DestType, [Next]_vars PROVE DestType'
<1> USE DEF vars, ownVars, playVars, netVars, threadVars, boundVars, PlaceType,
        Places, Sections, Teleporting, DestType, MovesTo, PlayerType
<1>1. ASSUME NEW kind \in Kinds, Send(kind) PROVE DestType'
  BY <1>1 DEF Send
<1>2. CASE Disconnect
  BY <1>2 DEF Disconnect
<1>3. CASE HandleContinuePlayerLogin
  BY <1>3 DEF HandleContinuePlayerLogin
<1>4. CASE QueryHolderDone
  BY <1>4 DEF QueryHolderDone
<1>5. CASE UNCHANGED vars
  BY <1>5
<1>6. ASSUME NEW t \in Threads, Thread(t) \/ Events(t) PROVE DestType'
  <2>1. CASE TestBusy(t)
    BY <2>1 DEF TestBusy, Goto
  <2>2. CASE SetBusy(t)
    BY <2>2 DEF SetBusy, Goto
  <2>3. CASE Requeue(t)
    BY <2>3 DEF Requeue, Take
  <2>4. CASE Drop(t)
    BY <2>4 DEF Drop, Take
  <2>5. CASE HandleGame(t)
    BY <2>5 DEF HandleGame, Take
  <2>6. CASE HandleLogoutRequest(t)
    BY <2>6 DEF HandleLogoutRequest, Take
  <2>7. CASE HandlePlayerLoginOpcode(t)
    BY <2>7 DEF HandlePlayerLoginOpcode, Take
  <2>8. CASE HandleLoadScreenOpcode(t)
    BY <2>8 DEF HandleLoadScreenOpcode, Take
  <2>9. CASE HandleWorldPortAck(t)
    BY <2>9 DEF HandleWorldPortAck, Take
  <2>10. CASE LeaveLoop(t)
    BY <2>10 DEF LeaveLoop, GoOn, Goto, Readd
  <2>11. CASE HandlePlayerLogin(t)
    BY <2>11 DEF HandlePlayerLogin, Goto, NoPlayer
  <2>12. CASE HandOver(t)
    BY <2>12 DEF HandOver, GoOn, Goto
  <2>13. CASE LoginFails(t)
    BY <2>13 DEF LoginFails, Goto
  <2>14. CASE NoQuery(t)
    BY <2>14 DEF NoQuery, GoOn, Goto
  <2>15. CASE Finish(t)
    BY <2>15 DEF Finish, Goto, LogoutPlayer, NoPlayer
  <2>16. CASE Dead(t)
    BY <2>16 DEF Dead, Goto, LogoutPlayer, NoPlayer
  <2>17. CASE KickPlayer(t)
    BY <2>17 DEF KickPlayer, Goto
  <2>18. CASE TakeSession(t)
    BY <2>18 DEF TakeSession
  <2>19. CASE ForgetSession(t)
    BY <2>19 DEF ForgetSession
  <2>20. CASE EnterMap(t)
    BY <2>20 DEF EnterMap, Skipped
  <2>21. CASE StartUpdate(t)
    BY <2>21 DEF StartUpdate, Goto
  <2>22. CASE SetMap(t, "set1", "add1")
    BY <2>22 DEF SetMap, Goto
  <2>23. CASE AddSession(t)
    BY <2>23 DEF AddSession, Goto
  <2>24. CASE LeaveMap(t)
    BY <2>24 DEF LeaveMap, Goto
  <2>25. CASE SetMap(t, "set2", "add2")
    BY <2>25 DEF SetMap, Goto
  <2>26. CASE EndTeleport(t)
    <3>1. ret[t] \in {"idle", "loop"}
      OBVIOUS
    <3>2. pc' = [pc EXCEPT ![t] = ret[t]] /\ dest' = [dest EXCEPT ![t] = World]
      BY <2>26 DEF EndTeleport, Goto
    <3> QED BY <3>1, <3>2
  <2>27. CASE SetMap(t, "zoneSet", "zoneAdd")
    BY <2>27 DEF SetMap, Goto
  <2>28. CASE EndZoneTeleport(t)
    BY <2>28 DEF EndZoneTeleport, Goto
  <2>29. CASE RemovePlayer(t)
    BY <2>29 DEF RemovePlayer, Updated
  <2>30. CASE HandleRepopRequest(t)
    BY <2>30 DEF HandleRepopRequest, Take, StartTeleport, Goto
  <2>31. CASE UpdatePlayer(t)
    BY <2>31 DEF UpdatePlayer, Updated, StartTeleport, Goto
  <2>32. CASE ZoneTeleport(t)
    BY <2>32 DEF ZoneTeleport, Updated, Goto
  <2>33. CASE HandlerThrows(t)
    BY <2>33 DEF HandlerThrows, Take, Goto
  <2> QED BY <1>6, <2>1, <2>2, <2>3, <2>4, <2>5, <2>6, <2>7, <2>8, <2>9, <2>10,
      <2>11, <2>12, <2>13, <2>14, <2>15, <2>16, <2>17, <2>18, <2>19, <2>20,
      <2>21, <2>22, <2>23, <2>24, <2>25, <2>26, <2>27, <2>28, <2>29, <2>30,
      <2>31, <2>32, <2>33 DEF Thread, Events, UpdateSessions, Update, Handle,
      Teleport
<1> QED BY <1>1, <1>2, <1>3, <1>4, <1>5, <1>6 DEF Next, Client

LEMMA InitTypes ==
  ASSUME Init PROVE Types
<1>1. World \in Threads /\ NoPlayer \in Players
  BY DEF Threads, Players, NoPlayer
<1>2. <<>> \in Seq(Packets)
  BY EmptySeq
<1>3. 0 \in Nat /\ 0 \in 0..(MaxProcessed + 1)
  BY BoundsAssumption
<1>4. PlaceType
  BY DEF Init, PlaceType, Places
<1>5. PlayerType
  BY <1>1 DEF Init, PlayerType
<1>6. PacketType
  BY <1>2, <1>3 DEF Init, PacketType
<1>7. FlagType
  <2>1. grace \in 0..1 /\ teleports \in Nat /\ throws \in Nat
    BY DEF Init
  <2>2. listed \subseteq Threads /\ queued \subseteq Maps /\ due \subseteq Kinds
    BY <1>1 DEF Init, Kinds
  <2> QED BY <2>1, <2>2 DEF Init, FlagType
<1>8. DestType
  BY DEF Init, DestType, MovesTo, Teleporting
<1> QED BY <1>4, <1>5, <1>6, <1>7, <1>8 DEF Types

\* Every variable of the session keeps its type, for any maps and any bounds.
THEOREM TypeCorrect == Spec => []TypeOK
<1>1. Init => Types
  BY InitTypes
<1>2. Types /\ [Next]_vars => Types'
  BY PlaceTypeNext, PlayerTypeNext, PacketTypeNext, FlagTypeNext, DestTypeNext DEF Types
<1>3. Types => TypeOK
  BY DEF Types, PlaceType, PlayerType, PacketType, FlagType, Places, TypeOK
<1> QED BY <1>1, <1>2, <1>3, PTL DEF Spec

-----------------------------------------------------------------------------
(* Who may update.                                                         *)

Owns == {"test", "set", "queries", "finish", "dead", "set1", "zoneSet"}
Leaves == {"leave", "set2"}
Arrives == {"add1", "add2", "zoneAdd"}

\* The thread that is past its test of m_map is the one m_map names, except
\* between the SetMap calls of a teleport; a second teleport would break that.
FollowsMap ==
    /\ \A t \in Threads : pc[t] \in Owns => map = t
    /\ \A t \in Threads : pc[t] \in Leaves => map \in {t, dest[t]}
    /\ \A t \in Threads : pc[t] \in Arrives => map = dest[t]

\* One teleport at a time, of a player that is there; a login has no player
\* yet, so HandlePlayerLogin never moves a session that is being teleported.
TeleportAlone ==
    /\ \A t, u \in Threads : pc[t] \in Teleporting /\ pc[u] \in Teleporting => t = u
    /\ \A t \in Threads : pc[t] \in Teleporting => player.there
    /\ login # "none" => ~player.there

\* m_sUpdate is set while a thread is in Update, and whoever is about to set
\* it is alone.
UpdatesAlone ==
    /\ \A t \in Threads : InUpdate(t) => busy
    /\ \A t, u \in Threads : InUpdate(t) /\ (InUpdate(u) \/ pc[u] = "set") => t = u

Exclusive == FollowsMap /\ TeleportAlone /\ UpdatesAlone

LEMMA ClashStays ==
  ASSUME clash, [Next]_vars PROVE clash'
<1> USE DEF vars, ownVars, playVars, netVars, threadVars, boundVars
<1>1. ASSUME NEW kind \in Kinds, Send(kind) PROVE clash'
  BY <1>1 DEF Send
<1>2. CASE Disconnect
  BY <1>2 DEF Disconnect
<1>3. CASE HandleContinuePlayerLogin
  BY <1>3 DEF HandleContinuePlayerLogin
<1>4. CASE QueryHolderDone
  BY <1>4 DEF QueryHolderDone
<1>5. CASE UNCHANGED vars
  BY <1>5
<1>6. ASSUME NEW t \in Threads, Thread(t) \/ Events(t) PROVE clash'
  <2>1. CASE TestBusy(t)
    BY <2>1 DEF TestBusy, Goto
  <2>2. CASE SetBusy(t)
    BY <2>2 DEF SetBusy, Goto
  <2>3. CASE Requeue(t)
    BY <2>3 DEF Requeue, Take
  <2>4. CASE Drop(t)
    BY <2>4 DEF Drop, Take
  <2>5. CASE HandleGame(t)
    BY <2>5 DEF HandleGame, Take
  <2>6. CASE HandleLogoutRequest(t)
    BY <2>6 DEF HandleLogoutRequest, Take
  <2>7. CASE HandlePlayerLoginOpcode(t)
    BY <2>7 DEF HandlePlayerLoginOpcode, Take
  <2>8. CASE HandleLoadScreenOpcode(t)
    BY <2>8 DEF HandleLoadScreenOpcode, Take
  <2>9. CASE HandleWorldPortAck(t)
    BY <2>9 DEF HandleWorldPortAck, Take
  <2>10. CASE LeaveLoop(t)
    BY <2>10 DEF LeaveLoop, GoOn, Goto, Readd
  <2>11. CASE HandlePlayerLogin(t)
    BY <2>11 DEF HandlePlayerLogin, Goto, NoPlayer
  <2>12. CASE HandOver(t)
    BY <2>12 DEF HandOver, GoOn, Goto
  <2>13. CASE LoginFails(t)
    BY <2>13 DEF LoginFails, Goto
  <2>14. CASE NoQuery(t)
    BY <2>14 DEF NoQuery, GoOn, Goto
  <2>15. CASE Finish(t)
    BY <2>15 DEF Finish, Goto, LogoutPlayer, NoPlayer
  <2>16. CASE Dead(t)
    BY <2>16 DEF Dead, Goto, LogoutPlayer, NoPlayer
  <2>17. CASE KickPlayer(t)
    BY <2>17 DEF KickPlayer, Goto
  <2>18. CASE TakeSession(t)
    BY <2>18 DEF TakeSession
  <2>19. CASE ForgetSession(t)
    BY <2>19 DEF ForgetSession
  <2>20. CASE EnterMap(t)
    BY <2>20 DEF EnterMap, Skipped
  <2>21. CASE StartUpdate(t)
    BY <2>21 DEF StartUpdate, Goto
  <2>22. CASE SetMap(t, "set1", "add1")
    BY <2>22 DEF SetMap, Goto
  <2>23. CASE AddSession(t)
    BY <2>23 DEF AddSession, Goto
  <2>24. CASE LeaveMap(t)
    BY <2>24 DEF LeaveMap, Goto
  <2>25. CASE SetMap(t, "set2", "add2")
    BY <2>25 DEF SetMap, Goto
  <2>26. CASE EndTeleport(t)
    BY <2>26 DEF EndTeleport
  <2>27. CASE SetMap(t, "zoneSet", "zoneAdd")
    BY <2>27 DEF SetMap, Goto
  <2>28. CASE EndZoneTeleport(t)
    BY <2>28 DEF EndZoneTeleport, Goto
  <2>29. CASE RemovePlayer(t)
    BY <2>29 DEF RemovePlayer, Updated
  <2>30. CASE HandleRepopRequest(t)
    BY <2>30 DEF HandleRepopRequest, Take, StartTeleport, Goto
  <2>31. CASE UpdatePlayer(t)
    BY <2>31 DEF UpdatePlayer, Updated, StartTeleport, Goto
  <2>32. CASE ZoneTeleport(t)
    BY <2>32 DEF ZoneTeleport, Updated, Goto
  <2>33. CASE HandlerThrows(t)
    BY <2>33 DEF HandlerThrows, Take, Goto
  <2> QED BY <1>6, <2>1, <2>2, <2>3, <2>4, <2>5, <2>6, <2>7, <2>8, <2>9, <2>10,
      <2>11, <2>12, <2>13, <2>14, <2>15, <2>16, <2>17, <2>18, <2>19, <2>20,
      <2>21, <2>22, <2>23, <2>24, <2>25, <2>26, <2>27, <2>28, <2>29, <2>30,
      <2>31, <2>32, <2>33 DEF Thread, Events, UpdateSessions, Update, Handle,
      Teleport
<1> QED BY <1>1, <1>2, <1>3, <1>4, <1>5, <1>6 DEF Next, Client

LEMMA ExclusiveNext ==
  ASSUME Types, Exclusive, ~clash, [Next]_vars
  PROVE  clash' \/ Exclusive'
<1> DEFINE Goal == clash' \/ Exclusive'
<1> USE DEF vars, ownVars, playVars, netVars, threadVars, boundVars, Types,
        PlaceType, PlayerType, FlagType, Places, Sections, Teleporting,
        InUpdate, Exclusive, FollowsMap, TeleportAlone, UpdatesAlone, Owns,
        Leaves, Arrives
<1>1. ASSUME NEW kind \in Kinds, Send(kind) PROVE Goal
  BY <1>1 DEF Send
<1>2. CASE Disconnect
  BY <1>2 DEF Disconnect
<1>3. CASE HandleContinuePlayerLogin
  BY <1>3 DEF HandleContinuePlayerLogin
<1>4. CASE QueryHolderDone
  BY <1>4 DEF QueryHolderDone
<1>5. CASE UNCHANGED vars
  BY <1>5
<1>6. ASSUME NEW t \in Threads, Thread(t) \/ Events(t) PROVE Goal
  <2>1. CASE TestBusy(t)
    BY <2>1 DEF TestBusy, Goto
  <2>2. CASE SetBusy(t)
    BY <2>2 DEF SetBusy, Goto
  <2>3. CASE Requeue(t)
    BY <2>3 DEF Requeue, Take
  <2>4. CASE Drop(t)
    BY <2>4 DEF Drop, Take
  <2>5. CASE HandleGame(t)
    BY <2>5 DEF HandleGame, Take
  <2>6. CASE HandleLogoutRequest(t)
    BY <2>6 DEF HandleLogoutRequest, Take, Players
  <2>7. CASE HandlePlayerLoginOpcode(t)
    BY <2>7 DEF HandlePlayerLoginOpcode, Take
  <2>8. CASE HandleLoadScreenOpcode(t)
    BY <2>8 DEF HandleLoadScreenOpcode, Take
  <2>9. CASE HandleWorldPortAck(t)
    <3> DEFINE left == [player EXCEPT !.far = FALSE, !.target = World]
    <3>1. \/ player' = left
          \/ player' = [left EXCEPT !.at = t, !.inWorld = TRUE]
          \/ player' = [left EXCEPT !.changing = TRUE]
      BY <2>9 DEF HandleWorldPortAck
    <3>2. player'.there = player.there
      BY <3>1 DEF Players
    <3> QED BY <2>9, <3>2 DEF HandleWorldPortAck, Take
  <2>10. CASE LeaveLoop(t)
    <3>1. pc[t] = "loop" /\ GoOn(t, "queries")
          /\ UNCHANGED <<map, player, login, ret, dest>>
      BY <2>10 DEF LeaveLoop
    <3> QED BY <3>1 DEF GoOn, Goto
  <2>11. CASE HandlePlayerLogin(t)
    BY <2>11 DEF HandlePlayerLogin, Goto, NoPlayer, Players
  <2>12. CASE HandOver(t)
    BY <2>12 DEF HandOver, GoOn, Goto
  <2>13. CASE LoginFails(t)
    BY <2>13 DEF LoginFails, Goto
  <2>14. CASE NoQuery(t)
    BY <2>14 DEF NoQuery, GoOn, Goto
  <2>15. CASE Finish(t)
    BY <2>15 DEF Finish, Goto, LogoutPlayer, NoPlayer, Players,
      TeleportUnderWay
  <2>16. CASE Dead(t)
    BY <2>16 DEF Dead, Goto, LogoutPlayer, NoPlayer, Players, TeleportUnderWay
  <2>17. CASE KickPlayer(t)
    BY <2>17 DEF KickPlayer, Goto
  <2>18. CASE TakeSession(t)
    BY <2>18 DEF TakeSession
  <2>19. CASE ForgetSession(t)
    BY <2>19 DEF ForgetSession
  <2>20. CASE EnterMap(t)
    BY <2>20 DEF EnterMap, Skipped, Players
  <2>21. CASE StartUpdate(t)
    BY <2>21 DEF StartUpdate, Goto
  <2>22. CASE SetMap(t, "set1", "add1")
    BY <2>22 DEF SetMap, Goto
  <2>23. CASE AddSession(t)
    BY <2>23 DEF AddSession, Goto, Players
  <2>24. CASE LeaveMap(t)
    BY <2>24 DEF LeaveMap, Goto, Players
  <2>25. CASE SetMap(t, "set2", "add2")
    BY <2>25 DEF SetMap, Goto
  <2>26. CASE EndTeleport(t)
    <3>1. player'.there = player.there
      BY <2>26 DEF EndTeleport
    <3>2. ret[t] \in {"idle", "loop"} /\ pc' = [pc EXCEPT ![t] = ret[t]]
          /\ ret' = [ret EXCEPT ![t] = "idle"] /\ dest' = [dest EXCEPT ![t] = World]
          /\ UNCHANGED <<map, busy, login>>
      BY <2>26 DEF EndTeleport, Goto
    <3> QED BY <2>26, <3>1, <3>2 DEF EndTeleport
  <2>27. CASE SetMap(t, "zoneSet", "zoneAdd")
    BY <2>27 DEF SetMap, Goto
  <2>28. CASE EndZoneTeleport(t)
    BY <2>28 DEF EndZoneTeleport, Goto
  <2>29. CASE RemovePlayer(t)
    BY <2>29 DEF RemovePlayer, Updated, Players
  <2>30. CASE HandleRepopRequest(t)
    BY <2>30 DEF HandleRepopRequest, Take, StartTeleport, Goto, Players,
      TeleportUnderWay
  <2>31. CASE UpdatePlayer(t)
    BY <2>31 DEF UpdatePlayer, Updated, StartTeleport, Goto, Players,
      TeleportUnderWay
  <2>32. CASE ZoneTeleport(t)
    BY <2>32 DEF ZoneTeleport, Updated, Goto, Players, TeleportUnderWay
  <2>33. CASE HandlerThrows(t)
    BY <2>33 DEF HandlerThrows, Take, Goto
  <2> QED BY <1>6, <2>1, <2>2, <2>3, <2>4, <2>5, <2>6, <2>7, <2>8, <2>9, <2>10,
      <2>11, <2>12, <2>13, <2>14, <2>15, <2>16, <2>17, <2>18, <2>19, <2>20,
      <2>21, <2>22, <2>23, <2>24, <2>25, <2>26, <2>27, <2>28, <2>29, <2>30,
      <2>31, <2>32, <2>33 DEF Thread, Events, UpdateSessions, Update, Handle,
      Teleport
<1> QED BY <1>1, <1>2, <1>3, <1>4, <1>5, <1>6 DEF Next, Client

\* One thread at a time is between "m_sUpdate = true" and "m_sUpdate = false",
\* although the flag is tested and set in two steps: the handing over of the
\* session by m_map keeps the others out, as long as no two threads teleport
\* the player at once.
THEOREM OneThreadUpdates == Spec => []OneUpdater
<1>1. Init => Types /\ (clash \/ Exclusive)
  BY InitTypes
     DEF Init, Sections, Teleporting, InUpdate, Exclusive, FollowsMap, TeleportAlone,
         UpdatesAlone, Owns, Leaves, Arrives
<1>2. Types /\ [Next]_vars => Types'
  BY PlaceTypeNext, PlayerTypeNext, PacketTypeNext, FlagTypeNext, DestTypeNext DEF Types
<1>3. clash /\ [Next]_vars => clash'
  BY ClashStays
<1>4. Types /\ (clash \/ Exclusive) /\ [Next]_vars => (clash \/ Exclusive)'
  BY <1>3, ExclusiveNext
<1>5. clash \/ Exclusive => OneUpdater
  BY DEF OneUpdater, Exclusive, UpdatesAlone
<1> QED BY <1>1, <1>2, <1>4, <1>5, PTL DEF Spec

-----------------------------------------------------------------------------
(* Who will update.                                                        *)

\* Update returns false only without a socket; then the session is not lost
\* but given back to the world or destroyed.
DeadHasNoSocket == \A t \in Threads : pc[t] = "dead" => ~socket

LEMMA NotLostNext ==
  ASSUME Types, DeadHasNoSocket, NotLost, [Next]_vars
  PROVE  DeadHasNoSocket' /\ NotLost'
<1> DEFINE Goal == DeadHasNoSocket' /\ NotLost'
<1> USE DEF vars, ownVars, playVars, netVars, threadVars, boundVars, Types,
        PlaceType, PlayerType, Places, Sections, Teleporting, DeadHasNoSocket,
        NotLost, Adding
<1>1. ASSUME NEW kind \in Kinds, Send(kind) PROVE Goal
  BY <1>1 DEF Send
<1>2. CASE Disconnect
  BY <1>2 DEF Disconnect
<1>3. CASE HandleContinuePlayerLogin
  BY <1>3 DEF HandleContinuePlayerLogin
<1>4. CASE QueryHolderDone
  BY <1>4 DEF QueryHolderDone
<1>5. CASE UNCHANGED vars
  BY <1>5
<1>6. ASSUME NEW t \in Threads, Thread(t) \/ Events(t) PROVE Goal
  <2>1. CASE TestBusy(t)
    BY <2>1 DEF TestBusy, Goto
  <2>2. CASE SetBusy(t)
    BY <2>2 DEF SetBusy, Goto
  <2>3. CASE Requeue(t)
    BY <2>3 DEF Requeue, Take
  <2>4. CASE Drop(t)
    BY <2>4 DEF Drop, Take
  <2>5. CASE HandleGame(t)
    BY <2>5 DEF HandleGame, Take
  <2>6. CASE HandleLogoutRequest(t)
    BY <2>6 DEF HandleLogoutRequest, Take
  <2>7. CASE HandlePlayerLoginOpcode(t)
    BY <2>7 DEF HandlePlayerLoginOpcode, Take
  <2>8. CASE HandleLoadScreenOpcode(t)
    BY <2>8 DEF HandleLoadScreenOpcode, Take
  <2>9. CASE HandleWorldPortAck(t)
    BY <2>9 DEF HandleWorldPortAck, Take
  <2>10. CASE LeaveLoop(t)
    BY <2>10 DEF LeaveLoop, GoOn, Goto, Readd
  <2>11. CASE HandlePlayerLogin(t)
    BY <2>11 DEF HandlePlayerLogin, Goto, NoPlayer
  <2>12. CASE HandOver(t)
    BY <2>12 DEF HandOver, GoOn, Goto
  <2>13. CASE LoginFails(t)
    BY <2>13 DEF LoginFails, Goto
  <2>14. CASE NoQuery(t)
    BY <2>14 DEF NoQuery, GoOn, Goto
  <2>15. CASE Finish(t)
    BY <2>15 DEF Finish, Goto, LogoutPlayer, NoPlayer
  <2>16. CASE Dead(t)
    BY <2>16 DEF Dead, Goto, LogoutPlayer, NoPlayer
  <2>17. CASE KickPlayer(t)
    BY <2>17 DEF KickPlayer, Goto
  <2>18. CASE TakeSession(t)
    BY <2>18 DEF TakeSession
  <2>19. CASE ForgetSession(t)
    BY <2>19 DEF ForgetSession
  <2>20. CASE EnterMap(t)
    BY <2>20 DEF EnterMap, Skipped
  <2>21. CASE StartUpdate(t)
    BY <2>21 DEF StartUpdate, Goto
  <2>22. CASE SetMap(t, "set1", "add1")
    BY <2>22 DEF SetMap, Goto
  <2>23. CASE AddSession(t)
    BY <2>23 DEF AddSession, Goto
  <2>24. CASE LeaveMap(t)
    BY <2>24 DEF LeaveMap, Goto
  <2>25. CASE SetMap(t, "set2", "add2")
    BY <2>25 DEF SetMap, Goto
  <2>26. CASE EndTeleport(t)
    <3>1. ret[t] \in {"idle", "loop"} /\ pc' = [pc EXCEPT ![t] = ret[t]]
          /\ pc[t] = "add2" /\ dest' = [dest EXCEPT ![t] = World]
          /\ queued' = queued \cup {dest[t]} /\ UNCHANGED <<map, listed, socket>>
      BY <2>26 DEF EndTeleport, Goto
    <3> QED BY <3>1
  <2>27. CASE SetMap(t, "zoneSet", "zoneAdd")
    BY <2>27 DEF SetMap, Goto
  <2>28. CASE EndZoneTeleport(t)
    BY <2>28 DEF EndZoneTeleport, Goto
  <2>29. CASE RemovePlayer(t)
    BY <2>29 DEF RemovePlayer, Updated
  <2>30. CASE HandleRepopRequest(t)
    BY <2>30 DEF HandleRepopRequest, Take, StartTeleport, Goto
  <2>31. CASE UpdatePlayer(t)
    BY <2>31 DEF UpdatePlayer, Updated, StartTeleport, Goto
  <2>32. CASE ZoneTeleport(t)
    BY <2>32 DEF ZoneTeleport, Updated, Goto
  <2>33. CASE HandlerThrows(t)
    BY <2>33 DEF HandlerThrows, Take, Goto
  <2> QED BY <1>6, <2>1, <2>2, <2>3, <2>4, <2>5, <2>6, <2>7, <2>8, <2>9, <2>10,
      <2>11, <2>12, <2>13, <2>14, <2>15, <2>16, <2>17, <2>18, <2>19, <2>20,
      <2>21, <2>22, <2>23, <2>24, <2>25, <2>26, <2>27, <2>28, <2>29, <2>30,
      <2>31, <2>32, <2>33 DEF Thread, Events, UpdateSessions, Update, Handle,
      Teleport
<1> QED BY <1>1, <1>2, <1>3, <1>4, <1>5, <1>6 DEF Next, Client

\* The session is always in the list or the queue of the thread m_map names,
\* or a thread is about to put it there: no teleport, login or logout loses
\* it, whatever the other threads do meanwhile.
THEOREM SessionIsNotLost == Spec => []NotLost
<1>1. Init => Types /\ DeadHasNoSocket /\ NotLost
  BY InitTypes DEF Init, DeadHasNoSocket, NotLost
<1>2. Types /\ [Next]_vars => Types'
  BY PlaceTypeNext, PlayerTypeNext, PacketTypeNext, FlagTypeNext, DestTypeNext DEF Types
<1>3. Types /\ DeadHasNoSocket /\ NotLost /\ [Next]_vars => (DeadHasNoSocket /\ NotLost)'
  BY NotLostNext
<1> QED BY <1>1, <1>2, <1>3, PTL DEF Spec

-----------------------------------------------------------------------------
(* The order of the packets.                                               *)

\* Packets wait in requeuePackets only while Update is in its loop and nobody
\* is in the game: no handler gets one that came after them.
Requeued == \A t \in Threads : again[t] # <<>> => pc[t] = "loop" /\ ~player.there

\* The packets of q and then those of r come in this order, after the last
\* one that was handled.
Sorted(q, r) ==
    /\ \A i, j \in 1..Len(q) : i <= j => q[i].id <= q[j].id
    /\ \A i \in 1..Len(q), j \in 1..Len(r) : q[i].id <= r[j].id
Between(q, low, high) == \A i \in 1..Len(q) : low <= q[i].id /\ q[i].id <= high

Ordered ==
    /\ handled <= games
    /\ Sorted(recv, <<>>) /\ Between(recv, handled, games)
    /\ \A t \in Threads : Sorted(again[t], recv) /\ Between(again[t], handled, games)

LEMMA RequeuedNext ==
  ASSUME Types, Exclusive, ~clash, Requeued, [Next]_vars
  PROVE  Requeued'
<1> DEFINE Goal == Requeued'
<1> USE DEF vars, ownVars, playVars, netVars, threadVars, boundVars, Types,
        PlaceType, Places, Sections, Teleporting, Requeued
<1>0. again \in [Threads -> Seq(Packets)] /\ player \in Players
  BY DEF PacketType, PlayerType
<1>1. ASSUME NEW kind \in Kinds, Send(kind) PROVE Goal
  BY <1>1 DEF Send
<1>2. CASE Disconnect
  BY <1>2 DEF Disconnect
<1>3. CASE HandleContinuePlayerLogin
  BY <1>3 DEF HandleContinuePlayerLogin
<1>4. CASE QueryHolderDone
  BY <1>4 DEF QueryHolderDone
<1>5. CASE UNCHANGED vars
  BY <1>5
<1>6. ASSUME NEW t \in Threads, Thread(t) \/ Events(t) PROVE Goal
  <2>1. CASE TestBusy(t)
    BY <1>0, <2>1 DEF TestBusy, Goto
  <2>2. CASE SetBusy(t)
    BY <1>0, <2>2 DEF SetBusy, Goto
  <2>3. CASE Requeue(t)
    BY <1>0, <2>3 DEF Requeue, Take
  <2>4. CASE Drop(t)
    BY <1>0, <2>4 DEF Drop, Take
  <2>5. CASE HandleGame(t)
    BY <1>0, <2>5 DEF HandleGame, Take
  <2>6. CASE HandleLogoutRequest(t)
    BY <1>0, <2>6 DEF HandleLogoutRequest, Take, Players
  <2>7. CASE HandlePlayerLoginOpcode(t)
    BY <1>0, <2>7 DEF HandlePlayerLoginOpcode, Take
  <2>8. CASE HandleLoadScreenOpcode(t)
    BY <1>0, <2>8 DEF HandleLoadScreenOpcode, Take
  <2>9. CASE HandleWorldPortAck(t)
    <3> DEFINE left == [player EXCEPT !.far = FALSE, !.target = World]
    <3>1. \/ player' = left
          \/ player' = [left EXCEPT !.at = t, !.inWorld = TRUE]
          \/ player' = [left EXCEPT !.changing = TRUE]
      BY <2>9 DEF HandleWorldPortAck
    <3>2. player'.there = player.there
      BY <1>0, <3>1 DEF Players
    <3> QED BY <2>9, <3>2 DEF HandleWorldPortAck, Take
  <2>10. CASE LeaveLoop(t)
    <3>1. \A u \in Threads : again'[u] = IF u = t THEN <<>> ELSE again[u]
      BY <1>0, <2>10 DEF LeaveLoop
    <3>2. /\ \A u \in Threads \ {t} : pc'[u] = pc[u]
          /\ UNCHANGED player
      BY <2>10 DEF LeaveLoop, GoOn, Goto
    <3> QED BY <3>1, <3>2
  <2>11. CASE HandlePlayerLogin(t)
    <3>1. pc[t] = "queries" /\ InUpdate(t) /\ UNCHANGED again
      BY <2>11 DEF HandlePlayerLogin, InUpdate
    <3>2. \A u \in Threads : InUpdate(u) => u = t
      BY <3>1 DEF Exclusive, UpdatesAlone
    <3>3. \A u \in Threads : again[u] = <<>>
      BY <3>1, <3>2 DEF InUpdate
    <3> QED BY <3>1, <3>3
  <2>12. CASE HandOver(t)
    BY <1>0, <2>12 DEF HandOver, GoOn, Goto
  <2>13. CASE LoginFails(t)
    BY <1>0, <2>13 DEF LoginFails, Goto
  <2>14. CASE NoQuery(t)
    BY <1>0, <2>14 DEF NoQuery, GoOn, Goto
  <2>15. CASE Finish(t)
    BY <1>0, <2>15 DEF Finish, Goto, LogoutPlayer, NoPlayer, Players,
      TeleportUnderWay
  <2>16. CASE Dead(t)
    BY <1>0, <2>16 DEF Dead, Goto, LogoutPlayer, NoPlayer, Players, TeleportUnderWay
  <2>17. CASE KickPlayer(t)
    BY <1>0, <2>17 DEF KickPlayer, Goto
  <2>18. CASE TakeSession(t)
    BY <1>0, <2>18 DEF TakeSession
  <2>19. CASE ForgetSession(t)
    BY <1>0, <2>19 DEF ForgetSession
  <2>20. CASE EnterMap(t)
    BY <1>0, <2>20 DEF EnterMap, Skipped, Players
  <2>21. CASE StartUpdate(t)
    BY <1>0, <2>21 DEF StartUpdate, Goto
  <2>22. CASE SetMap(t, "set1", "add1")
    BY <1>0, <2>22 DEF SetMap, Goto
  <2>23. CASE AddSession(t)
    BY <1>0, <2>23 DEF AddSession, Goto, Players
  <2>24. CASE LeaveMap(t)
    BY <1>0, <2>24 DEF LeaveMap, Goto, Players
  <2>25. CASE SetMap(t, "set2", "add2")
    BY <1>0, <2>25 DEF SetMap, Goto
  <2>26. CASE EndTeleport(t)
    <3>1. player'.there = player.there
      BY <2>26 DEF EndTeleport
    <3>2. ret[t] \in {"idle", "loop"} /\ pc' = [pc EXCEPT ![t] = ret[t]]
          /\ ret' = [ret EXCEPT ![t] = "idle"] /\ dest' = [dest EXCEPT ![t] = World]
          /\ UNCHANGED <<map, busy, login>>
      BY <2>26 DEF EndTeleport, Goto
    <3> QED BY <2>26, <3>1, <3>2 DEF EndTeleport
  <2>27. CASE SetMap(t, "zoneSet", "zoneAdd")
    BY <1>0, <2>27 DEF SetMap, Goto
  <2>28. CASE EndZoneTeleport(t)
    BY <1>0, <2>28 DEF EndZoneTeleport, Goto
  <2>29. CASE RemovePlayer(t)
    BY <1>0, <2>29 DEF RemovePlayer, Updated, Players
  <2>30. CASE HandleRepopRequest(t)
    BY <1>0, <2>30 DEF HandleRepopRequest, Take, StartTeleport, Goto, Players,
      TeleportUnderWay
  <2>31. CASE UpdatePlayer(t)
    BY <1>0, <2>31 DEF UpdatePlayer, Updated, StartTeleport, Goto, Players,
      TeleportUnderWay
  <2>32. CASE ZoneTeleport(t)
    BY <1>0, <2>32 DEF ZoneTeleport, Updated, Goto, Players, TeleportUnderWay
  <2>33. CASE HandlerThrows(t)
    BY <1>0, <2>33 DEF HandlerThrows, Take, Goto
  <2> QED BY <1>6, <2>1, <2>2, <2>3, <2>4, <2>5, <2>6, <2>7, <2>8, <2>9, <2>10,
      <2>11, <2>12, <2>13, <2>14, <2>15, <2>16, <2>17, <2>18, <2>19, <2>20,
      <2>21, <2>22, <2>23, <2>24, <2>25, <2>26, <2>27, <2>28, <2>29, <2>30,
      <2>31, <2>32, <2>33 DEF Thread, Events, UpdateSessions, Update, Handle,
      Teleport
<1> QED BY <1>1, <1>2, <1>3, <1>4, <1>5, <1>6 DEF Next, Client

\* Taking the first packet leaves the others in order, and after it.
LEMMA TakeOrder ==
  ASSUME Types, Ordered, NEW t \in Threads, NEW kinds, Take(t, kinds)
  PROVE  /\ recv' \in Seq(Packets) /\ Head(recv) \in Packets /\ handled <= Head(recv).id
         /\ Head(recv).id <= games
         /\ Sorted(recv', <<>>) /\ Between(recv', Head(recv).id, games)
         /\ \A u \in Threads : /\ Sorted(again[u], recv')
                               /\ \A i \in 1..Len(again[u]) : again[u][i].id <= Head(recv).id
<1>1. recv \in Seq(Packets) /\ recv # <<>> /\ recv' = Tail(recv)
  BY DEF Types, PacketType, Take
<1>2. /\ Len(recv) \in Nat \ {0} /\ Head(recv) = recv[1] /\ Head(recv) \in Packets
      /\ recv' \in Seq(Packets) /\ Len(recv') = Len(recv) - 1
      /\ \A i \in 1..Len(recv') : recv'[i] = recv[i + 1] /\ i + 1 \in 1..Len(recv)
  BY <1>1, HeadTailProperties
<1>3. Head(recv).id = recv[1].id /\ 1 \in 1..Len(recv) /\ Len(<<>>) = 0
  BY <1>2
<1>4. \A i \in 1..Len(recv') : recv'[i].id = recv[i + 1].id
  BY <1>2
<1>5. /\ \A i, j \in 1..Len(recv) : i <= j => recv[i].id <= recv[j].id
      /\ \A i \in 1..Len(recv) : handled <= recv[i].id /\ recv[i].id <= games
  BY DEF Ordered, Sorted, Between
<1>6. Sorted(recv', <<>>)
  <2>1. ASSUME NEW i \in 1..Len(recv'), NEW j \in 1..Len(recv'), i <= j
        PROVE  recv'[i].id <= recv'[j].id
    <3>1. i + 1 \in 1..Len(recv) /\ j + 1 \in 1..Len(recv) /\ i + 1 <= j + 1
      BY <1>2, <2>1
    <3> QED BY <1>4, <1>5, <3>1
  <2>2. 1..Len(<<>>) = {}
    BY <1>3
  <2> QED BY <2>1, <2>2 DEF Sorted
<1>7. Between(recv', Head(recv).id, games)
  <2> SUFFICES ASSUME NEW i \in 1..Len(recv')
               PROVE  Head(recv).id <= recv'[i].id /\ recv'[i].id <= games
    BY DEF Between
  <2>1. i + 1 \in 1..Len(recv) /\ 1 <= i + 1
    BY <1>2
  <2> QED BY <1>3, <1>4, <1>5, <2>1
<1>8. ASSUME NEW u \in Threads
      PROVE  /\ Sorted(again[u], recv')
             /\ \A i \in 1..Len(again[u]) : again[u][i].id <= Head(recv).id
  <2>1. Sorted(again[u], recv)
    BY DEF Ordered
  <2>2. ASSUME NEW i \in 1..Len(again[u]), NEW j \in 1..Len(recv')
        PROVE  again[u][i].id <= recv'[j].id
    <3>1. j + 1 \in 1..Len(recv)
      BY <1>2
    <3> QED BY <1>4, <2>1, <3>1 DEF Sorted
  <2> QED BY <1>3, <2>1, <2>2 DEF Sorted
<1> QED BY <1>2, <1>3, <1>5, <1>6, <1>7, <1>8

\* A packet that is dropped, or handled while no packet waits to be readded.
LEMMA HandledOrder ==
  ASSUME Types, Ordered, NEW t \in Threads, NEW kinds, Take(t, kinds),
         UNCHANGED <<again, games>>,
         handled' = handled \/ (handled' = Head(recv).id /\ \A u \in Threads : again[u] = <<>>)
  PROVE  Ordered' /\ handled' >= handled
<1>1. /\ recv' \in Seq(Packets) /\ Head(recv) \in Packets /\ handled <= Head(recv).id
      /\ Head(recv).id <= games
      /\ Sorted(recv', <<>>) /\ Between(recv', Head(recv).id, games)
      /\ \A u \in Threads : Sorted(again[u], recv')
  BY TakeOrder
<1>2. /\ handled \in Nat /\ games \in Nat /\ Head(recv).id \in Nat
      /\ Len(recv') \in Nat /\ \A i \in 1..Len(recv') : recv'[i].id \in Nat
  <2>1. \A i \in 1..Len(recv') : recv'[i] \in Packets
    BY <1>1
  <2> QED BY <1>1, <2>1 DEF Types, PacketType, Packets
<1>3. handled' <= Head(recv).id /\ handled <= handled' /\ handled' <= games
  BY <1>1, <1>2 DEF Ordered
<1>4. handled' \in Nat
  BY <1>2
<1>5. Between(recv', handled', games)
  BY <1>1, <1>2, <1>3, <1>4 DEF Between
<1>6. ASSUME NEW u \in Threads PROVE Between(again[u], handled', games)
  <2>1. CASE handled' = handled
    BY <2>1 DEF Ordered
  <2>2. CASE again[u] = <<>>
    BY <2>2 DEF Between
  <2> QED BY <2>1, <2>2
<1> QED BY <1>1, <1>3, <1>5, <1>6 DEF Ordered

\* A packet that joins those to be readded.
LEMMA RequeueOrder ==
  ASSUME Types, Ordered, NEW t \in Threads, Requeue(t)
  PROVE  Ordered'
<1> DEFINE p == Head(recv)
<1>1. /\ recv' \in Seq(Packets) /\ p \in Packets /\ handled <= p.id /\ p.id <= games
      /\ Sorted(recv', <<>>) /\ Between(recv', p.id, games)
      /\ \A u \in Threads : /\ Sorted(again[u], recv')
                            /\ \A i \in 1..Len(again[u]) : again[u][i].id <= p.id
  BY TakeOrder DEF Requeue
<1>2. /\ again \in [Threads -> Seq(Packets)] /\ again' = [again EXCEPT ![t] = Append(@, p)]
      /\ UNCHANGED <<handled, games>>
  BY DEF Requeue, Types, PacketType, boundVars
<1> HIDE DEF p
<1>3. /\ handled \in Nat /\ games \in Nat /\ p.id \in Nat
      /\ \A i \in 1..Len(recv') : recv'[i].id \in Nat
  <2>1. \A i \in 1..Len(recv') : recv'[i] \in Packets
    BY <1>1
  <2> QED BY <1>1, <2>1 DEF Types, PacketType, Packets
<1>4. Between(recv', handled, games)
  BY <1>1, <1>3 DEF Between
<1>5. ASSUME NEW u \in Threads, u # t PROVE Sorted(again'[u], recv') /\ Between(again'[u], handled, games)
  BY <1>1, <1>2, <1>5 DEF Ordered
<1>6. Sorted(again'[t], recv') /\ Between(again'[t], handled, games)
  <2> DEFINE q == again[t]
             r == Append(q, p)
  <2>1. q \in Seq(Packets) /\ again'[t] = r /\ Between(q, handled, games) /\ Sorted(q, recv')
        /\ \A i \in 1..Len(q) : q[i].id <= p.id
    BY <1>1, <1>2 DEF Ordered
  <2> HIDE DEF q
  <2>2. /\ Len(q) \in Nat /\ Len(r) = Len(q) + 1 /\ r[Len(q) + 1] = p
        /\ \A i \in 1..Len(q) : r[i] = q[i]
    BY <1>1, <2>1, AppendProperties
  <2> HIDE DEF r
  <2>3. \A i \in 1..Len(r) : i \in 1..Len(q) \/ i = Len(q) + 1
    BY <2>2
  <2>4. Between(r, handled, games)
    BY <1>1, <2>1, <2>2, <2>3 DEF Between
  <2>5. ASSUME NEW i \in 1..Len(r), NEW j \in 1..Len(r), i <= j PROVE r[i].id <= r[j].id
    <3>1. CASE j \in 1..Len(q)
      <4>1. i \in 1..Len(q)
        BY <2>2, <2>5, <3>1
      <4> QED BY <2>1, <2>2, <2>5, <3>1, <4>1 DEF Sorted
    <3>2. CASE j = Len(q) + 1 /\ i \in 1..Len(q)
      BY <2>1, <2>2, <3>2
    <3>3. CASE j = Len(q) + 1 /\ i = Len(q) + 1
      BY <1>3, <2>2, <3>3
    <3> QED BY <2>3, <3>1, <3>2, <3>3
  <2>6. ASSUME NEW i \in 1..Len(r), NEW j \in 1..Len(recv') PROVE r[i].id <= recv'[j].id
    <3>1. CASE i \in 1..Len(q)
      BY <2>1, <2>2, <3>1 DEF Sorted
    <3>2. CASE i = Len(q) + 1
      BY <1>1, <2>2, <3>2 DEF Between
    <3> QED BY <2>3, <3>1, <3>2
  <2> QED BY <2>1, <2>4, <2>5, <2>6 DEF Sorted
<1> QED BY <1>1, <1>2, <1>4, <1>5, <1>6 DEF Ordered

\* readd puts the packets of one thread back in front, where they were.
LEMMA ReaddOrder ==
  ASSUME Types, Exclusive, Requeued, Ordered, NEW t \in Threads, LeaveLoop(t)
  PROVE  Ordered'
<1> DEFINE q == again[t]
<1>1. /\ again \in [Threads -> Seq(Packets)] /\ again' = [again EXCEPT ![t] = <<>>]
      /\ recv \in Seq(Packets) /\ q \in Seq(Packets) /\ recv' = q \o recv
      /\ UNCHANGED <<handled, games>> /\ pc[t] = "loop"
  BY DEF LeaveLoop, Readd, Types, PacketType, boundVars
<1>2. ASSUME NEW u \in Threads PROVE again'[u] = <<>>
  <2>1. CASE u = t
    BY <1>1, <2>1
  <2>2. CASE u # t
    <3>1. again[u] = <<>>
      BY <1>1, <2>2 DEF Requeued, Exclusive, UpdatesAlone, InUpdate, Sections
    <3> QED BY <1>1, <2>2, <3>1
  <2> QED BY <2>1, <2>2
<1>3. /\ Sorted(q, recv) /\ Between(q, handled, games)
      /\ Sorted(recv, <<>>) /\ Between(recv, handled, games) /\ handled <= games
  BY DEF Ordered
<1> HIDE DEF q
<1>4. /\ Len(q) \in Nat /\ Len(recv) \in Nat /\ Len(recv') = Len(q) + Len(recv)
      /\ \A i \in 1..Len(recv') : recv'[i] = IF i <= Len(q) THEN q[i] ELSE recv[i - Len(q)]
  BY <1>1, ConcatProperties
<1>5. \A i \in 1..Len(recv') : i \in 1..Len(q) \/ (~(i <= Len(q)) /\ i - Len(q) \in 1..Len(recv))
  BY <1>4
<1>6. Between(recv', handled, games)
  BY <1>3, <1>4, <1>5 DEF Between
<1>7. ASSUME NEW i \in 1..Len(recv'), NEW j \in 1..Len(recv'), i <= j
      PROVE  recv'[i].id <= recv'[j].id
  <2>1. CASE i \in 1..Len(q) /\ j \in 1..Len(q)
    BY <1>3, <1>4, <1>7, <2>1 DEF Sorted
  <2>2. CASE i \in 1..Len(q) /\ ~(j <= Len(q))
    BY <1>3, <1>4, <1>5, <2>2 DEF Sorted
  <2>3. CASE ~(i <= Len(q))
    <3>1. ~(j <= Len(q)) /\ i - Len(q) <= j - Len(q)
      BY <1>4, <1>7, <2>3
    <3> QED BY <1>3, <1>4, <1>5, <2>3, <3>1 DEF Sorted
  <2> QED BY <1>4, <1>5, <2>1, <2>2, <2>3
<1>8. \A r : Sorted(<<>>, r) /\ Between(<<>>, handled, games)
  BY DEF Sorted, Between
<1>9. Sorted(recv', <<>>)
  BY <1>7 DEF Sorted
<1> QED BY <1>1, <1>2, <1>3, <1>6, <1>8, <1>9 DEF Ordered

\* A new packet is the last.
LEMMA SendOrder ==
  ASSUME Types, Ordered, NEW kind \in Kinds, Send(kind)
  PROVE  Ordered'
<1> DEFINE p == [kind |-> kind, id |-> games']
<1>0. games \in Nat /\ games' \in {games, games + 1}
  BY DEF Send, Types, PacketType
<1>1. /\ recv \in Seq(Packets) /\ recv' = Append(recv, p) /\ UNCHANGED <<again, handled>>
      /\ games' \in Nat /\ games <= games' /\ games \in Nat /\ handled \in Nat
      /\ p \in Packets /\ p.id = games' /\ again \in [Threads -> Seq(Packets)]
  <2>1. p \in Packets /\ p.id = games' /\ games' \in Nat /\ games <= games'
    BY <1>0 DEF Packets
  <2>2. recv' = Append(recv, p) /\ UNCHANGED <<again, handled>>
    BY DEF Send, threadVars
  <2> QED BY <1>0, <2>1, <2>2 DEF Types, PacketType
<1> HIDE DEF p
<1>2. /\ Len(recv) \in Nat /\ Len(recv') = Len(recv) + 1 /\ recv'[Len(recv) + 1] = p
      /\ \A i \in 1..Len(recv) : recv'[i] = recv[i]
  BY <1>1, AppendProperties
<1>3. \A i \in 1..Len(recv') : i \in 1..Len(recv) \/ i = Len(recv) + 1
  BY <1>2
<1>4. /\ \A i \in 1..Len(recv) : recv[i].id \in Nat
      /\ \A u \in Threads : \A i \in 1..Len(again[u]) : again[u][i].id \in Nat
  <2>1. \A i \in 1..Len(recv) : recv[i] \in Packets
    BY <1>1
  <2>2. \A u \in Threads : \A i \in 1..Len(again[u]) : again[u][i] \in Packets
    BY <1>1
  <2> QED BY <2>1, <2>2 DEF Packets
<1>5. /\ \A i \in 1..Len(recv) : handled <= recv[i].id /\ recv[i].id <= games'
      /\ handled <= games'
  BY <1>1, <1>4 DEF Ordered, Between
<1>6. Between(recv', handled, games')
  BY <1>1, <1>2, <1>3, <1>5 DEF Between
<1>7. ASSUME NEW i \in 1..Len(recv'), NEW j \in 1..Len(recv'), i <= j
      PROVE  recv'[i].id <= recv'[j].id
  <2>1. CASE j \in 1..Len(recv)
    <3>1. i \in 1..Len(recv)
      BY <1>2, <1>7, <2>1
    <3> QED BY <1>2, <1>7, <2>1, <3>1 DEF Ordered, Sorted
  <2>2. CASE j = Len(recv) + 1 /\ i \in 1..Len(recv)
    BY <1>1, <1>2, <1>5, <2>2
  <2>3. CASE j = Len(recv) + 1 /\ i = Len(recv) + 1
    BY <1>1, <1>2, <2>3
  <2> QED BY <1>3, <2>1, <2>2, <2>3
<1>8. Sorted(recv', <<>>)
  BY <1>7 DEF Sorted
<1>9. ASSUME NEW u \in Threads
      PROVE  Sorted(again[u], recv') /\ Between(again[u], handled, games')
  <2>1. Sorted(again[u], recv) /\ Between(again[u], handled, games)
    BY DEF Ordered
  <2>2. Between(again[u], handled, games')
    BY <1>1, <1>4, <2>1 DEF Between
  <2>3. ASSUME NEW i \in 1..Len(again[u]), NEW j \in 1..Len(recv')
        PROVE  again[u][i].id <= recv'[j].id
    <3>1. CASE j \in 1..Len(recv)
      BY <1>2, <2>1, <3>1 DEF Sorted
    <3>2. CASE j = Len(recv) + 1
      BY <1>1, <1>2, <2>2, <3>2 DEF Between
    <3> QED BY <1>3, <3>1, <3>2
  <2> QED BY <2>1, <2>2, <2>3 DEF Sorted
<1> QED BY <1>1, <1>5, <1>6, <1>8, <1>9 DEF Ordered

LEMMA OrderNext ==
  ASSUME Types, Exclusive, ~clash, Requeued, Ordered, [Next]_vars
  PROVE  Ordered' /\ handled' >= handled
<1> DEFINE Goal == Ordered' /\ handled' >= handled
           Same == UNCHANGED <<recv, again, handled, games>>
<1> USE DEF vars, ownVars, playVars, netVars, threadVars, boundVars
<1>0. handled \in Nat /\ again \in [Threads -> Seq(Packets)]
  BY DEF Types, PacketType
<1>00. Same => Goal
  BY <1>0 DEF Ordered
<1>1. ASSUME NEW kind \in Kinds, Send(kind) PROVE Goal
  BY <1>0, <1>1, SendOrder DEF Send
<1>2. CASE Disconnect
  BY <1>00, <1>2 DEF Disconnect
<1>3. CASE HandleContinuePlayerLogin
  BY <1>00, <1>3 DEF HandleContinuePlayerLogin
<1>4. CASE QueryHolderDone
  BY <1>00, <1>4 DEF QueryHolderDone
<1>5. CASE UNCHANGED vars
  BY <1>00, <1>5
<1>6. ASSUME NEW t \in Threads, Thread(t) \/ Events(t) PROVE Goal
  <2>0. player.there => \A u \in Threads : again[u] = <<>>
    BY DEF Requeued
  <2>1. CASE TestBusy(t)
    BY <1>00, <2>1 DEF TestBusy
  <2>2. CASE SetBusy(t)
    BY <1>00, <2>2 DEF SetBusy
  <2>3. CASE Requeue(t)
    <3>1. Ordered'
      BY <2>3, RequeueOrder
    <3>2. UNCHANGED handled
      BY <2>3 DEF Requeue
    <3> QED BY <1>0, <3>1, <3>2
  <2>4. CASE Drop(t)
    <3>1. \E kinds \in SUBSET Kinds : Take(t, kinds)
      BY <2>4 DEF Drop, Kinds
    <3>2. UNCHANGED <<again, games, handled>>
      BY <2>4 DEF Drop
    <3> QED BY <3>1, <3>2, HandledOrder
  <2>5. CASE HandleGame(t)
    <3>1. Take(t, {"game"}) /\ UNCHANGED <<again, games>> /\ handled' = Head(recv).id /\ player.there
      BY <2>5 DEF HandleGame
    <3> QED BY <2>0, <3>1, HandledOrder
  <2>6. CASE HandleLogoutRequest(t)
    <3>1. Take(t, {"logout"}) /\ UNCHANGED <<again, games>> /\ handled' = Head(recv).id /\ player.there
      BY <2>6 DEF HandleLogoutRequest
    <3> QED BY <2>0, <3>1, HandledOrder
  <2>7. CASE HandlePlayerLoginOpcode(t)
    <3>1. Take(t, {"login"}) /\ UNCHANGED <<again, games>> /\ handled' = handled
      BY <2>7 DEF HandlePlayerLoginOpcode
    <3> QED BY <3>1, HandledOrder
  <2>8. CASE HandleLoadScreenOpcode(t)
    <3>1. Take(t, {"loaded"}) /\ UNCHANGED <<again, games>> /\ handled' = handled
      BY <2>8 DEF HandleLoadScreenOpcode
    <3> QED BY <3>1, HandledOrder
  <2>9. CASE HandleWorldPortAck(t)
    <3>1. Take(t, {"ack"}) /\ UNCHANGED <<again, games>> /\ handled' = handled
      BY <2>9 DEF HandleWorldPortAck
    <3> QED BY <3>1, HandledOrder
  <2>10. CASE LeaveLoop(t)
    <3>1. Ordered'
      BY <2>10, ReaddOrder
    <3>2. UNCHANGED handled
      BY <2>10 DEF LeaveLoop
    <3> QED BY <1>0, <3>1, <3>2
  <2>11. CASE HandlePlayerLogin(t)
    BY <1>00, <2>11 DEF HandlePlayerLogin
  <2>12. CASE HandOver(t)
    BY <1>00, <2>12 DEF HandOver
  <2>13. CASE LoginFails(t)
    BY <1>00, <2>13 DEF LoginFails
  <2>14. CASE NoQuery(t)
    BY <1>00, <2>14 DEF NoQuery
  <2>15. CASE Finish(t)
    BY <1>00, <2>15 DEF Finish
  <2>16. CASE Dead(t)
    BY <1>00, <2>16 DEF Dead
  <2>17. CASE KickPlayer(t)
    <3>1. /\ \A u \in Threads : again'[u] = IF u = t THEN <<>> ELSE again[u]
          /\ UNCHANGED <<recv, handled, games>>
      BY <1>0, <2>17 DEF KickPlayer
    <3>2. \A r : Sorted(<<>>, r) /\ Between(<<>>, handled, games)
      BY DEF Sorted, Between
    <3> QED BY <1>0, <3>1, <3>2 DEF Ordered
  <2>18. CASE TakeSession(t)
    BY <1>00, <2>18 DEF TakeSession
  <2>19. CASE ForgetSession(t)
    BY <1>00, <2>19 DEF ForgetSession
  <2>20. CASE EnterMap(t)
    BY <1>00, <2>20 DEF EnterMap
  <2>21. CASE StartUpdate(t)
    BY <1>00, <2>21 DEF StartUpdate
  <2>22. CASE SetMap(t, "set1", "add1")
    BY <1>00, <2>22 DEF SetMap
  <2>23. CASE AddSession(t)
    BY <1>00, <2>23 DEF AddSession
  <2>24. CASE LeaveMap(t)
    BY <1>00, <2>24 DEF LeaveMap
  <2>25. CASE SetMap(t, "set2", "add2")
    BY <1>00, <2>25 DEF SetMap
  <2>26. CASE EndTeleport(t)
    BY <1>00, <2>26 DEF EndTeleport
  <2>27. CASE SetMap(t, "zoneSet", "zoneAdd")
    BY <1>00, <2>27 DEF SetMap
  <2>28. CASE EndZoneTeleport(t)
    BY <1>00, <2>28 DEF EndZoneTeleport
  <2>29. CASE RemovePlayer(t)
    BY <1>00, <2>29 DEF RemovePlayer
  <2>30. CASE HandleRepopRequest(t)
    <3>1. Take(t, {"game"}) /\ UNCHANGED <<again, games>> /\ handled' = Head(recv).id /\ player.there
      BY <2>30 DEF HandleRepopRequest, StartTeleport, Goto
    <3> QED BY <2>0, <3>1, HandledOrder
  <2>31. CASE UpdatePlayer(t)
    BY <1>00, <2>31 DEF UpdatePlayer, StartTeleport
  <2>32. CASE ZoneTeleport(t)
    BY <1>00, <2>32 DEF ZoneTeleport
  <2>33. CASE HandlerThrows(t)
    <3>1. Take(t, {"game"}) /\ UNCHANGED <<again, games>> /\ handled' = Head(recv).id /\ player.there
      BY <2>33 DEF HandlerThrows
    <3> QED BY <2>0, <3>1, HandledOrder
  <2> QED BY <1>6, <2>1, <2>2, <2>3, <2>4, <2>5, <2>6, <2>7, <2>8, <2>9, <2>10,
      <2>11, <2>12, <2>13, <2>14, <2>15, <2>16, <2>17, <2>18, <2>19, <2>20,
      <2>21, <2>22, <2>23, <2>24, <2>25, <2>26, <2>27, <2>28, <2>29, <2>30,
      <2>31, <2>32, <2>33 DEF Thread, Events, UpdateSessions, Update, Handle,
      Teleport
<1> QED BY <1>1, <1>2, <1>3, <1>4, <1>5, <1>6 DEF Next, Client

\* Packets of the game reach their handlers in the order they came in: what is
\* put back was taken first, and nothing is handled while it waits.
THEOREM HandledInOrder == Spec => InOrder
<1> DEFINE Inv == Types /\ (clash \/ (Exclusive /\ Requeued /\ Ordered))
<1>1. Init => Inv
  <2> SUFFICES ASSUME Init PROVE Inv
    OBVIOUS
  <2>1. Types
    BY InitTypes
  <2>2. Exclusive
    BY DEF Init, Sections, Teleporting, InUpdate, Exclusive, FollowsMap, TeleportAlone,
           UpdatesAlone, Owns, Leaves, Arrives
  <2>3. Requeued
    BY DEF Init, Requeued
  <2>4. Ordered
    BY DEF Init, Ordered, Sorted, Between
  <2> QED BY <2>1, <2>2, <2>3, <2>4
<1>2. Types /\ [Next]_vars => Types'
  BY PlaceTypeNext, PlayerTypeNext, PacketTypeNext, FlagTypeNext, DestTypeNext DEF Types
<1>3. Inv /\ [Next]_vars => Inv'
  BY <1>2, ClashStays, ExclusiveNext, RequeuedNext, OrderNext
<1>4. Inv /\ [Next]_vars => [clash \/ handled' >= handled]_handled
  BY OrderNext
<1> QED BY <1>1, <1>3, <1>4, PTL DEF Spec, InOrder
=============================================================================
