-------------------------- MODULE RoomsMovesProofs --------------------------
(***************************************************************************)
(* What a client was told of its room-mates is true, but for those who     *)
(* went from one room straight into another: for any number of sessions    *)
(* and rooms, and clients as in RoomsLobbyProofs.                          *)
(***************************************************************************)
EXTENDS RoomsLobbyProofs, RoomsMoves

(* Two sessions share a room exactly when both are connected and name the  *)
(* same one, since nobody is in two rooms (OneRoomEach).                   *)
InRoom(s) == Connected(s) /\ roomId[s] # 0

Share(s, t) == InRoom(s) /\ InRoom(t) /\ roomId[s] = roomId[t]

(* The roster by that relation. *)
RosterInv ==
    \A s \in Session : InRoom(s) =>
        /\ \A t \in Session \ {s} : Share(s, t) => t \in roster[s]
        /\ \A t \in roster[s] : (t # s /\ Share(s, t)) \/ t \in movers

------------------------------------------------------------------------------
LEMMA SeatsByRoomId ==
    ASSUME LInv, NEW s \in Session, NEW r
    PROVE  r \in DOMAIN rooms /\ s \in Seats(rooms, r) <=> InRoom(s) /\ roomId[s] = r
<1>1. RoomsOf(s) = IF Connected(s) /\ roomId[s] # 0 THEN {roomId[s]} ELSE {}
    BY DEF LInv, OneRoomEach
<1>2. r \in RoomsOf(s) <=> r \in DOMAIN rooms /\ s \in Seats(rooms, r)
    BY RoomsOfSeats
<1> QED BY <1>1, <1>2 DEF InRoom

(* After the step as well. *)
LEMMA SeatsByRoomIdNext ==
    ASSUME LInv', NEW s \in Session, NEW r
    PROVE  r \in DOMAIN rooms' /\ s \in Seats(rooms', r) <=> InRoom(s)' /\ roomId'[s] = r
<1>1. RoomsOf(s)' = IF Connected(s)' /\ roomId'[s] # 0 THEN {roomId'[s]} ELSE {}
    BY DEF LInv, OneRoomEach
<1>2. r \in RoomsOf(s)' <=> r \in DOMAIN rooms' /\ s \in Seats(rooms', r)
    BY RoomsOfSeats
<1> QED BY <1>1, <1>2 DEF InRoom

LEMMA RosterByRoomId ==
    ASSUME LInv, RosterInv
    PROVE  RosterTrueButForMovers
<1> SUFFICES ASSUME NEW s \in Session, Connected(s), roomId[s] # 0
             PROVE  LET mates == (UNION {Present(r) : r \in RoomsOf(s)}) \ {s}
                    IN  mates \subseteq roster[s] /\ roster[s] \ mates \subseteq movers
    BY DEF RosterTrueButForMovers
<1>1. RoomsOf(s) = {roomId[s]} /\ InRoom(s)
    BY DEF LInv, OneRoomEach, InRoom
<1>2. roomId[s] \in DOMAIN rooms
    BY <1>1 DEF RoomsOf
<1>3. Present(roomId[s]) = Seats(rooms, roomId[s])
    BY DEF Present, Seats
<1>4. Seats(rooms, roomId[s]) \subseteq Session
    BY <1>2 DEF LInv, IInv, RoomsGood, GoodRoom, Room, Seats, Range
<1>5. \A t \in Session : t \in Seats(rooms, roomId[s]) <=> Share(s, t)
    BY <1>1, <1>2, SeatsByRoomId DEF Share
<1>6. UNION {Present(r) : r \in RoomsOf(s)} = Seats(rooms, roomId[s])
    BY <1>1, <1>3
<1>7. /\ \A t \in Session \ {s} : Share(s, t) => t \in roster[s]
      /\ \A t \in roster[s] : (t # s /\ Share(s, t)) \/ t \in movers
      /\ roster[s] \subseteq Session
    BY <1>1 DEF RosterInv, LInv, IInv, TypeOK
<1> QED BY <1>4, <1>5, <1>6, <1>7

------------------------------------------------------------------------------
(* What a step of s may do to the others' rosters: those who share a room  *)
(* with s afterwards, and did not before, are told of it.                  *)
Recorded == movers' = movers \cup {s \in Session : Moves(s)}

(* Everybody but s stays where he is. *)
OthersKeep(s) ==
    \A t \in Session \ {s} : roomId'[t] = roomId[t] /\ (InRoom(t)' <=> InRoom(t))

LEMMA StepKeepsOthers ==
    ASSUME LobbyClients, LInv, NEW s \in Session, SessionStep(s)
    PROVE  OthersKeep(s)
BY StepLobby DEF OthersKeep, InRoom, Connected

(* A step that moves nobody and tells nobody anything. *)
LEMMA StillRoster ==
    ASSUME RosterInv, roster' = roster, movers \subseteq movers',
           roster \in [Session -> SUBSET Session],
           \A t \in Session : (InRoom(t)' <=> InRoom(t)) /\ roomId'[t] = roomId[t]
    PROVE  RosterInv'
<1>1. \A t, u \in Session : Share(t, u)' <=> Share(t, u)
    BY DEF Share
<1>2. ASSUME NEW t \in Session, InRoom(t)'
      PROVE  /\ \A u \in Session \ {t} : Share(t, u)' => u \in roster'[t]
             /\ \A u \in roster'[t] : (u # t /\ Share(t, u)') \/ u \in movers'
    <2>1. /\ \A u \in Session \ {t} : Share(t, u) => u \in roster[t]
          /\ \A u \in roster[t] : (u # t /\ Share(t, u)) \/ u \in movers
          /\ roster[t] \subseteq Session
        BY <1>2 DEF RosterInv
    <2> QED BY <1>1, <2>1
<1> QED BY <1>2 DEF RosterInv

LEMMA CreateRoster ==
    ASSUME LobbyClients, LInv, LInv', RosterInv, Recorded, NEW s \in Session,
           NEW settings \in Settings,
           CreateRoom(s, settings) \/ ChatCreateRoom(s, settings)
    PROVE  RosterInv'
<1>1. Connected(s) /\ roomId[s] = 0
    BY DispatchConnected DEF CreateRoom, ChatCreateRoom, MaySend, LobbyClients
<1>2. /\ roster' = [roster EXCEPT ![s] = {}]
      /\ roomId' = [roomId EXCEPT ![s] = nextRoomId]
      /\ status' = status
    BY <1>1 DEF CreateRoom, ChatCreateRoom, OpenRoom, Told
<1>3. /\ roster \in [Session -> SUBSET Session] /\ roomId \in [Session -> Nat]
      /\ DOMAIN rooms \subseteq 1..(nextRoomId - 1) /\ nextRoomId \in Nat \ {0}
    BY DEF LInv, IInv, TypeOK
<1>4. \A t \in Session \ {s} : /\ roomId'[t] = roomId[t] /\ roster'[t] = roster[t]
                               /\ InRoom(t)' <=> InRoom(t)
    BY <1>2, <1>3 DEF InRoom, Connected
<1>5. roster'[s] = {} /\ roomId'[s] = nextRoomId
    BY <1>2, <1>3
<1>6. \A t \in Session \ {s} : InRoom(t) => roomId[t] # nextRoomId
    <2>1. \A t \in Session : InRoom(t) => roomId[t] \in DOMAIN rooms
        BY SeatsByRoomId
    <2> QED BY <1>3, <2>1
<1>7. movers \subseteq movers'
    BY DEF Recorded
<1>8. ASSUME NEW t \in Session, InRoom(t)'
      PROVE  /\ \A u \in Session \ {t} : Share(t, u)' => u \in roster'[t]
             /\ \A u \in roster'[t] : (u # t /\ Share(t, u)') \/ u \in movers'
    <2>1. CASE t = s
        BY <1>4, <1>5, <1>6, <2>1 DEF Share
    <2>2. CASE t # s
        <3>1. InRoom(t) /\ roster'[t] = roster[t] /\ ~InRoom(s)
            BY <1>1, <1>4, <1>8, <2>2 DEF InRoom
        <3>2. ~Share(t, s)' /\ ~Share(t, s)
            BY <1>4, <1>5, <1>6, <2>2, <3>1 DEF Share
        <3>3. \A u \in Session \ {s} : Share(t, u)' <=> Share(t, u)
            BY <1>4, <2>2 DEF Share
        <3>4. roster[t] \subseteq Session
            BY <1>3
        <3> QED BY <1>7, <3>1, <3>2, <3>3, <3>4 DEF RosterInv
    <2> QED BY <2>1, <2>2
<1> QED BY <1>8 DEF RosterInv

(* Joining tells s of those it finds, and them of s; whoever shared the    *)
(* old room with s goes on naming it, and s is a mover.                    *)
LEMMA JoinRoster ==
    ASSUME LobbyClients, LInv, LInv', RosterInv, Recorded, NEW s \in Session,
           NEW r \in RoomIds, NEW password \in BOOLEAN, JoinRoom(s, r, password)
    PROVE  RosterInv'
<1> DEFINE joined == AddPlayer(MovedOut(s)[r], s)
<1>1. Connected(s) /\ r \in DOMAIN rooms /\ r \in Nat \ {0}
    BY DispatchConnected DEF JoinRoom, RoomIds
<1>2. /\ roomId' = [roomId EXCEPT ![s] = r] /\ status' = status
      /\ rooms' = [MovedOut(s) EXCEPT ![r] = joined]
      /\ roster' = [t \in Session |->
                CASE t = s -> Told(s, DOMAIN joined.players \ {s})
                  [] t # s /\ t \in Range(joined.members) -> Told(t, roster[t] \cup {s})
                  [] OTHER -> roster[t]]
    BY DEF JoinRoom
<1>3. GoodRoom(joined)
    BY <1>1, MovedOutGood, AddPlayerGood DEF LInv
<1> HIDE DEF joined
<1>4. /\ roster \in [Session -> SUBSET Session] /\ roomId \in [Session -> Nat]
    BY DEF LInv, IInv, TypeOK
<1>5. r \in DOMAIN rooms' /\ Seats(rooms', r) = Range(joined.members)
    BY <1>1, <1>2, MovedOutGood DEF Seats, LInv
<1>6. /\ DOMAIN joined.players = Range(joined.members)
      /\ Range(joined.members) \subseteq Session
    BY <1>3, PlayersDef DEF GoodRoom, Room
<1>7. \A t \in Session : t \in Range(joined.members) <=> InRoom(t)' /\ roomId'[t] = r
    BY <1>5, SeatsByRoomIdNext
<1>8. roomId'[s] = r /\ InRoom(s)'
    BY <1>1, <1>2, <1>4 DEF InRoom, Connected
<1>9. \A t \in Session \ {s} : roomId'[t] = roomId[t] /\ (InRoom(t)' <=> InRoom(t))
    BY <1>2, <1>4 DEF InRoom, Connected
<1>10. movers \subseteq movers'
    BY DEF Recorded
<1>11. ASSUME NEW t \in Session, InRoom(t)'
       PROVE  /\ \A u \in Session \ {t} : Share(t, u)' => u \in roster'[t]
              /\ \A u \in roster'[t] : (u # t /\ Share(t, u)') \/ u \in movers'
    <2>1. CASE t = s
        <3>1. roster'[t] = Range(joined.members) \ {s}
            BY <1>1, <1>2, <1>6, <2>1 DEF Told
        <3>2. \A u \in Session : u \in Range(joined.members) <=> Share(s, u)'
            BY <1>7, <1>8 DEF Share
        <3> QED BY <1>6, <2>1, <3>1, <3>2
    <2>2. CASE t # s
        <3>1. /\ InRoom(t) /\ Connected(t) /\ roster[t] \subseteq Session
              /\ \A u \in Session \ {t} : Share(t, u) => u \in roster[t]
              /\ \A u \in roster[t] : (u # t /\ Share(t, u)) \/ u \in movers
            BY <1>4, <1>9, <1>11, <2>2 DEF RosterInv, InRoom
        <3>2. \A u \in Session \ {s} : Share(t, u)' <=> Share(t, u)
            BY <1>9, <2>2 DEF Share
        <3>3. CASE t \in Range(joined.members)
            <4>1. roster'[t] = roster[t] \cup {s}
                BY <1>2, <2>2, <3>1, <3>3 DEF Told
            <4>2. Share(t, s)'
                BY <1>7, <1>8, <3>3 DEF Share
            <4> QED BY <1>10, <2>2, <3>1, <3>2, <4>1, <4>2
        <3>4. CASE t \notin Range(joined.members)
            <4>1. roster'[t] = roster[t]
                BY <1>2, <2>2, <3>4
            <4>2. roomId'[t] # r /\ ~Share(t, s)'
                BY <1>7, <1>8, <1>11, <3>4 DEF Share
            <4>3. Share(t, s) => s \in movers'
                <5>1. Share(t, s) => roomId[s] # 0 /\ roomId[s] # r
                    BY <1>9, <2>2, <4>2 DEF Share, InRoom
                <5>2. Share(t, s) => Moves(s)
                    BY <1>1, <1>8, <5>1 DEF Moves
                <5> QED BY <5>2 DEF Recorded
            <4> QED BY <1>10, <2>2, <3>1, <3>2, <4>1, <4>2, <4>3
        <3> QED BY <3>3, <3>4
    <2> QED BY <2>1, <2>2
<1> QED BY <1>11 DEF RosterInv

(* s is in no room any more, and those who shared one with s know. *)
LEMMA GoneRoster ==
    ASSUME RosterInv, NEW s \in Session, OthersKeep(s), ~InRoom(s)', movers \subseteq movers',
           roster \in [Session -> SUBSET Session],
           \A t \in Session \ {s} : InRoom(t) =>
               roster'[t] = IF Share(t, s) THEN roster[t] \ {s} ELSE roster[t]
    PROVE  RosterInv'
<1>1. ASSUME NEW t \in Session, InRoom(t)'
      PROVE  /\ \A u \in Session \ {t} : Share(t, u)' => u \in roster'[t]
             /\ \A u \in roster'[t] : (u # t /\ Share(t, u)') \/ u \in movers'
    <2>1. t # s /\ InRoom(t)
        BY <1>1 DEF OthersKeep
    <2>2. /\ roster[t] \subseteq Session
          /\ \A u \in Session \ {t} : Share(t, u) => u \in roster[t]
          /\ \A u \in roster[t] : (u # t /\ Share(t, u)) \/ u \in movers
        BY <2>1 DEF RosterInv
    <2>3. \A u \in Session \ {s} : Share(t, u)' <=> Share(t, u)
        BY <2>1 DEF Share, OthersKeep
    <2>4. ~Share(t, s)'
        BY DEF Share
    <2>5. roster'[t] = IF Share(t, s) THEN roster[t] \ {s} ELSE roster[t]
        BY <2>1
    <2> QED BY <2>1, <2>2, <2>3, <2>4, <2>5
<1> QED BY <1>1 DEF RosterInv

LEMMA FarewellRoster ==
    ASSUME LInv, NEW s \in Session, roomId[s] \in DOMAIN rooms, Connected(s),
           NEW t \in Session \ {s}, InRoom(t)
    PROVE  Farewell(RemovePlayer(rooms[roomId[s]], s), s)[t]
               = IF Share(t, s) THEN roster[t] \ {s} ELSE roster[t]
<1> DEFINE left == RemovePlayer(rooms[roomId[s]], s)
<1>1. Range(left.members) = Seats(rooms, roomId[s]) \ {s}
    BY RemovePlayerGood DEF LInv, IInv, RoomsGood, Seats
<1>2. roomId[s] # 0 /\ InRoom(s)
    BY DEF LInv, IInv, TypeOK, InRoom
<1>3. t \in Range(left.members) <=> Share(t, s)
    BY <1>1, <1>2, SeatsByRoomId DEF Share
<1> HIDE DEF left
<1>4. Farewell(left, s)[t] = IF t \in Range(left.members)
                             THEN Told(t, roster[t] \ {s}) ELSE roster[t]
    BY DEF Farewell
<1>5. Farewell(left, s)[t] = IF Share(t, s) THEN roster[t] \ {s} ELSE roster[t]
    BY <1>3, <1>4 DEF Told, InRoom
<1> QED BY <1>5 DEF left

LEMMA LeaveRoster ==
    ASSUME LobbyClients, LInv, RosterInv, Recorded, NEW s \in Session, LeaveRoom(s)
    PROVE  RosterInv'
<1>1. Connected(s)
    BY DispatchConnected DEF LeaveRoom
<1>2. OthersKeep(s)
    BY StepKeepsOthers DEF SessionStep
<1>3. /\ roster \in [Session -> SUBSET Session] /\ roomId \in [Session -> Nat]
    BY DEF LInv, IInv, TypeOK
<1>4. ~InRoom(s)'
    BY <1>3 DEF LeaveRoom, InRoom
<1>5. movers \subseteq movers'
    BY DEF Recorded
<1>6. ASSUME NEW t \in Session \ {s}, InRoom(t)
      PROVE  roster'[t] = IF Share(t, s) THEN roster[t] \ {s} ELSE roster[t]
    <2>1. CASE roomId[s] \in DOMAIN rooms
        <3>1. roster'[t] = Farewell(RemovePlayer(rooms[roomId[s]], s), s)[t]
            BY <2>1 DEF LeaveRoom, Farewell
        <3> QED BY <1>1, <1>6, <2>1, <3>1, FarewellRoster
    <2>2. CASE roomId[s] \notin DOMAIN rooms
        <3>1. ~Share(t, s)
            BY <2>2, SeatsByRoomId DEF Share
        <3>2. roster'[t] = roster[t]
            BY <1>3, <2>2 DEF LeaveRoom
        <3> QED BY <3>1, <3>2
    <2> QED BY <2>1, <2>2
<1> QED BY <1>2, <1>3, <1>4, <1>5, <1>6, GoneRoster

LEMMA DisconnectRoster ==
    ASSUME LobbyClients, LInv, RosterInv, Recorded, NEW s \in Session,
           NEW n \in 0..MaxLate, Disconnect(s, n)
    PROVE  RosterInv'
<1>1. Connected(s)
    BY DEF Disconnect
<1>2. OthersKeep(s)
    BY StepKeepsOthers DEF SessionStep
<1>3. /\ roster \in [Session -> SUBSET Session]
      /\ status \in [Session -> {"new", "connected", "stopped"}]
    BY DEF LInv, IInv, TypeOK
<1>4. ~InRoom(s)'
    BY <1>3 DEF Disconnect, InRoom, Connected
<1>5. movers \subseteq movers'
    BY DEF Recorded
<1>6. ASSUME NEW t \in Session \ {s}, InRoom(t)
      PROVE  roster'[t] = IF Share(t, s) THEN roster[t] \ {s} ELSE roster[t]
    <2>1. CASE roomId[s] \in DOMAIN rooms
        <3>1. MovedOut(s)[roomId[s]] = RemovePlayer(rooms[roomId[s]], s)
            BY <2>1 DEF MovedOut
        <3>2. roster'[t] = Farewell(RemovePlayer(rooms[roomId[s]], s), s)[t]
            BY <2>1, <3>1 DEF Disconnect, Farewell
        <3> QED BY <1>1, <1>6, <2>1, <3>2, FarewellRoster
    <2>2. CASE roomId[s] \notin DOMAIN rooms
        <3>1. ~Share(t, s)
            BY <2>2, SeatsByRoomId DEF Share
        <3>2. roster'[t] = roster[t]
            BY <1>3, <2>2 DEF Disconnect
        <3> QED BY <3>1, <3>2
    <2> QED BY <2>1, <2>2
<1> QED BY <1>2, <1>3, <1>4, <1>5, <1>6, GoneRoster

(* Packets that move nobody. *)
LEMMA QuietRoster ==
    ASSUME LInv, RosterInv, Recorded, NEW s \in Session,
           \/ Accept(s)
           \/ \E ready \in BOOLEAN : PlayerReady(s, ready)
           \/ GameStart(s) \/ RaceFinish(s) \/ RefusedPacket(s)
    PROVE  RosterInv'
<1>1. /\ roster \in [Session -> SUBSET Session]
      /\ status \in [Session -> {"new", "connected", "stopped"}]
    BY DEF LInv, IInv, TypeOK
<1>2. roster' = roster /\ roomId' = roomId /\ movers \subseteq movers'
    BY DEF Accept, PlayerReady, GameStart, RaceFinish, RefusedPacket, Recorded
<1>3. CASE Accept(s)
    <2>1. roomId[s] = 0
        BY <1>3 DEF Accept, LInv, NothingLate
    <2>2. \A t \in Session \ {s} : status'[t] = status[t]
        BY <1>1, <1>3 DEF Accept
    <2>3. \A t \in Session : InRoom(t)' <=> InRoom(t)
        BY <1>2, <2>1, <2>2 DEF InRoom, Connected
    <2> QED BY <1>1, <1>2, <2>3, StillRoster
<1>4. CASE status' = status
    <2>1. \A t \in Session : InRoom(t)' <=> InRoom(t)
        BY <1>2, <1>4 DEF InRoom, Connected
    <2> QED BY <1>1, <1>2, <2>1, StillRoster
<1> QED BY <1>3, <1>4 DEF PlayerReady, GameStart, RaceFinish, RefusedPacket

LEMMA NextRoster ==
    ASSUME LobbyClients
    PROVE  LInv /\ RosterInv /\ [MovesNext]_<<vars, movers>> => LInv' /\ RosterInv'
<1> SUFFICES ASSUME LInv, RosterInv, [MovesNext]_<<vars, movers>>
             PROVE  LInv' /\ RosterInv'
    OBVIOUS
<1>1. [Next]_vars
    BY DEF MovesNext
<1>2. LInv'
    BY <1>1, NextLobby
<1>3. CASE UNCHANGED <<vars, movers>>
    <2>1. roster \in [Session -> SUBSET Session]
        BY DEF LInv, IInv, TypeOK
    <2>2. \A t \in Session : (InRoom(t)' <=> InRoom(t)) /\ roomId'[t] = roomId[t]
        BY <1>3 DEF vars, InRoom, Connected
    <2>3. roster' = roster /\ movers \subseteq movers'
        BY <1>3 DEF vars
    <2>4. RosterInv'
        BY <2>1, <2>2, <2>3, StillRoster
    <2> QED BY <1>2, <2>4
<1>4. ASSUME Recorded, NEW s \in Session, SessionStep(s)
      PROVE  RosterInv'
    <2>1. CASE \E settings \in Settings : CreateRoom(s, settings) \/ ChatCreateRoom(s, settings)
        BY <1>2, <1>4, <2>1, CreateRoster
    <2>2. CASE \E r \in RoomIds, password \in BOOLEAN : JoinRoom(s, r, password)
        BY <1>2, <1>4, <2>2, JoinRoster
    <2>3. CASE LeaveRoom(s)
        BY <1>4, <2>3, LeaveRoster
    <2>4. CASE \E n \in 0..MaxLate : Disconnect(s, n)
        BY <1>4, <2>4, DisconnectRoster
    <2>5. CASE \/ Accept(s)
               \/ \E ready \in BOOLEAN : PlayerReady(s, ready)
               \/ GameStart(s) \/ RaceFinish(s) \/ RefusedPacket(s)
        BY <1>4, <2>5, QuietRoster
    <2> QED BY <1>4, <2>1, <2>2, <2>3, <2>4, <2>5 DEF SessionStep
<1> QED BY <1>2, <1>3, <1>4 DEF MovesNext, Next, Recorded

(* The room-mates a client was told of are its room-mates: nobody is       *)
(* missing, and nobody is too many but a session that joined another room  *)
(* from this one, whose departure nobody is told of.                       *)
THEOREM LobbyRosterTrue ==
    ASSUME LobbyClients
    PROVE  MovesSpec => []RosterTrueButForMovers
<1>1. MovesInit => LInv /\ RosterInv
    BY InitLobby DEF MovesInit, Init, RosterInv, InRoom
<1>2. LInv /\ RosterInv => RosterTrueButForMovers
    BY RosterByRoomId
<1> QED BY <1>1, <1>2, NextRoster, PTL DEF MovesSpec
=============================================================================
