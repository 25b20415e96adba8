-------------------------- MODULE RoomsLobbyProofs --------------------------
(***************************************************************************)
(* What Rooms keeps for clients that create rooms from the lobby only, ask *)
(* for rooms somebody fits into, and have nothing buffered when they stop; *)
(* joining one room from another is allowed.  At the end, that for such    *)
(* clients Rooms implements Lobby.                                         *)
(***************************************************************************)
EXTENDS RoomsProofs

LobbyClients ==
    /\ MaxLate = 0
    /\ "createInRoom" \notin Quirks
    /\ \A settings \in Settings : settings.max > 0

(* Nobody is in a room's vector twice, and the host is flagged as such.    *)
Distinct(q) == \A i, j \in 1..Len(q) : q[i] = q[j] => i = j

Tidy(room) ==
    /\ Distinct(room.members)
    /\ ~IsEmpty(room) => room.players[room.host].isHost

RoomsTidy == \A r \in DOMAIN rooms : Tidy(rooms[r])

(* Nothing is buffered, and who has not been accepted is in no room.       *)
NothingLate ==
    /\ \A s \in Session : late[s] = 0
    /\ \A s \in Session : status[s] = "new" => roomId[s] = 0

LInv == IInv /\ NothingLate /\ OneRoomEach /\ NoRoomOutlivesPlayers /\ RoomsTidy

------------------------------------------------------------------------------
(* One room.                                                               *)

LEMMA WithoutDistinct ==
    ASSUME NEW S, NEW q \in Seq(S), NEW s, Distinct(q)
    PROVE  Distinct(Without(q, s))
<1> DEFINE K == Kept(q, s)
           n == Cardinality(K)
           pos(k) == CHOOSE i \in K : Rank(K, i) = k
           w == Without(q, s)
<1>1. K \in SUBSET (1..Len(q)) /\ K \in SUBSET Nat /\ IsFiniteSet(K) /\ n \in Nat
    BY KeptFinite
<1>2. \A k \in 1..n : \E i \in K : Rank(K, i) = k
    BY <1>1, RankOnto
<1>3. \A k \in 1..n : pos(k) \in K /\ Rank(K, pos(k)) = k
    BY <1>2
<1>4. w = [k \in 1..n |-> q[pos(k)]]
    BY DEF Without
<1> HIDE DEF pos, w, n
<1>5. \A k \in 1..n : pos(k) \in 1..Len(q) /\ w[k] = q[pos(k)]
    BY <1>1, <1>3, <1>4
<1>6. Len(w) = n
    <2>1. w \in Seq(S)
        BY WithoutSpec DEF w
    <2> QED BY <1>1, <1>4, <2>1
<1>7. ASSUME NEW j \in 1..n, NEW k \in 1..n, w[j] = w[k] PROVE j = k
    <2>1. pos(j) = pos(k)
        BY <1>5, <1>7 DEF Distinct
    <2> QED BY <1>3, <2>1
<1>8. Distinct(w)
    BY <1>6, <1>7 DEF Distinct
<1> QED BY <1>8 DEF w

LEMMA NewRoomTidy ==
    ASSUME NEW settings \in [max: Nat, tutorial: BOOLEAN, private: BOOLEAN]
    PROVE  Tidy(NewRoom(settings)) /\ Range(NewRoom(settings).members) = {}
BY DEF NewRoom, Tidy, Distinct, IsEmpty, Range

(* addPlayer of somebody who is not in the room. *)
LEMMA AddPlayerTidy ==
    ASSUME NEW room, GoodRoom(room), Tidy(room), NEW s \in Session,
           s \notin Range(room.members)
    PROVE  /\ Tidy(AddPlayer(room, s))
           /\ ~IsFull(room) => s \in Range(AddPlayer(room, s).members)
<1> DEFINE new == AddPlayer(room, s)
<1>0. CASE IsFull(room)
    BY <1>0 DEF AddPlayer
<1>1. CASE ~IsFull(room)
    <2>1. /\ room \in Room
          /\ room.members \in Seq(Session) /\ Len(room.members) \in Nat
          /\ room.players \in [DOMAIN room.players -> Player]
          /\ Range(room.members) = DOMAIN room.players
        BY PlayersDef DEF GoodRoom, Room
    <2>2. /\ new.members = Append(room.members, s)
          /\ new.host = IF IsEmpty(room) THEN s ELSE room.host
          /\ new.players = [t \in DOMAIN room.players \cup {s} |->
                              IF t = s
                              THEN [slot   |-> FindEmptySlot(room),
                                    ready  |-> FALSE,
                                    isHost |-> IsEmpty(room)]
                              ELSE room.players[t]]
        BY <1>1, <2>1 DEF AddPlayer, Room
    <2>3. Range(new.members) = Range(room.members) \cup {s}
        BY <2>1, <2>2, RangeAppend
    <2>4. Distinct(new.members)
        <3>1. /\ Len(new.members) = Len(room.members) + 1
              /\ new.members[Len(room.members) + 1] = s
              /\ \A i \in 1..Len(room.members) : new.members[i] = room.members[i]
            BY <2>1, <2>2
        <3>2. \A i \in 1..Len(room.members) : room.members[i] # s
            BY <2>1 DEF Range
        <3>3. \A i \in 1..Len(new.members) :
                  i \in 1..Len(room.members) \/ i = Len(room.members) + 1
            BY <2>1, <3>1
        <3> HIDE DEF new
        <3> QED BY <3>1, <3>2, <3>3 DEF Tidy, Distinct
    <2>5. new.players[new.host].isHost
        <3>1. CASE IsEmpty(room)
            BY <2>2, <3>1
        <3>2. CASE ~IsEmpty(room)
            <4>1. room.host = room.members[1] /\ room.members # <<>>
                BY <3>2 DEF GoodRoom, IsEmpty
            <4>2. room.host \in Range(room.members)
                BY <2>1, <4>1 DEF Range
            <4>3. room.host # s /\ room.host \in DOMAIN room.players
                BY <2>1, <4>2
            <4>4. room.players[room.host].isHost
                BY <3>2 DEF Tidy
            <4> QED BY <2>2, <3>2, <4>3, <4>4
        <3> QED BY <3>1, <3>2
    <2> QED BY <2>3, <2>4, <2>5 DEF Tidy
<1> QED BY <1>0, <1>1

LEMMA RemovePlayerTidy ==
    ASSUME NEW room, GoodRoom(room), Tidy(room), NEW s \in Session
    PROVE  Tidy(RemovePlayer(room, s))
<1> DEFINE new == RemovePlayer(room, s)
           left == Without(room.members, s)
           handOn == room.host = s /\ left # <<>>
<1>1. /\ room \in Room /\ room.members \in Seq(Session)
      /\ room.players \in [DOMAIN room.players -> Player]
      /\ Range(room.members) = DOMAIN room.players
    BY PlayersDef DEF GoodRoom, Room
<1>2. Range(left) = Range(room.members) \ {s} /\ left \in Seq(Session)
    BY <1>1, WithoutSpec
<1>3. Distinct(left)
    BY <1>1, WithoutDistinct DEF Tidy
<1> HIDE DEF left
<1>4. /\ new.members = left
      /\ new.host = IF handOn THEN left[1] ELSE room.host
      /\ new.players = [t \in DOMAIN room.players \ {s} |->
                          IF handOn /\ t = left[1]
                          THEN Promote(room.players[t]) ELSE room.players[t]]
    BY <1>1 DEF RemovePlayer, Room, Heir, Staying, left
<1>5. ASSUME left # <<>> PROVE new.players[new.host].isHost
    <2>1. left[1] \in DOMAIN room.players \ {s}
        BY <1>1, <1>2, <1>5 DEF Range
    <2>2. CASE room.host = s
        <3>1. Promote(room.players[left[1]]).isHost
            BY <1>1, <2>1 DEF Promote, Player
        <3> QED BY <1>4, <1>5, <2>1, <2>2, <3>1
    <2>3. CASE room.host # s
        <3>1. ~IsEmpty(room)
            BY <1>1, <2>1 DEF IsEmpty, Range
        <3>2. room.host = room.members[1] /\ room.players[room.host].isHost
            BY <3>1 DEF GoodRoom, Tidy
        <3>3. room.host \in DOMAIN room.players \ {s}
            BY <1>1, <2>3, <3>1, <3>2 DEF IsEmpty, Range
        <3> QED BY <1>4, <2>3, <3>2, <3>3
    <2> QED BY <2>2, <2>3
<1>6. ~IsEmpty(new) => left # <<>>
    BY <1>4 DEF IsEmpty
<1> QED BY <1>3, <1>4, <1>5, <1>6 DEF Tidy

LEMMA SetReadyTidy ==
    ASSUME NEW room, GoodRoom(room), Tidy(room), NEW s \in Session, NEW ready \in BOOLEAN
    PROVE  Tidy(SetReady(room, s, ready))
<1> DEFINE new == SetReady(room, s, ready)
<1>1. /\ room \in Room /\ room.members \in Seq(Session)
      /\ room.players \in [DOMAIN room.players -> Player]
      /\ Range(room.members) = DOMAIN room.players
    BY PlayersDef DEF GoodRoom, Room
<1>2. /\ new.members = room.members /\ new.host = room.host
      /\ new.players = [t \in DOMAIN room.players |->
             [room.players[t] EXCEPT !.ready = IF t = s THEN ready ELSE @]]
    BY <1>1 DEF SetReady, Room
<1>3. \A t \in DOMAIN room.players : new.players[t].isHost = room.players[t].isHost
    BY <1>1, <1>2 DEF Player
<1>4. ~IsEmpty(room) => room.host \in DOMAIN room.players
    BY <1>1 DEF GoodRoom, IsEmpty, Range
<1> QED BY <1>2, <1>3, <1>4 DEF Tidy, IsEmpty

LEMMA SetStateTidy ==
    ASSUME NEW room, GoodRoom(room), Tidy(room), NEW state
    PROVE  Tidy([room EXCEPT !.state = state])
BY DEF GoodRoom, Room, Tidy, IsEmpty

------------------------------------------------------------------------------
(* The steps of a session.                                                 *)

(* A packet is only dispatched for a connected session. *)
LEMMA DispatchConnected ==
    ASSUME LInv, NEW s \in Session, Dispatch(s)
    PROVE  Connected(s) /\ late' = late
BY DEF LInv, NothingLate, Dispatch

(* RoomsOf by the table. *)
LEMMA RoomsOfSeats ==
    ASSUME NEW s
    PROVE  /\ RoomsOf(s) = {r \in DOMAIN rooms : s \in Seats(rooms, r)}
           /\ RoomsOf(s)' = {r \in DOMAIN rooms' : s \in Seats(rooms', r)}
BY DEF RoomsOf, Present, Seats

LEMMA OpenRoomLobby ==
    ASSUME LInv, NEW s \in Session,
           NEW settings \in [max: Nat, tutorial: BOOLEAN, private: BOOLEAN],
           settings.max > 0, roomId[s] = 0, OpenRoom(s, settings)
    PROVE  RoomsTidy' /\ RoomsOf(s)' = {roomId'[s]} /\ roomId'[s] # 0
<1> DEFINE room == NewRoom(settings)
           new == AddPlayer(room, s)
<1>1. GoodRoom(room) /\ Tidy(room) /\ s \notin Range(room.members)
    BY NewRoomGood, NewRoomTidy
<1>2. ~IsFull(room)
    BY DEF IsFull, NewRoom
<1>3. Tidy(new) /\ s \in Range(new.members)
    BY <1>1, <1>2, AddPlayerTidy
<1> HIDE DEF new, room
<1>4. /\ DOMAIN rooms' = DOMAIN rooms \cup {nextRoomId}
      /\ \A r \in DOMAIN rooms' : rooms'[r] = IF r = nextRoomId THEN new ELSE rooms[r]
    BY DEF OpenRoom, new, room
<1>5. roomId'[s] = nextRoomId /\ nextRoomId # 0
    BY DEF OpenRoom, LInv, IInv, TypeOK
<1>6. RoomsOf(s) = {}
    BY DEF LInv, OneRoomEach
<1>7. RoomsTidy'
    BY <1>3, <1>4 DEF RoomsTidy, LInv
<1>8. RoomsOf(s)' = {nextRoomId}
    BY <1>3, <1>4, <1>6, RoomsOfSeats DEF Seats
<1> QED BY <1>5, <1>7, <1>8

LEMMA CreateLobby ==
    ASSUME LobbyClients, LInv, NEW s \in Session, NEW settings \in Settings,
           CreateRoom(s, settings) \/ ChatCreateRoom(s, settings)
    PROVE  RoomsTidy' /\ RoomsOf(s)' = {roomId'[s]} /\ roomId'[s] # 0
<1> DEFINE full == [settings EXCEPT !.max = IF @ > 0 THEN @ ELSE NumSlots]
<1>1. /\ settings \in [max: Nat, tutorial: BOOLEAN, private: BOOLEAN] /\ settings.max > 0
      /\ full \in [max: Nat, tutorial: BOOLEAN, private: BOOLEAN] /\ full.max > 0
    BY RoomsAssumption DEF LobbyClients
<1>2. roomId[s] = 0
    BY DEF CreateRoom, ChatCreateRoom, MaySend, LobbyClients
<1>3. OpenRoom(s, settings) \/ OpenRoom(s, full)
    BY DEF CreateRoom, ChatCreateRoom
<1> QED BY <1>1, <1>2, <1>3, OpenRoomLobby

(* Taken out of its room, a session is in none. *)
LEMMA MovedOutLobby ==
    ASSUME LInv, NEW s \in Session, NEW r \in DOMAIN rooms
    PROVE  GoodRoom(MovedOut(s)[r]) /\ Tidy(MovedOut(s)[r]) /\ s \notin Seats(MovedOut(s), r)
<1>1. GoodRoom(rooms[r]) /\ Tidy(rooms[r])
    BY DEF LInv, IInv, RoomsGood, RoomsTidy
<1>2. MovedOut(s)[r] = IF r = roomId[s] THEN RemovePlayer(rooms[r], s) ELSE rooms[r]
    BY DEF MovedOut
<1>3. CASE r = roomId[s]
    BY <1>1, <1>2, <1>3, RemovePlayerGood, RemovePlayerTidy DEF Seats
<1>4. CASE r # roomId[s]
    <2>1. r \notin RoomsOf(s)
        BY <1>4 DEF LInv, OneRoomEach
    <2> QED BY <1>1, <1>2, <1>4, <2>1, RoomsOfSeats DEF Seats
<1> QED BY <1>3, <1>4

LEMMA JoinLobby ==
    ASSUME LInv, NEW s \in Session, NEW r \in RoomIds, NEW password \in BOOLEAN,
           JoinRoom(s, r, password)
    PROVE  RoomsTidy' /\ RoomsOf(s)' = {roomId'[s]} /\ roomId'[s] # 0
<1> DEFINE room == MovedOut(s)[r]
           joined == AddPlayer(room, s)
<1>1. r \in DOMAIN rooms /\ ~IsFull(rooms[r])
    BY DEF JoinRoom, Admits
<1>2. GoodRoom(room) /\ Tidy(room) /\ s \notin Range(room.members)
    BY <1>1, MovedOutLobby DEF Seats
<1>3. ~IsFull(room)
    <2>1. /\ rooms[r] \in Room /\ rooms[r].members \in Seq(Session)
          /\ rooms[r].max \in Nat
        BY <1>1 DEF LInv, IInv, RoomsGood, GoodRoom, Room
    <2>2. room = IF r = roomId[s] THEN RemovePlayer(rooms[r], s) ELSE rooms[r]
        BY <1>1 DEF MovedOut
    <2>3. /\ RemovePlayer(rooms[r], s).max = rooms[r].max
          /\ RemovePlayer(rooms[r], s).members = Without(rooms[r].members, s)
        BY <2>1 DEF RemovePlayer, Room
    <2>4. /\ Without(rooms[r].members, s) \in Seq(Session)
          /\ Len(Without(rooms[r].members, s)) <= Len(rooms[r].members)
        BY <2>1, WithoutSpec
    <2> HIDE DEF room
    <2> QED BY <1>1, <2>1, <2>2, <2>3, <2>4 DEF IsFull
<1>4. Tidy(joined) /\ s \in Range(joined.members)
    BY <1>2, <1>3, AddPlayerTidy
<1>5. /\ DOMAIN rooms' = DOMAIN rooms
      /\ \A q \in DOMAIN rooms : rooms'[q] = IF q = r THEN joined ELSE MovedOut(s)[q]
    <2>1. rooms' = [MovedOut(s) EXCEPT ![r] = joined]
        BY DEF JoinRoom
    <2> HIDE DEF joined, room
    <2>2. DOMAIN MovedOut(s) = DOMAIN rooms
        BY MovedOutGood DEF LInv
    <2> QED BY <2>1, <2>2 DEF MovedOut
<1> HIDE DEF joined, room
<1>6. RoomsTidy'
    BY <1>4, <1>5, MovedOutLobby DEF RoomsTidy
<1>7. RoomsOf(s)' = {r}
    BY <1>1, <1>4, <1>5, MovedOutLobby, RoomsOfSeats DEF Seats
<1>8. roomId'[s] = r /\ r # 0
    BY DEF JoinRoom, RoomIds, LInv, IInv, TypeOK
<1> QED BY <1>6, <1>7, <1>8

LEMMA LeaveLobby ==
    ASSUME LInv, NEW s \in Session, LeaveRoom(s)
    PROVE  RoomsTidy' /\ RoomsOf(s)' = {} /\ roomId'[s] = 0
<1> DEFINE r == roomId[s]
           left == RemovePlayer(rooms[r], s)
<1>1. roomId'[s] = 0
    BY DEF LeaveRoom, LInv, IInv, TypeOK
<1>2. RoomsOf(s) \subseteq {r}
    BY DEF LInv, OneRoomEach
<1>3. CASE r \notin DOMAIN rooms
    <2>1. rooms' = rooms
        BY <1>3 DEF LeaveRoom
    <2>2. RoomsOf(s) = {}
        BY <1>2, <1>3 DEF RoomsOf
    <2> QED BY <1>1, <2>1, <2>2 DEF RoomsOf, Present, RoomsTidy, LInv
<1>4. CASE r \in DOMAIN rooms
    <2>1. rooms' = IF IsEmpty(left) THEN Restrict(rooms, DOMAIN rooms \ {r})
                   ELSE [rooms EXCEPT ![r] = left]
        BY <1>4 DEF LeaveRoom
    <2>2. Tidy(left) /\ s \notin Range(left.members)
        BY <1>4, RemovePlayerGood, RemovePlayerTidy DEF LInv, IInv, RoomsGood, RoomsTidy
    <2> HIDE DEF left, r
    <2>3. /\ DOMAIN rooms' \subseteq DOMAIN rooms
          /\ \A q \in DOMAIN rooms' : (rooms'[q] = rooms[q] /\ q # r) \/ rooms'[q] = left
        BY <2>1 DEF Restrict
    <2>4. RoomsTidy'
        BY <2>2, <2>3 DEF RoomsTidy, LInv
    <2>5. RoomsOf(s)' = {}
        BY <1>2, <2>2, <2>3, RoomsOfSeats DEF Seats
    <2> QED BY <1>1, <2>4, <2>5
<1> QED BY <1>3, <1>4

LEMMA DisconnectLobby ==
    ASSUME LInv, NEW s \in Session, NEW n \in 0..MaxLate, Disconnect(s, n)
    PROVE  /\ RoomsTidy' /\ RoomsOf(s)' = {} /\ ~Connected(s)'
           /\ \A r \in DOMAIN rooms' : Seats(rooms', r) # {}
<1>1. DOMAIN MovedOut(s) = DOMAIN rooms
    BY MovedOutGood DEF LInv
<1>2. /\ DOMAIN rooms' = {q \in DOMAIN rooms : ~IsEmpty(MovedOut(s)[q])}
      /\ \A q \in DOMAIN rooms' : rooms'[q] = MovedOut(s)[q]
    BY <1>1 DEF Disconnect, Swept, Restrict
<1>3. RoomsTidy'
    BY <1>2, MovedOutLobby DEF RoomsTidy
<1>4. RoomsOf(s)' = {}
    BY <1>2, MovedOutLobby, RoomsOfSeats DEF Seats
<1>5. ~Connected(s)'
    BY DEF Disconnect, Connected, LInv, IInv, TypeOK
<1>6. ASSUME NEW r \in DOMAIN rooms' PROVE Seats(rooms', r) # {}
    <2>1. r \in DOMAIN rooms /\ rooms'[r] = MovedOut(s)[r] /\ ~IsEmpty(MovedOut(s)[r])
        BY <1>2
    <2>2. MovedOut(s)[r].members \in Seq(Session)
        BY <2>1, MovedOutLobby DEF GoodRoom, Room
    <2>3. rooms'[r].members \in Seq(Session) /\ rooms'[r].members # <<>>
        BY <2>1, <2>2 DEF IsEmpty
    <2>4. rooms'[r].members[1] \in Range(rooms'[r].members)
        BY <2>3 DEF Range
    <2> QED BY <2>4 DEF Seats
<1> QED BY <1>3, <1>4, <1>5, <1>6

(* The other packets move nobody. *)
LEMMA OneRoomTidy ==
    ASSUME LInv, NEW s \in Session, NEW r \in DOMAIN rooms, NEW new,
           new.members = rooms[r].members, Tidy(new), rooms' = [rooms EXCEPT ![r] = new]
    PROVE  RoomsTidy' /\ RoomsOf(s)' = RoomsOf(s)
<1>1. /\ DOMAIN rooms' = DOMAIN rooms
      /\ \A q \in DOMAIN rooms : rooms'[q] = IF q = r THEN new ELSE rooms[q]
    OBVIOUS
<1>2. \A q \in DOMAIN rooms : Seats(rooms', q) = Seats(rooms, q)
    BY <1>1 DEF Seats
<1>3. RoomsOf(s)' = RoomsOf(s)
    BY <1>1, <1>2, RoomsOfSeats, ZenonT(60)
<1>4. RoomsTidy'
    BY <1>1 DEF RoomsTidy, LInv
<1> QED BY <1>3, <1>4

LEMMA ReadyLobby ==
    ASSUME LInv, NEW s \in Session, NEW ready \in BOOLEAN, PlayerReady(s, ready)
    PROVE  RoomsTidy' /\ RoomsOf(s)' = RoomsOf(s)
<1> DEFINE r == roomId[s]
<1>1. r \in DOMAIN rooms /\ rooms' = [rooms EXCEPT ![r] = SetReady(rooms[r], s, ready)]
    BY DEF PlayerReady
<1>2. GoodRoom(rooms[r]) /\ Tidy(rooms[r])
    BY <1>1 DEF LInv, IInv, RoomsGood, RoomsTidy
<1>3. SetReady(rooms[r], s, ready).members = rooms[r].members
    BY <1>2 DEF SetReady, GoodRoom, Room
<1> QED BY <1>1, <1>2, <1>3, SetReadyTidy, OneRoomTidy

LEMMA RaceLobby ==
    ASSUME LInv, NEW s \in Session, GameStart(s) \/ RaceFinish(s)
    PROVE  RoomsTidy' /\ RoomsOf(s)' = RoomsOf(s)
<1> DEFINE r == roomId[s]
<1>1. r \in DOMAIN rooms
    BY DEF GameStart, RaceFinish
<1>2. PICK state \in {"waiting", "busy"} :
          rooms' = [rooms EXCEPT ![r] = [rooms[r] EXCEPT !.state = state]]
    BY DEF GameStart, RaceFinish, HandleStartRace, EndRace
<1>3. GoodRoom(rooms[r]) /\ Tidy(rooms[r])
    BY <1>1 DEF LInv, IInv, RoomsGood, RoomsTidy
<1>4. [rooms[r] EXCEPT !.state = state].members = rooms[r].members
    BY <1>3 DEF GoodRoom, Room
<1> QED BY <1>1, <1>2, <1>3, <1>4, SetStateTidy, OneRoomTidy

------------------------------------------------------------------------------
(* All of it together.                                                     *)

LEMMA InitLobby == Init => LInv
<1> SUFFICES ASSUME Init PROVE LInv
    OBVIOUS
<1>1. IInv
    BY InitInv
<1>2. NothingLate /\ NoRoomOutlivesPlayers /\ RoomsTidy
    BY DEF Init, NothingLate, NoRoomOutlivesPlayers, RoomsTidy
<1>3. OneRoomEach
    BY DEF Init, OneRoomEach, RoomsOf
<1> QED BY <1>1, <1>2, <1>3 DEF LInv

(* What a session's step does to its own place, and that a step after      *)
(* which nobody is connected leaves no room empty.                         *)
LEMMA StepLobby ==
    ASSUME LobbyClients, LInv, NEW s \in Session, SessionStep(s)
    PROVE  /\ RoomsTidy' /\ NothingLate'
           /\ RoomsOf(s)' = IF Connected(s)' /\ roomId'[s] # 0 THEN {roomId'[s]} ELSE {}
           /\ \A t \in Session \ {s} : roomId'[t] = roomId[t] /\ status'[t] = status[t]
           /\ Connected(s)' \/ \A r \in DOMAIN rooms' : Seats(rooms', r) # {}
<1>1. /\ status \in [Session -> {"new", "connected", "stopped"}]
      /\ late \in [Session -> Nat] /\ roomId \in [Session -> Nat]
    BY DEF LInv, IInv, TypeOK
<1>2. ASSUME Dispatch(s), status' = status,
             roomId' \in [Session -> Nat], \A t \in Session \ {s} : roomId'[t] = roomId[t]
      PROVE  /\ NothingLate' /\ Connected(s)'
             /\ \A t \in Session \ {s} : roomId'[t] = roomId[t] /\ status'[t] = status[t]
    BY <1>1, <1>2, DispatchConnected DEF LInv, NothingLate, Connected
<1>3. ASSUME NEW settings \in Settings, CreateRoom(s, settings) \/ ChatCreateRoom(s, settings)
      PROVE  Dispatch(s) /\ status' = status /\ roomId' = [roomId EXCEPT ![s] = nextRoomId]
    BY <1>3 DEF CreateRoom, ChatCreateRoom, OpenRoom
<1>4. nextRoomId \in Nat
    BY DEF LInv, IInv, TypeOK
<1>5. CASE \E settings \in Settings : CreateRoom(s, settings) \/ ChatCreateRoom(s, settings)
    BY <1>1, <1>2, <1>3, <1>4, <1>5, CreateLobby
<1>6. CASE \E r \in RoomIds, password \in BOOLEAN : JoinRoom(s, r, password)
    <2>1. PICK r \in RoomIds, password \in BOOLEAN : JoinRoom(s, r, password)
        BY <1>6
    <2>2. Dispatch(s) /\ status' = status /\ roomId' = [roomId EXCEPT ![s] = r] /\ r \in Nat
        BY <2>1 DEF JoinRoom, RoomIds
    <2> QED BY <1>1, <1>2, <2>1, <2>2, JoinLobby
<1>7. CASE LeaveRoom(s)
    <2>1. Dispatch(s) /\ status' = status /\ roomId' = [roomId EXCEPT ![s] = 0]
        BY <1>7 DEF LeaveRoom
    <2> QED BY <1>1, <1>2, <1>7, <2>1, LeaveLobby
<1>8. ASSUME Dispatch(s), status' = status, roomId' = roomId,
             RoomsTidy', RoomsOf(s)' = RoomsOf(s)
      PROVE  /\ RoomsTidy' /\ NothingLate'
             /\ RoomsOf(s)' = IF Connected(s)' /\ roomId'[s] # 0 THEN {roomId'[s]} ELSE {}
             /\ \A t \in Session \ {s} : roomId'[t] = roomId[t] /\ status'[t] = status[t]
             /\ Connected(s)'
    <2>1. RoomsOf(s) = IF Connected(s) /\ roomId[s] # 0 THEN {roomId[s]} ELSE {}
        BY DEF LInv, OneRoomEach
    <2>2. Connected(s)
        BY <1>8, DispatchConnected
    <2> QED BY <1>1, <1>2, <1>8, <2>1, <2>2
<1>9. CASE \E ready \in BOOLEAN : PlayerReady(s, ready)
    <2>1. Dispatch(s) /\ status' = status /\ roomId' = roomId
        BY <1>9 DEF PlayerReady
    <2> QED BY <1>8, <1>9, <2>1, ReadyLobby
<1>10. CASE GameStart(s) \/ RaceFinish(s)
    <2>1. Dispatch(s) /\ status' = status /\ roomId' = roomId
        BY <1>10 DEF GameStart, RaceFinish
    <2> QED BY <1>8, <1>10, <2>1, RaceLobby
<1>11. CASE Accept(s)
    <2>1. /\ status' = [status EXCEPT ![s] = "connected"] /\ status[s] = "new"
          /\ late' = late /\ roomId' = roomId /\ rooms' = rooms
        BY <1>11 DEF Accept
    <2>2. roomId[s] = 0 /\ RoomsOf(s) = {}
        BY <2>1 DEF LInv, NothingLate, OneRoomEach
    <2>3. RoomsOf(s)' = {} /\ RoomsTidy'
        BY <2>1, <2>2 DEF RoomsOf, Present, RoomsTidy, LInv
    <2>4. Connected(s)' /\ NothingLate'
        BY <1>1, <2>1 DEF Connected, NothingLate, LInv
    <2> QED BY <1>1, <2>1, <2>2, <2>3, <2>4
<1>12. CASE RefusedPacket(s)
    BY <1>12, DispatchConnected DEF RefusedPacket
<1>13. CASE \E n \in 0..MaxLate : Disconnect(s, n)
    <2>1. PICK n \in 0..MaxLate : Disconnect(s, n)
        BY <1>13
    <2>2. n = 0
        BY <2>1 DEF LobbyClients
    <2>3. /\ status' = [status EXCEPT ![s] = "stopped"] /\ late' = [late EXCEPT ![s] = 0]
          /\ roomId' = roomId
        BY <2>1, <2>2 DEF Disconnect
    <2>4. NothingLate'
        BY <1>1, <2>3 DEF NothingLate, LInv
    <2> QED BY <1>1, <2>1, <2>3, <2>4, DisconnectLobby
<1> QED BY <1>5, <1>6, <1>7, <1>9, <1>10, <1>11, <1>12, <1>13 DEF SessionStep

LEMMA NextLobby ==
    ASSUME LobbyClients
    PROVE  LInv /\ [Next]_vars => LInv'
<1> SUFFICES ASSUME LInv, [Next]_vars PROVE LInv'
    OBVIOUS
<1>1. CASE UNCHANGED vars
    BY <1>1, NextInv DEF vars, LInv, NothingLate, OneRoomEach, RoomsOf, Present, Connected,
                        NoRoomOutlivesPlayers, RoomsTidy
<1>2. ASSUME NEW s \in Session, SessionStep(s) PROVE LInv'
    <2>1. IInv'
        BY <1>2, NextInv DEF LInv, Next
    <2>2. RoomsTidy' /\ NothingLate'
        BY <1>2, StepLobby
    <2>3. OneRoomEach'
        <3>1. ASSUME NEW t \in Session
              PROVE  RoomsOf(t)' = IF Connected(t)' /\ roomId'[t] # 0 THEN {roomId'[t]} ELSE {}
            <4>1. CASE t = s
                BY <1>2, <4>1, StepLobby
            <4>2. CASE t # s
                <5>1. RoomsOf(t)' = RoomsOf(t)
                    BY <1>2, <4>2, OthersStay DEF LInv
                <5>2. roomId'[t] = roomId[t] /\ status'[t] = status[t]
                    BY <1>2, <4>2, StepLobby
                <5>3. RoomsOf(t) = IF Connected(t) /\ roomId[t] # 0 THEN {roomId[t]} ELSE {}
                    BY DEF LInv, OneRoomEach
                <5> QED BY <5>1, <5>2, <5>3 DEF Connected
            <4> QED BY <4>1, <4>2
        <3> QED BY <3>1 DEF OneRoomEach
    <2>4. NoRoomOutlivesPlayers'
        <3> SUFFICES ASSUME \A t \in Session : ~Connected(t)', NEW r \in DOMAIN rooms'
                     PROVE  FALSE
            BY DEF NoRoomOutlivesPlayers
        <3>1. PICK t \in Seats(rooms', r) : TRUE
            BY <1>2, StepLobby
        <3>2. t \in Session
            BY <2>1 DEF IInv, RoomsGood, GoodRoom, Room, Seats, Range
        <3>3. r \in RoomsOf(t)'
            BY <3>1, RoomsOfSeats
        <3> QED BY <2>3, <3>2, <3>3 DEF OneRoomEach
    <2> QED BY <2>1, <2>2, <2>3, <2>4 DEF LInv
<1> QED BY <1>1, <1>2 DEF Next

(* LInv is an invariant for such clients. *)
THEOREM LobbyInductive ==
    ASSUME LobbyClients
    PROVE  Spec => []LInv
BY InitLobby, NextLobby, PTL DEF Spec

(* A session is in the room its roomId names and nowhere else, although    *)
(* joining, leaving and disconnecting each write two tables and roomId.    *)
THEOREM LobbyOneRoomEach ==
    ASSUME LobbyClients
    PROVE  Spec => []OneRoomEach
<1>1. LInv => OneRoomEach
    BY DEF LInv
<1> QED BY <1>1, LobbyInductive, PTL

(* Rooms that handleJoinRoom leaves empty go with the next disconnection.  *)
THEOREM LobbyNoRoomOutlivesPlayers ==
    ASSUME LobbyClients
    PROVE  Spec => []NoRoomOutlivesPlayers
<1>1. LInv => NoRoomOutlivesPlayers
    BY DEF LInv
<1> QED BY <1>1, LobbyInductive, PTL

(* areAllPlayersReady never waits for the host.                            *)
THEOREM LobbyHostExempt ==
    ASSUME LobbyClients
    PROVE  Spec => []HostExempt
<1>1. LInv => HostExempt
    BY DEF LInv, RoomsTidy, Tidy, HostExempt
<1> QED BY <1>1, LobbyInductive, PTL

------------------------------------------------------------------------------
(* Starting.                                                               *)

(* Only handleGameStart takes a room out of Waiting. *)
LEMMA OnlyStartStarts ==
    ASSUME IInv, NEW s \in Session, SessionStep(s), ~GameStart(s),
           NEW r \in DOMAIN rooms \cap DOMAIN rooms', rooms'[r].state = "busy"
    PROVE  rooms[r].state = "busy"
<1>1. \A q \in DOMAIN rooms : rooms[q] \in Room /\ GoodRoom(rooms[q])
    BY DEF IInv, RoomsGood, GoodRoom
<1>2. \A q \in DOMAIN rooms : MovedOut(s)[q].state = rooms[q].state
    BY MovedOutSeats
<1>3. CASE UNCHANGED rooms
    BY <1>3
<1>4. ASSUME NEW settings, OpenRoom(s, settings) PROVE rooms'[r].state = rooms[r].state
    <2>1. nextRoomId \notin DOMAIN rooms
        BY DEF IInv, TypeOK
    <2> QED BY <1>4, <2>1 DEF OpenRoom
<1>5. ASSUME NEW q \in RoomIds, NEW password \in BOOLEAN, JoinRoom(s, q, password)
      PROVE  rooms'[r].state = rooms[r].state
    <2>1. q \in DOMAIN rooms /\ GoodRoom(MovedOut(s)[q])
        BY <1>5, MovedOutGood DEF JoinRoom
    <2>2. AddPlayer(MovedOut(s)[q], s).state = MovedOut(s)[q].state
        BY <2>1 DEF AddPlayer, GoodRoom, Room
    <2>3. rooms' = [MovedOut(s) EXCEPT ![q] = AddPlayer(MovedOut(s)[q], s)]
        BY <1>5 DEF JoinRoom
    <2>4. DOMAIN MovedOut(s) = DOMAIN rooms
        BY MovedOutGood
    <2> QED BY <1>2, <2>1, <2>2, <2>3, <2>4
<1>6. CASE LeaveRoom(s)
    <2> DEFINE left == RemovePlayer(rooms[roomId[s]], s)
    <2>1. CASE roomId[s] \in DOMAIN rooms
        <3>1. left.state = rooms[roomId[s]].state
            BY <1>1, <2>1 DEF RemovePlayer, Room
        <3>2. rooms' = IF IsEmpty(left) THEN Restrict(rooms, DOMAIN rooms \ {roomId[s]})
                       ELSE [rooms EXCEPT ![roomId[s]] = left]
            BY <1>6, <2>1 DEF LeaveRoom
        <3> HIDE DEF left
        <3> QED BY <2>1, <3>1, <3>2 DEF Restrict
    <2>2. CASE roomId[s] \notin DOMAIN rooms
        BY <1>3, <1>6, <2>2 DEF LeaveRoom
    <2> QED BY <2>1, <2>2
<1>7. ASSUME NEW n \in 0..MaxLate, Disconnect(s, n) PROVE rooms'[r].state = rooms[r].state
    BY <1>2, <1>7 DEF Disconnect, Swept, Restrict
<1>8. ASSUME NEW ready \in BOOLEAN, PlayerReady(s, ready) PROVE rooms'[r].state = rooms[r].state
    <2>1. roomId[s] \in DOMAIN rooms
          /\ rooms' = [rooms EXCEPT ![roomId[s]] = SetReady(rooms[roomId[s]], s, ready)]
        BY <1>8 DEF PlayerReady
    <2>2. SetReady(rooms[roomId[s]], s, ready).state = rooms[roomId[s]].state
        BY <1>1, <2>1 DEF SetReady, Room
    <2> QED BY <2>1, <2>2
<1>9. CASE RaceFinish(s)
    <2>1. rooms' = [rooms EXCEPT ![roomId[s]] = [rooms[roomId[s]] EXCEPT !.state = "waiting"]]
          /\ roomId[s] \in DOMAIN rooms
        BY <1>9 DEF RaceFinish, EndRace
    <2>2. [rooms[roomId[s]] EXCEPT !.state = "waiting"].state = "waiting"
        BY <1>1, <2>1 DEF Room
    <2> QED BY <2>1, <2>2
<1>10. CASE Accept(s) \/ RefusedPacket(s)
    BY <1>3, <1>10 DEF Accept, RefusedPacket
<1> QED BY <1>4, <1>5, <1>6, <1>7, <1>8, <1>9, <1>10
        DEF SessionStep, CreateRoom, ChatCreateRoom

(* Two places of a vector in which nobody is twice are two people. *)
LEMMA TwoPlayers ==
    ASSUME NEW q \in Seq(Session), Distinct(q), Len(q) >= 2
    PROVE  Cardinality(Range(q)) >= 2
<1> DEFINE D == Range(q)
<1>1. q[1] \in D /\ q[2] \in D /\ q[1] # q[2]
    BY DEF Distinct, Range
<1>2. IsFiniteSet(D)
    <2>1. q \in Surjection(1..Len(q), D)
        BY DEF Surjection, Range
    <2>2. IsFiniteSet(1..Len(q))
        BY FS_Interval
    <2> QED BY <2>1, <2>2, FS_Surjection
<1>3. Cardinality({q[1]}) = 1 /\ IsFiniteSet({q[1]})
    BY FS_Singleton
<1>4. {q[1]} \in SUBSET D /\ {q[1]} # D
    BY <1>1
<1>5. Cardinality({q[1]}) <= Cardinality(D) /\ Cardinality(D) # Cardinality({q[1]})
    BY <1>2, <1>4, FS_Subset
<1>6. Cardinality(D) \in Nat
    BY <1>2, FS_CardinalityType
<1> QED BY <1>3, <1>5, <1>6

(* A race for several starts with two different players, and with all of   *)
(* them ready but the host: nobody stands in the vector twice.             *)
THEOREM LobbyFairStart ==
    ASSUME LobbyClients
    PROVE  Spec => FairStart
<1>1. ASSUME LInv, NEW s \in Session, SessionStep(s),
             NEW r \in DOMAIN rooms \cap DOMAIN rooms',
             rooms[r].state = "waiting", rooms'[r].state = "busy", ~rooms[r].tutorial
      PROVE  /\ Cardinality(Present(r)) >= 2
             /\ \A t \in Present(r) \ {rooms[r].host} : rooms[r].players[t].ready
    <2>1. GameStart(s)
        BY <1>1, OnlyStartStarts DEF LInv
    <2>2. r = roomId[s] /\ CanStart(rooms[r])
        BY <1>1, <2>1 DEF GameStart, HandleStartRace
    <2>3. /\ Len(rooms[r].members) >= 2 /\ AreAllPlayersReady(rooms[r])
        BY <1>1, <2>2 DEF CanStart
    <2>4. GoodRoom(rooms[r]) /\ Tidy(rooms[r]) /\ rooms[r].members \in Seq(Session)
        BY <1>1 DEF LInv, IInv, RoomsGood, RoomsTidy, GoodRoom, Room
    <2>5. Cardinality(Present(r)) >= 2
        BY <2>3, <2>4, TwoPlayers DEF Tidy, Present
    <2>6. \A t \in Present(r) \ {rooms[r].host} : rooms[r].players[t].ready
        BY <2>3, <2>4 DEF AreAllPlayersReady, GoodRoom, Present
    <2> QED BY <2>5, <2>6
<1>2. LInv /\ [Next]_vars =>
          [\A r \in DOMAIN rooms \cap DOMAIN rooms' :
             rooms[r].state = "waiting" /\ rooms'[r].state = "busy" /\ ~rooms[r].tutorial
               => /\ Cardinality(Present(r)) >= 2
                  /\ \A s \in Present(r) \ {rooms[r].host} : rooms[r].players[s].ready]_vars
    BY <1>1 DEF Next
<1> QED BY <1>2, LobbyInductive, PTL DEF Spec, FairStart

------------------------------------------------------------------------------
(* What the players see: Rooms implements Lobby.  First one room at a time. *)

(* A table by its fields. *)
Seen(q, max, tutorial, racing, awaited) ==
    [guests |-> q, seats |-> max, solo |-> tutorial, racing |-> racing, awaited |-> awaited]

LEMMA SeenFields ==
    ASSUME NEW q, NEW max, NEW tutorial, NEW racing, NEW awaited, NEW t,
           t = Seen(q, max, tutorial, racing, awaited)
    PROVE  /\ t.guests = q /\ t.seats = max /\ t.solo = tutorial
           /\ t.racing = racing /\ t.awaited = awaited
BY DEF Seen

LEMMA TableSeen ==
    ASSUME NEW room
    PROVE  /\ Table(room) = Seen(room.members, room.max, room.tutorial, room.state = "busy",
                                 Table(room).awaited)
           /\ Table(room).guests = room.members /\ Table(room).seats = room.max
           /\ Table(room).solo = room.tutorial /\ Table(room).racing = (room.state = "busy")
<1> DEFINE awaited == {s \in DOMAIN room.players :
                          ~room.players[s].isHost /\ ~room.players[s].ready}
<1>1. Table(room) = Seen(room.members, room.max, room.tutorial, room.state = "busy", awaited)
    BY DEF Table, Seen
<1> HIDE DEF awaited
<1>2. Table(room).awaited = awaited
    BY <1>1, SeenFields
<1> QED BY <1>1, <1>2, SeenFields

(* The rooms that differ as Vacated and Taken say. *)
LEMMA VacatedTable ==
    ASSUME NEW room, NEW new, NEW s,
           new.max = room.max, new.tutorial = room.tutorial, new.state = room.state,
           Table(new).awaited =
               Table(room).awaited \ ({s} \cup TheLobby!First(new.members))
    PROVE  Table(new) = TheLobby!Vacated(Table(room), new.members, s)
<1>1. PICK t, u : t = Table(room) /\ u = Table(new)
    OBVIOUS
<1>2. /\ t.seats = new.max /\ t.solo = new.tutorial /\ t.racing = (new.state = "busy")
      /\ u.awaited = t.awaited \ ({s} \cup TheLobby!First(new.members))
    BY <1>1, TableSeen
<1>3. u = Seen(new.members, new.max, new.tutorial, new.state = "busy", u.awaited)
    BY <1>1, TableSeen
<1> QED BY <1>1, <1>2, <1>3 DEF TheLobby!Vacated, Seen

LEMMA TakenTable ==
    ASSUME NEW room, NEW new, NEW s, new.members = Append(room.members, s),
           new.max = room.max, new.tutorial = room.tutorial, new.state = room.state,
           Table(new).awaited =
               IF room.members = <<>> THEN {} ELSE Table(room).awaited \cup {s}
    PROVE  Table(new) = TheLobby!Taken(Table(room), s)
<1>1. PICK t, u : t = Table(room) /\ u = Table(new)
    OBVIOUS
<1>2. /\ t.seats = new.max /\ t.solo = new.tutorial /\ t.racing = (new.state = "busy")
      /\ t.guests = room.members
      /\ u.awaited = IF t.guests = <<>> THEN {} ELSE t.awaited \cup {s}
    BY <1>1, TableSeen
<1>3. u = Seen(Append(room.members, s), new.max, new.tutorial, new.state = "busy", u.awaited)
    BY <1>1, TableSeen
<1> QED BY <1>1, <1>2, <1>3 DEF TheLobby!Taken, Seen

LEMMA LobbyRange ==
    ASSUME NEW f
    PROVE  TheLobby!Range(f) = Range(f)
BY DEF Range, TheLobby!Range

LEMMA WithoutInOrder ==
    ASSUME NEW S, NEW q \in Seq(S), NEW s
    PROVE  TheLobby!IsWithout(Without(q, s), q, s)
<1> DEFINE K == Kept(q, s)
           n == Cardinality(K)
           pos(k) == CHOOSE i \in K : Rank(K, i) = k
           w == Without(q, s)
<1>1. K \in SUBSET (1..Len(q)) /\ K \in SUBSET Nat /\ IsFiniteSet(K) /\ n \in Nat
    BY KeptFinite
<1>2. /\ \A i, j \in K : i < j => Rank(K, i) < Rank(K, j)
      /\ \A k \in 1..n : \E i \in K : Rank(K, i) = k
    BY <1>1, RankOnto
<1>3. \A k \in 1..n : pos(k) \in K /\ Rank(K, pos(k)) = k
    BY <1>2
<1>4. w = [k \in 1..n |-> q[pos(k)]]
    BY DEF Without
<1> HIDE DEF pos, w, n
<1>5. DOMAIN w = 1..n /\ \A k \in 1..n : w[k] = q[pos(k)] /\ pos(k) \in DOMAIN q
    BY <1>1, <1>3, <1>4
<1>6. ASSUME NEW i \in 1..n, NEW j \in 1..n, i < j PROVE pos(i) < pos(j)
    <2>1. pos(i) \in K /\ pos(j) \in K /\ Rank(K, pos(i)) = i /\ Rank(K, pos(j)) = j
        BY <1>3
    <2>2. pos(i) \in Nat /\ pos(j) \in Nat
        BY <1>1, <2>1
    <2>3. pos(i) # pos(j)
        BY <1>6, <2>1
    <2>4. ~(pos(j) < pos(i))
        <3>1. pos(j) < pos(i) => j < i
            BY <1>2, <2>1
        <3> QED BY <1>1, <1>6, <3>1
    <2> QED BY <2>2, <2>3, <2>4
<1>7. \A i, j \in DOMAIN w : i < j =>
          \E k, l \in DOMAIN q : k < l /\ q[k] = w[i] /\ q[l] = w[j]
    BY <1>5, <1>6
<1>8. Range(w) = Range(q) \ {s}
    BY WithoutSpec DEF w
<1> QED BY <1>7, <1>8, LobbyRange DEF w, TheLobby!IsWithout

(* The race waits for those who are not first and not ready. *)
LEMMA Awaited ==
    ASSUME NEW room, GoodRoom(room), Tidy(room)
    PROVE  /\ \A s \in DOMAIN room.players :
                 room.players[s].isHost <=> s = room.members[1]
           /\ Table(room).awaited = {s \in Range(room.members) :
                 s # room.members[1] /\ ~room.players[s].ready}
<1>1. room.members \in Seq(Session) /\ Range(room.members) = DOMAIN room.players
    BY DEF GoodRoom, Room
<1>2. ASSUME NEW s \in DOMAIN room.players
      PROVE  room.players[s].isHost <=> s = room.members[1]
    <2>1. ~IsEmpty(room)
        BY <1>1, <1>2 DEF IsEmpty, Range
    <2>2. room.host = room.members[1] /\ room.players[room.host].isHost
        BY <2>1 DEF GoodRoom, Tidy
    <2>3. room.players[s].isHost => room.host = s
        BY DEF GoodRoom
    <2> QED BY <2>2, <2>3
<1> QED BY <1>1, <1>2 DEF Table

LEMMA StayerGivesUp ==
    ASSUME NEW room, GoodRoom(room), Tidy(room), NEW s, s \notin Range(room.members)
    PROVE  TheLobby!GivesUp(Table(room), Table(room), s)
<1> DEFINE q == room.members
           t == Table(room)
<1>1. TheLobby!IsWithout(q, q, s)
    BY LobbyRange DEF TheLobby!IsWithout
<1>2. t.awaited \ ({s} \cup TheLobby!First(q)) = t.awaited
    BY Awaited DEF TheLobby!First
<1>3. t.guests = q /\ t = TheLobby!Vacated(t, q, s)
    BY <1>2, VacatedTable, TableSeen
<1> QED BY <1>1, <1>3 DEF TheLobby!GivesUp

LEMMA RemovePlayerGivesUp ==
    ASSUME NEW room, GoodRoom(room), Tidy(room), NEW s \in Session
    PROVE  TheLobby!GivesUp(Table(room), Table(RemovePlayer(room, s)), s)
<1> DEFINE new == RemovePlayer(room, s)
           left == Without(room.members, s)
           handOn == room.host = s /\ left # <<>>
<1>1. /\ room \in Room /\ room.members \in Seq(Session)
      /\ room.players \in [DOMAIN room.players -> Player]
      /\ Range(room.members) = DOMAIN room.players
    BY PlayersDef DEF GoodRoom, Room
<1>2. GoodRoom(new) /\ Tidy(new)
    BY RemovePlayerGood, RemovePlayerTidy
<1>3. TheLobby!IsWithout(left, room.members, s) /\ Range(left) = Range(room.members) \ {s}
    BY <1>1, WithoutInOrder, WithoutSpec
<1> HIDE DEF left
<1>4. /\ new.members = left /\ new.max = room.max /\ new.tutorial = room.tutorial
      /\ new.state = room.state
      /\ new.players = [t \in DOMAIN room.players \ {s} |->
                          IF handOn /\ t = left[1]
                          THEN Promote(room.players[t]) ELSE room.players[t]]
    BY <1>1 DEF RemovePlayer, Room, Heir, Staying, left
<1>5. \A t \in DOMAIN room.players \ {s} : new.players[t].ready = room.players[t].ready
    BY <1>1, <1>4 DEF Promote, Player
<1>6. ASSUME left # <<>>, room.members[1] # s PROVE left[1] = room.members[1]
    <2>1. room.members # <<>>
        <3>1. left \in Seq(Session) /\ Len(left) <= Len(room.members)
            BY <1>1, WithoutSpec DEF left
        <3> QED BY <1>1, <1>6, <3>1
    <2> QED BY <1>1, <1>6, <2>1, WithoutSpec DEF left
<1>7. Table(new).awaited = Table(room).awaited \ ({s} \cup TheLobby!First(left))
    <2>1. Table(new).awaited = {t \in Range(left) : t # left[1] /\ ~new.players[t].ready}
        BY <1>2, <1>4, Awaited
    <2>2. Table(room).awaited = {t \in Range(room.members) :
              t # room.members[1] /\ ~room.players[t].ready}
        BY Awaited
    <2>3. CASE left = <<>>
        <3>1. Range(left) = {}
            BY <2>3 DEF Range
        <3> QED BY <1>3, <2>1, <2>2, <2>3, <3>1
    <2>4. CASE left # <<>>
        <3>1. \A t \in Range(left) : new.players[t].ready = room.players[t].ready
            BY <1>1, <1>3, <1>5
        <3>2. Table(new).awaited = {t \in Range(left) : t # left[1] /\ ~room.players[t].ready}
            BY <2>1, <3>1
        <3>3. \A t \in Range(left) : t # left[1] => t # room.members[1]
            BY <1>3, <1>6, <2>4
        <3>4. TheLobby!First(left) = {left[1]}
            BY <2>4 DEF TheLobby!First
        <3> QED BY <1>3, <2>2, <3>2, <3>3, <3>4
    <2> QED BY <2>3, <2>4
<1>8. Table(new) = TheLobby!Vacated(Table(room), left, s)
    BY <1>4, <1>7, VacatedTable
<1>9. Table(new).guests = left /\ Table(room).guests = room.members
    BY <1>4, TableSeen, SeenFields
<1> QED BY <1>3, <1>8, <1>9 DEF TheLobby!GivesUp

LEMMA AddPlayerTakes ==
    ASSUME NEW room, GoodRoom(room), Tidy(room), NEW s \in Session,
           s \notin Range(room.members), ~IsFull(room)
    PROVE  Table(AddPlayer(room, s)) = TheLobby!Taken(Table(room), s)
<1> DEFINE new == AddPlayer(room, s)
<1>1. /\ room \in Room
      /\ room.members \in Seq(Session)
      /\ room.players \in [DOMAIN room.players -> Player]
      /\ Range(room.members) = DOMAIN room.players
    BY PlayersDef DEF GoodRoom, Room
<1>2. /\ new.members = Append(room.members, s) /\ new.max = room.max
      /\ new.tutorial = room.tutorial /\ new.state = room.state
      /\ new.players = [t \in DOMAIN room.players \cup {s} |->
                          IF t = s
                          THEN [slot   |-> FindEmptySlot(room),
                                ready  |-> FALSE,
                                isHost |-> IsEmpty(room)]
                          ELSE room.players[t]]
    BY <1>1 DEF AddPlayer, Room
<1> HIDE DEF new
<1>3. /\ \A t \in DOMAIN room.players : new.players[t] = room.players[t]
      /\ DOMAIN new.players = DOMAIN room.players \cup {s}
      /\ ~new.players[s].ready /\ (new.players[s].isHost <=> IsEmpty(room))
    BY <1>1, <1>2
<1>4. Table(new).awaited = IF room.members = <<>> THEN {} ELSE Table(room).awaited \cup {s}
    <2>1. CASE room.members = <<>>
        <3>1. DOMAIN room.players = {}
            BY <1>1, <2>1 DEF Range
        <3> QED BY <1>3, <2>1, <3>1 DEF Table, IsEmpty
    <2>2. CASE room.members # <<>>
        BY <1>1, <1>3, <2>2 DEF Table, IsEmpty
    <2> QED BY <2>1, <2>2
<1>5. Table(new) = TheLobby!Taken(Table(room), s)
    BY <1>2, <1>4, TakenTable, SMTT(40)
<1> QED BY <1>5 DEF new

(* Nobody was there: s has the table to itself. *)
LEMMA TakenAlone ==
    ASSUME NEW room, NEW s, room.members = <<>>, room.max > 0, room.state = "waiting"
    PROVE  TheLobby!Opens(TheLobby!Taken(Table(room), s), s)
<1>1. PICK t : t = Table(room)
    OBVIOUS
<1>2. t.guests = <<>> /\ t.seats = room.max /\ ~t.racing
    BY <1>1, TableSeen
<1>3. PICK u : u = TheLobby!Taken(t, s)
    OBVIOUS
<1>4. u.guests = Append(t.guests, s) /\ u.awaited = {}
    BY <1>2, <1>3 DEF TheLobby!Taken
<1>5. u.seats = t.seats /\ u.racing = t.racing
    BY <1>3 DEF TheLobby!Taken
<1>6. u.guests = <<s>>
    BY <1>2, <1>4
<1>7. u.seats > 0 /\ ~u.racing
    BY <1>2, <1>5
<1> QED BY <1>1, <1>3, <1>4, <1>6, <1>7 DEF TheLobby!Opens

(* Added to what is left of the room without him, s has sat down last. *)
LEMMA AddPlayerReceives ==
    ASSUME NEW before, NEW room, GoodRoom(room), Tidy(room), NEW s \in Session,
           s \notin Range(room.members), ~IsFull(room),
           TheLobby!GivesUp(before, Table(room), s)
    PROVE  TheLobby!Receives(before, Table(AddPlayer(room, s)), s)
<1> DEFINE after == Table(AddPlayer(room, s))
           q == room.members
<1>1. after = TheLobby!Taken(Table(room), s)
    BY AddPlayerTakes
<1>2. AddPlayer(room, s).members = Append(q, s)
    BY DEF AddPlayer, GoodRoom, Room
<1>3. q \in Seq(Session) /\ Table(room).guests = q
    BY TableSeen, SeenFields DEF GoodRoom, Room
<1>4. after.guests = Append(q, s)
    BY <1>2, TableSeen
<1>5. TheLobby!Front(after.guests) = q
    <2>1. Len(Append(q, s)) - 1 = Len(q) /\ SubSeq(Append(q, s), 1, Len(q)) = q
        BY <1>3
    <2> QED BY <1>4, <2>1 DEF TheLobby!Front
<1> HIDE DEF after, q
<1>6. TheLobby!IsWithout(q, before.guests, s) /\ Table(room) = TheLobby!Vacated(before, q, s)
    BY <1>3 DEF TheLobby!GivesUp
<1> QED BY <1>1, <1>5, <1>6 DEF TheLobby!Receives, after

------------------------------------------------------------------------------
(* The tables are the rooms with somebody in them. *)
Occupied(table) == {r \in DOMAIN table : ~IsEmpty(table[r])}

LEMMA TablesAre ==
    /\ DOMAIN Tables = Occupied(rooms) /\ \A r \in Occupied(rooms) : Tables[r] = Table(rooms[r])
    /\ DOMAIN Tables' = Occupied(rooms')
    /\ \A r \in Occupied(rooms') : Tables'[r] = Table(rooms'[r])
    /\ Tables = [r \in DOMAIN Tables |-> Tables[r]]
    /\ Tables' = [r \in DOMAIN Tables' |-> Tables'[r]]
BY DEF Tables, Occupied

(* The room of a connected session, which is in it. *)
LEMMA OwnTable ==
    ASSUME LInv, NEW s \in Session, Connected(s)
    PROVE  /\ \A r \in DOMAIN rooms : r = roomId[s] <=> s \in Seats(rooms, r)
           /\ roomId[s] \in DOMAIN rooms => roomId[s] \in Occupied(rooms)
<1>1. RoomsOf(s) = IF roomId[s] # 0 THEN {roomId[s]} ELSE {}
    BY DEF LInv, OneRoomEach
<1>2. 0 \notin DOMAIN rooms
    BY DEF LInv, IInv, TypeOK
<1>3. \A r \in DOMAIN rooms : r = roomId[s] <=> s \in Seats(rooms, r)
    BY <1>1, <1>2, RoomsOfSeats
<1>4. \A r \in DOMAIN rooms : s \in Seats(rooms, r) => ~IsEmpty(rooms[r])
    BY DEF Seats, IsEmpty, Range
<1> QED BY <1>3, <1>4 DEF Occupied

(* What is left occupied when s goes. *)
LEMMA LeftOccupied ==
    ASSUME LInv, NEW s \in Session, Connected(s)
    PROVE  Occupied(MovedOut(s)) = {r \in Occupied(rooms) : TheLobby!Guests(r) # {s}}
<1>1. DOMAIN MovedOut(s) = DOMAIN rooms
    BY MovedOutGood DEF LInv
<1>2. ASSUME NEW r \in DOMAIN rooms
      PROVE  ~IsEmpty(MovedOut(s)[r]) <=> ~IsEmpty(rooms[r]) /\ Seats(rooms, r) # {s}
    <2>1. GoodRoom(rooms[r]) /\ GoodRoom(MovedOut(s)[r])
        BY MovedOutGood DEF LInv, IInv, RoomsGood
    <2>2. /\ rooms[r].members \in Seq(Session) /\ MovedOut(s)[r].members \in Seq(Session)
        BY <2>1 DEF GoodRoom, Room
    <2>3. \A q \in Seq(Session) : q = <<>> <=> Range(q) = {}
        <3>1. \A q \in Seq(Session) : q # <<>> => q[1] \in Range(q)
            BY DEF Range
        <3>2. Range(<<>>) = {}
            BY DEF Range
        <3> QED BY <3>1, <3>2
    <2>4. CASE r = roomId[s]
        <3>1. Range(MovedOut(s)[r].members) = Range(rooms[r].members) \ {s}
            BY <2>1, <2>4, RemovePlayerGood DEF MovedOut
        <3>2. s \in Range(rooms[r].members)
            BY <2>4, OwnTable DEF Seats
        <3> QED BY <2>2, <2>3, <3>1, <3>2 DEF IsEmpty, Seats
    <2>5. CASE r # roomId[s]
        <3>1. MovedOut(s)[r] = rooms[r] /\ s \notin Seats(rooms, r)
            BY <2>5, OwnTable DEF MovedOut
        <3> QED BY <3>1
    <2> QED BY <2>4, <2>5
<1>3. \A r \in Occupied(rooms) : TheLobby!Guests(r) = Seats(rooms, r)
    BY TablesAre, TableSeen, LobbyRange DEF TheLobby!Guests, Seats
<1> QED BY <1>1, <1>2, <1>3 DEF Occupied

(* Whatever s enters, it leaves the other tables. *)
LEMMA LeavesOthers ==
    ASSUME LInv, NEW s \in Session, Connected(s), NEW ids,
           Occupied(rooms') = Occupied(MovedOut(s)) \cup ids,
           \A r \in Occupied(MovedOut(s)) \ ids : rooms'[r] = MovedOut(s)[r]
    PROVE  TheLobby!LeavesAllBut(ids, s)
<1>1. DOMAIN Tables' = {r \in DOMAIN Tables : TheLobby!Guests(r) # {s}} \cup ids
    BY LeftOccupied, TablesAre
<1>2. ASSUME NEW r \in DOMAIN Tables' \ ids
      PROVE  IF s \in TheLobby!Guests(r) THEN TheLobby!GivesUp(Tables[r], Tables'[r], s)
             ELSE Tables'[r] = Tables[r]
    <2>1. r \in Occupied(rooms) /\ r \in Occupied(MovedOut(s)) /\ r \in DOMAIN rooms
        BY <1>2, LeftOccupied, TablesAre DEF Occupied
    <2>2. Tables[r] = Table(rooms[r]) /\ Tables'[r] = Table(MovedOut(s)[r])
        BY <1>2, <2>1, TablesAre
    <2>3. TheLobby!Guests(r) = Seats(rooms, r)
        BY <2>1, TablesAre, TableSeen, LobbyRange DEF TheLobby!Guests, Seats
    <2>4. CASE r = roomId[s]
        <3>1. MovedOut(s)[r] = RemovePlayer(rooms[r], s)
            BY <2>1, <2>4 DEF MovedOut
        <3>2. TheLobby!GivesUp(Table(rooms[r]), Table(RemovePlayer(rooms[r], s)), s)
            BY <2>1, RemovePlayerGivesUp DEF LInv, IInv, RoomsGood, RoomsTidy
        <3> QED BY <2>1, <2>2, <2>3, <2>4, <3>1, <3>2, OwnTable
    <2>5. CASE r # roomId[s]
        <3>1. MovedOut(s)[r] = rooms[r]
            BY <2>1, <2>5 DEF MovedOut
        <3> QED BY <2>1, <2>2, <2>3, <2>5, <3>1, OwnTable
    <2> QED BY <2>4, <2>5
<1> QED BY <1>1, <1>2 DEF TheLobby!LeavesAllBut

(* Going to the table r, which may be the own one and may be taken by      *)
(* nobody.                                                                 *)
LEMMA JoinEnters ==
    ASSUME LInv, NEW s \in Session, NEW r \in RoomIds, NEW password \in BOOLEAN,
           JoinRoom(s, r, password)
    PROVE  r \in DOMAIN Tables' /\ TheLobby!Enter(s, r)
<1> DEFINE room == MovedOut(s)[r]
           joined == AddPlayer(room, s)
<1>1. /\ r \in DOMAIN rooms /\ ~IsFull(rooms[r]) /\ rooms[r].state = "waiting"
      /\ Connected(s)
    BY DispatchConnected DEF JoinRoom, Admits
<1>2. GoodRoom(room) /\ Tidy(room) /\ s \notin Range(room.members)
    BY <1>1, MovedOutLobby DEF Seats
<1>3. /\ rooms[r] \in Room /\ GoodRoom(rooms[r]) /\ Tidy(rooms[r])
      /\ rooms[r].members \in Seq(Session) /\ rooms[r].max \in Nat
    BY <1>1 DEF LInv, IInv, RoomsGood, RoomsTidy, GoodRoom, Room
<1>4. room = IF r = roomId[s] THEN RemovePlayer(rooms[r], s) ELSE rooms[r]
    BY <1>1 DEF MovedOut
<1>5. ~IsFull(room)
    <2>1. /\ RemovePlayer(rooms[r], s).max = rooms[r].max
          /\ RemovePlayer(rooms[r], s).members = Without(rooms[r].members, s)
        BY <1>3 DEF RemovePlayer, Room
    <2>2. /\ Without(rooms[r].members, s) \in Seq(Session)
          /\ Len(Without(rooms[r].members, s)) <= Len(rooms[r].members)
        BY <1>3, WithoutSpec
    <2> HIDE DEF room
    <2> QED BY <1>1, <1>3, <1>4, <2>1, <2>2 DEF IsFull
<1>6. /\ DOMAIN rooms' = DOMAIN rooms /\ DOMAIN MovedOut(s) = DOMAIN rooms
      /\ \A q \in DOMAIN rooms : rooms'[q] = IF q = r THEN joined ELSE MovedOut(s)[q]
    <2>1. rooms' = [MovedOut(s) EXCEPT ![r] = joined]
        BY DEF JoinRoom
    <2> HIDE DEF joined, room
    <2>2. DOMAIN MovedOut(s) = DOMAIN rooms
        BY MovedOutGood DEF LInv
    <2> QED BY <2>1, <2>2 DEF MovedOut
<1>7. ~IsEmpty(joined)
    <2>1. s \in Range(joined.members)
        BY <1>2, <1>5, AddPlayerTidy
    <2> HIDE DEF joined
    <2> QED BY <2>1 DEF IsEmpty, Range
<1>8. Table(joined) = TheLobby!Taken(Table(room), s)
    BY <1>2, <1>5, AddPlayerTakes
<1>9. r \in Occupied(rooms) => TheLobby!Receives(Table(rooms[r]), Table(joined), s)
    <2>1. TheLobby!GivesUp(Table(rooms[r]), Table(room), s)
        <3>1. CASE r = roomId[s]
            BY <1>3, <1>4, <3>1, RemovePlayerGivesUp
        <3>2. CASE r # roomId[s]
            BY <1>2, <1>3, <1>4, <3>2, StayerGivesUp
        <3> QED BY <3>1, <3>2
    <2> QED BY <1>2, <1>5, <2>1, AddPlayerReceives
<1>10. r \notin Occupied(rooms) => TheLobby!Opens(Table(joined), s)
    <2> SUFFICES ASSUME r \notin Occupied(rooms) PROVE TheLobby!Opens(Table(joined), s)
        OBVIOUS
    <2>1. room = rooms[r] /\ room.members = <<>>
        BY <1>1, <1>4, OwnTable DEF Occupied, IsEmpty
    <2>2. room.max > 0
        BY <1>1, <1>3, <2>1 DEF IsFull
    <2> HIDE DEF room, joined
    <2> QED BY <1>1, <1>8, <2>1, <2>2, TakenAlone
<1> HIDE DEF joined, room
<1>11. /\ Occupied(rooms') = Occupied(MovedOut(s)) \cup {r}
       /\ \A q \in Occupied(MovedOut(s)) \ {r} : rooms'[q] = MovedOut(s)[q]
    BY <1>1, <1>6, <1>7 DEF Occupied
<1>12. TheLobby!LeavesAllBut({r}, s)
    BY <1>1, <1>11, LeavesOthers
<1>13. r \in DOMAIN Tables' /\ Tables'[r] = Table(joined)
    BY <1>1, <1>6, <1>11, TablesAre
<1>14. ASSUME r \in DOMAIN Tables
       PROVE  ~Tables[r].racing /\ Len(Tables[r].guests) < Tables[r].seats
    <2>1. Tables[r] = Table(rooms[r])
        BY <1>14, TablesAre
    <2>2. ~Tables[r].racing
        BY <1>1, <2>1, TableSeen
    <2>3. Tables[r].guests = rooms[r].members /\ Tables[r].seats = rooms[r].max
        BY <2>1, TableSeen
    <2>4. Len(rooms[r].members) < rooms[r].max
        BY <1>1, <1>3 DEF IsFull
    <2> QED BY <2>2, <2>3, <2>4
<1> QED BY <1>9, <1>10, <1>12, <1>13, <1>14, TablesAre DEF TheLobby!Enter

LEMMA OpenRoomEnters ==
    ASSUME LInv, NEW s \in Session, Connected(s), roomId[s] = 0,
           NEW settings \in [max: Nat, tutorial: BOOLEAN, private: BOOLEAN],
           settings.max > 0, OpenRoom(s, settings)
    PROVE  nextRoomId \in DOMAIN Tables' /\ TheLobby!Enter(s, nextRoomId)
<1> DEFINE room == NewRoom(settings)
           new == AddPlayer(room, s)
<1>1. /\ GoodRoom(room) /\ Tidy(room) /\ s \notin Range(room.members)
      /\ room.members = <<>> /\ room.max = settings.max /\ room.state = "waiting"
    BY NewRoomGood, NewRoomTidy DEF NewRoom
<1>2. ~IsFull(room)
    BY <1>1 DEF IsFull
<1>3. Table(new) = TheLobby!Taken(Table(room), s)
    BY <1>1, <1>2, AddPlayerTakes
<1>4. ~IsEmpty(new)
    <2>1. s \in Range(new.members)
        BY <1>1, <1>2, AddPlayerTidy
    <2> HIDE DEF new
    <2> QED BY <2>1 DEF IsEmpty, Range
<1> HIDE DEF new, room
<1>5. TheLobby!Opens(Table(new), s)
    BY <1>1, <1>3, TakenAlone
<1>6. /\ DOMAIN rooms' = DOMAIN rooms \cup {nextRoomId}
      /\ \A r \in DOMAIN rooms' : rooms'[r] = IF r = nextRoomId THEN new ELSE rooms[r]
    BY DEF OpenRoom, new, room
<1>7. nextRoomId \notin DOMAIN rooms /\ roomId[s] \notin DOMAIN rooms
    BY DEF LInv, IInv, TypeOK
<1>8. DOMAIN MovedOut(s) = DOMAIN rooms /\ \A r \in DOMAIN rooms : MovedOut(s)[r] = rooms[r]
    BY <1>7 DEF MovedOut
<1>9. /\ Occupied(rooms') = Occupied(MovedOut(s)) \cup {nextRoomId}
      /\ \A r \in Occupied(MovedOut(s)) \ {nextRoomId} : rooms'[r] = MovedOut(s)[r]
    BY <1>4, <1>6, <1>7, <1>8 DEF Occupied
<1>10. TheLobby!LeavesAllBut({nextRoomId}, s)
    BY <1>9, LeavesOthers
<1>11. nextRoomId \in DOMAIN Tables' /\ Tables'[nextRoomId] = Table(new)
    BY <1>6, <1>9, TablesAre
<1>12. nextRoomId \notin DOMAIN Tables
    BY <1>7, TablesAre DEF Occupied
<1> QED BY <1>5, <1>10, <1>11, <1>12 DEF TheLobby!Enter

LEMMA LeaveLeaves ==
    ASSUME LInv, NEW s \in Session, LeaveRoom(s)
    PROVE  TheLobby!Leave(s)
<1> DEFINE r == roomId[s]
           left == RemovePlayer(rooms[r], s)
<1>1. Connected(s)
    BY DispatchConnected DEF LeaveRoom
<1>2. DOMAIN MovedOut(s) = DOMAIN rooms
    BY MovedOutGood DEF LInv
<1>3. \A q \in DOMAIN rooms : MovedOut(s)[q] = IF q = r THEN left ELSE rooms[q]
    BY DEF MovedOut
<1>4. /\ Occupied(rooms') = Occupied(MovedOut(s))
      /\ \A q \in Occupied(MovedOut(s)) : rooms'[q] = MovedOut(s)[q]
    <2>1. CASE r \notin DOMAIN rooms
        <3>1. rooms' = rooms
            BY <2>1 DEF LeaveRoom
        <3> QED BY <1>2, <1>3, <2>1, <3>1 DEF Occupied
    <2>2. CASE r \in DOMAIN rooms
        <3>1. rooms' = IF IsEmpty(left) THEN Restrict(rooms, DOMAIN rooms \ {r})
                       ELSE [rooms EXCEPT ![r] = left]
            BY <2>2 DEF LeaveRoom
        <3> HIDE DEF left, r
        <3>2. CASE IsEmpty(left)
            <4>1. /\ DOMAIN rooms' = DOMAIN rooms \ {r}
                  /\ \A q \in DOMAIN rooms' : rooms'[q] = rooms[q]
                BY <3>1, <3>2 DEF Restrict
            <4> QED BY <1>2, <1>3, <2>2, <3>2, <4>1 DEF Occupied
        <3>3. CASE ~IsEmpty(left)
            <4>1. /\ DOMAIN rooms' = DOMAIN rooms
                  /\ \A q \in DOMAIN rooms' : rooms'[q] = IF q = r THEN left ELSE rooms[q]
                BY <2>2, <3>1, <3>3
            <4> QED BY <1>2, <1>3, <2>2, <3>3, <4>1 DEF Occupied
        <3> QED BY <3>2, <3>3
    <2> QED BY <2>1, <2>2
<1>5. TheLobby!LeavesAllBut({}, s)
    BY <1>1, <1>4, LeavesOthers
<1> QED BY <1>5 DEF TheLobby!Leave

LEMMA DisconnectLeaves ==
    ASSUME LInv, NEW s \in Session, NEW n \in 0..MaxLate, Disconnect(s, n)
    PROVE  TheLobby!Leave(s)
<1>1. DOMAIN MovedOut(s) = DOMAIN rooms
    BY MovedOutGood DEF LInv
<1>2. /\ DOMAIN rooms' = Occupied(MovedOut(s))
      /\ \A r \in DOMAIN rooms' : rooms'[r] = MovedOut(s)[r]
    BY <1>1 DEF Disconnect, Swept, Restrict, Occupied
<1>3. Occupied(rooms') = Occupied(MovedOut(s))
    BY <1>2 DEF Occupied
<1>4. TheLobby!LeavesAllBut({}, s)
    BY <1>2, <1>3, LeavesOthers DEF Disconnect
<1> QED BY <1>4 DEF TheLobby!Leave

(* A change of one room in which s sits changes its table. *)
LEMMA OneTable ==
    ASSUME LInv, NEW s \in Session, Connected(s), NEW new, roomId[s] \in DOMAIN rooms,
           new.members = rooms[roomId[s]].members, rooms' = [rooms EXCEPT ![roomId[s]] = new]
    PROVE  /\ roomId[s] \in DOMAIN Tables
           /\ Tables[roomId[s]] = Table(rooms[roomId[s]])
           /\ s \in TheLobby!Guests(roomId[s])
           /\ Tables' = [Tables EXCEPT ![roomId[s]] = Table(new)]
<1> DEFINE r == roomId[s]
<1>1. r \in Occupied(rooms) /\ s \in Seats(rooms, r)
    BY OwnTable
<1>2. /\ DOMAIN rooms' = DOMAIN rooms
      /\ \A q \in DOMAIN rooms : rooms'[q] = IF q = r THEN new ELSE rooms[q]
    OBVIOUS
<1>3. Occupied(rooms') = Occupied(rooms)
    BY <1>1, <1>2 DEF Occupied, IsEmpty
<1> HIDE DEF r
<1>4. /\ DOMAIN Tables' = DOMAIN Tables /\ r \in DOMAIN Tables
      /\ \A q \in DOMAIN Tables : Tables'[q] = IF q = r THEN Table(new) ELSE Tables[q]
    <2>1. \A q \in Occupied(rooms) : q \in DOMAIN rooms
        BY DEF Occupied
    <2>2. DOMAIN Tables' = DOMAIN Tables /\ r \in DOMAIN Tables
        BY <1>1, <1>3, TablesAre
    <2>3. ASSUME NEW q \in DOMAIN Tables
          PROVE  Tables'[q] = IF q = r THEN Table(new) ELSE Tables[q]
        <3>1. q \in DOMAIN rooms /\ Tables[q] = Table(rooms[q]) /\ Tables'[q] = Table(rooms'[q])
            BY <1>3, <2>1, <2>3, TablesAre
        <3>2. rooms'[q] = IF q = r THEN new ELSE rooms[q]
            BY <1>2, <3>1
        <3> QED BY <3>1, <3>2
    <2> QED BY <2>2, <2>3
<1>5. PICK old, next : old = Tables /\ next = Tables'
    OBVIOUS
<1>6. /\ old = [q \in DOMAIN old |-> old[q]] /\ next = [q \in DOMAIN next |-> next[q]]
      /\ DOMAIN next = DOMAIN old
      /\ \A q \in DOMAIN old : next[q] = IF q = r THEN Table(new) ELSE old[q]
    BY <1>4, <1>5, TablesAre, ZenonT(60)
<1>7. next = [old EXCEPT ![r] = Table(new)]
    BY <1>6, ZenonT(40)
<1>8. Tables[r] = Table(rooms[r])
    BY <1>1, TablesAre
<1>9. s \in TheLobby!Guests(r)
    BY <1>1, <1>8, TableSeen, LobbyRange DEF TheLobby!Guests, Seats
<1> QED BY <1>4, <1>5, <1>7, <1>8, <1>9 DEF r

LEMMA ReadySays ==
    ASSUME LInv, NEW s \in Session, NEW ready \in BOOLEAN, PlayerReady(s, ready)
    PROVE  roomId[s] \in DOMAIN Tables /\ TheLobby!SayReady(s, roomId[s], ready)
<1> DEFINE r == roomId[s]
           room == rooms[r]
           new == SetReady(room, s, ready)
<1>1. r \in DOMAIN rooms /\ rooms' = [rooms EXCEPT ![r] = new] /\ Connected(s)
    BY DispatchConnected DEF PlayerReady
<1>2. /\ GoodRoom(room) /\ Tidy(room) /\ GoodRoom(new) /\ Tidy(new)
    BY <1>1, SetReadyGood, SetReadyTidy DEF LInv, IInv, RoomsGood, RoomsTidy
<1>3. /\ new.members = room.members /\ new.max = room.max
      /\ new.tutorial = room.tutorial /\ new.state = room.state
      /\ room.players \in [DOMAIN room.players -> Player]
      /\ new.players = [t \in DOMAIN room.players |->
             [room.players[t] EXCEPT !.ready = IF t = s THEN ready ELSE @]]
    BY <1>2, PlayersDef DEF SetReady, GoodRoom, Room
<1>4. \A t \in DOMAIN room.players :
          new.players[t].ready = IF t = s THEN ready ELSE room.players[t].ready
    BY <1>3 DEF Player
<1>5. Range(room.members) = DOMAIN room.players
    BY <1>2 DEF GoodRoom
<1> HIDE DEF new, room, r
<1>6. /\ r \in DOMAIN Tables /\ Tables[r] = Table(room) /\ s \in TheLobby!Guests(r)
      /\ Tables' = [Tables EXCEPT ![r] = Table(new)]
    BY <1>1, <1>3, OneTable DEF r, room
<1>7. s \in Range(room.members)
    BY <1>6, TableSeen, LobbyRange DEF TheLobby!Guests
<1>8. Table(new).awaited = IF ready \/ s = room.members[1] THEN Table(room).awaited \ {s}
                           ELSE Table(room).awaited \cup {s}
    <2>1. \A t : t \in Table(new).awaited <=> /\ t \in Range(new.members)
                                              /\ t # new.members[1] /\ ~new.players[t].ready
        BY <1>2, Awaited
    <2>2. \A t : t \in Table(room).awaited <=> /\ t \in Range(room.members)
                                               /\ t # room.members[1] /\ ~room.players[t].ready
        BY <1>2, Awaited
    <2>3. \A t \in Range(room.members) : t \in Table(new).awaited <=>
              t # room.members[1] /\ ~(IF t = s THEN ready ELSE room.players[t].ready)
        BY <1>3, <1>4, <1>5, <2>1
    <2>4. PICK a, b, q, first : a = Table(new).awaited /\ b = Table(room).awaited
                             /\ q = Range(room.members) /\ first = room.members[1]
        OBVIOUS
    <2>5. \A t : t \in a => t \in q
        BY <1>3, <2>1, <2>4
    <2>6. \A t : t \in b => t \in q
        BY <2>2, <2>4
    <2>7. \A t \in q : t # s => (t \in a <=> t \in b)
        BY <2>2, <2>3, <2>4
    <2>8. s \in q /\ (s \in a <=> s # first /\ ~ready)
        BY <1>7, <2>3, <2>4
    <2>9. a = IF ready \/ s = first THEN b \ {s} ELSE b \cup {s}
        BY <2>5, <2>6, <2>7, <2>8
    <2> QED BY <2>4, <2>9
<1>9. PICK t, u : t = Table(room) /\ u = Table(new)
    OBVIOUS
<1>10. /\ t = Seen(new.members, new.max, new.tutorial, new.state = "busy", t.awaited)
       /\ t.guests = room.members
    BY <1>3, <1>9, TableSeen
<1>11. u = Seen(new.members, new.max, new.tutorial, new.state = "busy", u.awaited)
    BY <1>9, TableSeen
<1>12. PICK waits : waits = u.awaited
    OBVIOUS
<1>13. u = [t EXCEPT !.awaited = waits]
    BY <1>10, <1>11, <1>12 DEF Seen
<1>14. waits = IF ready \/ s = t.guests[1] THEN t.awaited \ {s} ELSE t.awaited \cup {s}
    BY <1>8, <1>9, <1>10, <1>12
<1>15. Tables[r] = t /\ Tables' = [Tables EXCEPT ![r] = u]
    BY <1>6, <1>9
<1>16. Tables' = [Tables EXCEPT ![r].awaited =
                    IF ready \/ s = Tables[r].guests[1] THEN @ \ {s} ELSE @ \cup {s}]
    BY <1>6, <1>13, <1>14, <1>15
<1> QED BY <1>6, <1>16 DEF TheLobby!SayReady, r

LEMMA RaceBegins ==
    ASSUME LInv, NEW s \in Session, GameStart(s)
    PROVE  roomId[s] \in DOMAIN Tables /\ TheLobby!Begin(roomId[s])
<1> DEFINE r == roomId[s]
           room == rooms[r]
           new == [room EXCEPT !.state = "busy"]
<1>1. r \in DOMAIN rooms /\ rooms' = [rooms EXCEPT ![r] = new] /\ Connected(s) /\ CanStart(room)
    BY DispatchConnected DEF GameStart, HandleStartRace
<1>2. GoodRoom(room) /\ Tidy(room) /\ room \in Room
    BY <1>1 DEF LInv, IInv, RoomsGood, RoomsTidy, GoodRoom
<1>3. /\ new.members = room.members /\ new.max = room.max /\ new.tutorial = room.tutorial
      /\ new.players = room.players /\ new.state = "busy"
    BY <1>2 DEF Room
<1>4. room.state = "waiting"
    BY <1>1 DEF CanStart
<1>5. room.tutorial \/ (Len(room.members) >= 2 /\ Table(room).awaited = {})
    <2>1. AreAllPlayersReady(room) => Table(room).awaited = {}
        BY DEF AreAllPlayersReady, Table
    <2> QED BY <1>1, <2>1 DEF CanStart
<1> HIDE DEF new, room, r
<1>6. /\ r \in DOMAIN Tables /\ Tables[r] = Table(room)
      /\ Tables' = [Tables EXCEPT ![r] = Table(new)]
    BY <1>1, <1>3, OneTable DEF r, room
<1>7. Table(new).awaited = Table(room).awaited
    BY <1>3 DEF Table
<1>8. PICK t, u : t = Table(room) /\ u = Table(new)
    OBVIOUS
<1>9. /\ u.guests = t.guests /\ u.seats = t.seats /\ u.solo = t.solo /\ u.awaited = t.awaited
      /\ u.racing = TRUE
    BY <1>3, <1>7, <1>8, TableSeen
<1>10. t = [guests |-> t.guests, seats |-> t.seats, solo |-> t.solo, racing |-> t.racing,
            awaited |-> t.awaited]
    BY <1>8, TableSeen, SeenFields DEF Seen
<1>11. u = [guests |-> u.guests, seats |-> u.seats, solo |-> u.solo, racing |-> u.racing,
            awaited |-> u.awaited]
    BY <1>8, TableSeen, SeenFields DEF Seen
<1>12. u = [t EXCEPT !.racing = TRUE]
    BY <1>9, <1>10, <1>11
<1>13. Tables[r] = t /\ Tables' = [Tables EXCEPT ![r] = u]
    BY <1>6, <1>8
<1>14. Tables' = [Tables EXCEPT ![r].racing = TRUE]
    BY <1>6, <1>12, <1>13
<1>15. ~Tables[r].racing
    BY <1>4, <1>6, TableSeen
<1>16. Tables[r].solo \/ (Len(Tables[r].guests) >= 2 /\ Tables[r].awaited = {})
    BY <1>5, <1>6, TableSeen
<1> QED BY <1>6, <1>14, <1>15, <1>16 DEF TheLobby!Begin, r

LEMMA RaceEnds ==
    ASSUME LInv, NEW s \in Session, RaceFinish(s)
    PROVE  roomId[s] \in DOMAIN Tables /\ TheLobby!End(roomId[s])
<1> DEFINE r == roomId[s]
           room == rooms[r]
           new == [room EXCEPT !.state = "waiting"]
<1>1. /\ r \in DOMAIN rooms /\ rooms' = [rooms EXCEPT ![r] = new] /\ Connected(s)
      /\ room.state = "busy"
    BY DispatchConnected DEF RaceFinish, EndRace
<1>2. room \in Room
    BY <1>1 DEF LInv, IInv, RoomsGood, GoodRoom
<1>3. /\ new.members = room.members /\ new.max = room.max /\ new.tutorial = room.tutorial
      /\ new.players = room.players /\ new.state = "waiting"
    BY <1>2 DEF Room
<1> HIDE DEF new, room, r
<1>4. /\ r \in DOMAIN Tables /\ Tables[r] = Table(room)
      /\ Tables' = [Tables EXCEPT ![r] = Table(new)]
    BY <1>1, <1>3, OneTable DEF r, room
<1>5. Table(new).awaited = Table(room).awaited
    BY <1>3 DEF Table
<1>6. PICK t, u : t = Table(room) /\ u = Table(new)
    OBVIOUS
<1>7. /\ u.guests = t.guests /\ u.seats = t.seats /\ u.solo = t.solo /\ u.awaited = t.awaited
      /\ u.racing = FALSE
    BY <1>3, <1>5, <1>6, TableSeen
<1>8. t = [guests |-> t.guests, seats |-> t.seats, solo |-> t.solo, racing |-> t.racing,
           awaited |-> t.awaited]
    BY <1>6, TableSeen, SeenFields DEF Seen
<1>9. u = [guests |-> u.guests, seats |-> u.seats, solo |-> u.solo, racing |-> u.racing,
           awaited |-> u.awaited]
    BY <1>6, TableSeen, SeenFields DEF Seen
<1>10. u = [t EXCEPT !.racing = FALSE]
    BY <1>7, <1>8, <1>9
<1>11. Tables[r] = t /\ Tables' = [Tables EXCEPT ![r] = u]
    BY <1>4, <1>6
<1>12. Tables' = [Tables EXCEPT ![r].racing = FALSE]
    BY <1>4, <1>10, <1>11
<1>13. Tables[r].racing
    BY <1>1, <1>4, TableSeen
<1> QED BY <1>4, <1>12, <1>13 DEF TheLobby!End, r

------------------------------------------------------------------------------
LEMMA StepKeepsLobby ==
    ASSUME LobbyClients, LInv, NEW s \in Session, SessionStep(s)
    PROVE  TheLobby!Next \/ Tables' = Tables
<1>1. CASE Accept(s) \/ RefusedPacket(s)
    <2>1. rooms' = rooms
        BY <1>1 DEF Accept, RefusedPacket
    <2> QED BY <2>1 DEF Tables
<1>2. ASSUME NEW settings \in Settings, CreateRoom(s, settings) \/ ChatCreateRoom(s, settings)
      PROVE  TheLobby!Next
    <2> DEFINE full == [settings EXCEPT !.max = IF @ > 0 THEN @ ELSE NumSlots]
    <2>1. /\ settings \in [max: Nat, tutorial: BOOLEAN, private: BOOLEAN] /\ settings.max > 0
          /\ full \in [max: Nat, tutorial: BOOLEAN, private: BOOLEAN] /\ full.max > 0
        BY RoomsAssumption DEF LobbyClients
    <2>2. roomId[s] = 0 /\ Connected(s)
        BY <1>2, DispatchConnected DEF CreateRoom, ChatCreateRoom, MaySend, LobbyClients
    <2>3. OpenRoom(s, settings) \/ OpenRoom(s, full)
        BY <1>2 DEF CreateRoom, ChatCreateRoom
    <2> HIDE DEF full
    <2>4. nextRoomId \in DOMAIN Tables' /\ TheLobby!Enter(s, nextRoomId)
        BY <2>1, <2>2, <2>3, OpenRoomEnters
    <2> QED BY <2>4 DEF TheLobby!Next
<1>3. CASE \E r \in RoomIds, password \in BOOLEAN : JoinRoom(s, r, password)
    BY <1>3, JoinEnters DEF TheLobby!Next
<1>4. CASE LeaveRoom(s)
    BY <1>4, LeaveLeaves DEF TheLobby!Next
<1>5. CASE \E ready \in BOOLEAN : PlayerReady(s, ready)
    BY <1>5, ReadySays DEF TheLobby!Next
<1>6. CASE GameStart(s)
    BY <1>6, RaceBegins DEF TheLobby!Next
<1>7. CASE RaceFinish(s)
    BY <1>7, RaceEnds DEF TheLobby!Next
<1>8. CASE \E n \in 0..MaxLate : Disconnect(s, n)
    BY <1>8, DisconnectLeaves DEF TheLobby!Next
<1> QED BY <1>1, <1>2, <1>3, <1>4, <1>5, <1>6, <1>7, <1>8 DEF SessionStep

(* The server's two containers per room, its host and flags and its empty  *)
(* rooms make one line of people per room, from which everybody leaves the *)
(* places of the others as they are, and which awaits all but the first.   *)
THEOREM LobbyKept ==
    ASSUME LobbyClients
    PROVE  Spec => KeepsLobby
<1>1. Init => TheLobby!Init
    BY DEF Init, Tables, TheLobby!Init
<1>2. LInv /\ [Next]_vars => [TheLobby!Next]_Tables
    <2> SUFFICES ASSUME LInv, [Next]_vars PROVE TheLobby!Next \/ Tables' = Tables
        OBVIOUS
    <2>1. CASE UNCHANGED vars
        BY <2>1 DEF vars, Tables
    <2>2. CASE Next
        BY <2>2, StepKeepsLobby DEF Next
    <2> QED BY <2>1, <2>2
<1> QED BY <1>1, <1>2, LobbyInductive, PTL DEF Spec, KeepsLobby, TheLobby!Spec
=============================================================================
