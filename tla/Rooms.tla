------------------------------- MODULE Rooms -------------------------------
(***************************************************************************)
(* The rooms of the KnC game server: GameServer's room and session tables, *)
(* the Room objects, and the packet handlers that move a session between   *)
(* rooms (server/game/src/GameServer.cpp, shared/src/src/game/Room.cpp).   *)
(*                                                                         *)
(* The server runs one io_context on one thread, so a packet handler or a  *)
(* completion handler runs to its end before the next one starts: each is  *)
(* one action.  What interleaves is the order in which the sessions'       *)
(* packets and disconnections are dispatched.                              *)
(***************************************************************************)
EXTENDS Integers, Sequences, FiniteSets, Functions

CONSTANTS
    Session,    \* the TCP sessions the server accepts in a behaviour
    None,       \* m_hostSessionId = 0: no session
    NumSlots,   \* 8 in the code: bool slots[8], and the default room size
    Settings,   \* the room settings clients ask for in CREATE_ROOM
    Quirks,     \* what clients do beyond the lobby's menus, see MaySend
    MaxLate,    \* bound: packets still dispatched for a session after stop()
    MaxRooms    \* bound: rooms created in a behaviour

ASSUME RoomsAssumption ==
    /\ None \notin Session
    /\ NumSlots \in Nat \ {0}
    /\ Settings \subseteq [max: 0..255, tutorial: BOOLEAN, private: BOOLEAN]
    /\ Quirks \subseteq {"createInRoom", "joinInRoom"}
    /\ MaxLate \in Nat
    /\ MaxRooms \in Nat

VARIABLES
    status,      \* the session's m_connected flag, "new" before it is accepted
    late,        \* packets of a stopped session still to be dispatched
    roomId,      \* Session::roomId, 0 when the session is in no room
    rooms,       \* GameServer::m_rooms, from room id to room
    nextRoomId,  \* GameServer::m_nextRoomId
    roster       \* the room-mates a client has been told of (packets sent to it)

vars == <<status, late, roomId, rooms, nextRoomId, roster>>

(***************************************************************************)
(* Rooms.  "busy" stands for Starting, Loading, Racing and Results, which  *)
(* no handler of this module tells apart.  members is the m_sessions       *)
(* vector and players the m_players map; the code keeps both.              *)
(***************************************************************************)
RoomIds == 1..MaxRooms

Player == [slot: 0..(NumSlots - 1), ready: BOOLEAN, isHost: BOOLEAN]

Players == UNION {[S -> Player] : S \in SUBSET Session}

Room == [state: {"waiting", "busy"}, max: Nat, tutorial: BOOLEAN,
         private: BOOLEAN, host: Session \cup {None},
         members: Seq(Session), players: Players]

NewRoom(settings) ==
    [state |-> "waiting", max |-> settings.max, tutorial |-> settings.tutorial,
     private |-> settings.private, host |-> None,
     members |-> <<>>, players |-> [s \in {} |-> None]]

(* A name with a suffix, such as IsFull_OffByOne, is a slip in IsFull that  *)
(* the runs must notice; the specification does not use it.                *)
IsFull_OffByOne(room) == Len(room.members) > room.max

IsFull(room) == Len(room.members) >= room.max

IsEmpty_OffByOne(room) == Len(room.members) <= 1

IsEmpty(room) == room.members = <<>>

FindEmptySlot_Count(room) == Cardinality(DOMAIN room.players) % NumSlots

FindEmptySlot_PastEnd(room) ==
    CHOOSE i \in 0..NumSlots :
        /\ \A s \in DOMAIN room.players : room.players[s].slot # i
        /\ \A j \in 0..(i - 1) : \E s \in DOMAIN room.players : room.players[s].slot = j

FindEmptySlot(room) ==
    LET free == {i \in 0..(NumSlots - 1) :
                    \A s \in DOMAIN room.players : room.players[s].slot # i}
    IN  IF free = {} THEN 0
        ELSE CHOOSE i \in free : \A j \in free : i <= j

AreAllPlayersReady_Any(room) == \E s \in DOMAIN room.players : room.players[s].ready

AreAllPlayersReady(room) ==
    \A s \in DOMAIN room.players :
        room.players[s].isHost \/ room.players[s].ready

CanStart(room) ==
    /\ room.state = "waiting"
    /\ Len(room.members) >= 1
    /\ room.tutorial \/ (Len(room.members) >= 2 /\ AreAllPlayersReady(room))

AddPlayer(room, s) ==
    IF IsFull(room) THEN room
    ELSE LET first == IsEmpty(room)
         IN  [room EXCEPT
                !.members = Append(@, s),
                !.host    = IF first THEN s ELSE @,
                !.players = [t \in DOMAIN room.players \cup {s} |->
                               IF t = s
                               THEN [slot   |-> FindEmptySlot(room),
                                     ready  |-> FALSE,
                                     isHost |-> first]
                               ELSE room.players[t]]]

(***************************************************************************)
(* erase(remove_if(...)): q without its elements equal to s, in order.     *)
(* Stated by the rank of the kept positions, so that it can be reasoned    *)
(* about without recursion.                                                *)
(***************************************************************************)
Kept(q, s) == {i \in 1..Len(q) : q[i] # s}

Rank(K, i) == Cardinality({j \in K : j <= i})

Without_FirstOnly(q, s) ==
    IF s \in Range(q)
    THEN LET i == CHOOSE j \in 1..Len(q) : q[j] = s /\ \A k \in 1..(j - 1) : q[k] # s
         IN  SubSeq(q, 1, i - 1) \o SubSeq(q, i + 1, Len(q))
    ELSE q

Without(q, s) ==
    [k \in 1..Cardinality(Kept(q, s)) |->
        q[CHOOSE i \in Kept(q, s) : Rank(Kept(q, s), i) = k]]

(* removePlayer: the players map without s, the first of the remaining     *)
(* vector promoted when s was the host.                                    *)
Staying_All(room, s) == DOMAIN room.players

Staying(room, s) == DOMAIN room.players \ {s}

Heir_Newest(left) == left[Len(left)]

Heir(left) == left[1]

Promote_Unflagged(player) == player

Promote(player) == [player EXCEPT !.isHost = TRUE]

RemovePlayer(room, s) ==
    LET left    == Without(room.members, s)
        handOn  == room.host = s /\ left # <<>>
    IN  [room EXCEPT
            !.members = left,
            !.host    = IF handOn THEN Heir(left) ELSE @,
            !.players = [t \in Staying(room, s) |->
                           IF handOn /\ t = Heir(left)
                           THEN Promote(room.players[t]) ELSE room.players[t]]]

SetReady(room, s, ready) ==
    [room EXCEPT !.players = [t \in DOMAIN room.players |->
        [room.players[t] EXCEPT !.ready = IF t = s THEN ready ELSE @]]]

(***************************************************************************)
(* Helper state predicates.                                                *)
(***************************************************************************)
Connected(s) == status[s] = "connected"

Present(r) == Range(rooms[r].members)

RoomsOf(s) == {r \in DOMAIN rooms : s \in Present(r)}

(***************************************************************************)
(* A packet of s reaches handlePacket when s is connected, and also after  *)
(* stop(): the loop of Session::processBuffer does not look at m_connected,*)
(* nor does a read that had completed when a failed write stopped s.       *)
(***************************************************************************)
Dispatch(s) ==
    /\ Connected(s) \/ late[s] > 0
    /\ late' = IF Connected(s) THEN late ELSE [late EXCEPT ![s] = @ - 1]

(* Clients driven by the game's own lobby create or join a room only from  *)
(* outside one.  The server does not require it; Quirks lists which of the *)
(* two a client of the run also does from inside a room.                   *)
MaySend(s, quirk) == roomId[s] = 0 \/ quirk \in Quirks

(* Session::send drops what is sent to a session that is not connected.    *)
Told(t, news) == IF Connected(t) THEN news ELSE roster[t]

------------------------------------------------------------------------------
Init ==
    /\ status = [s \in Session |-> "new"]
    /\ late = [s \in Session |-> 0]
    /\ roomId = [s \in Session |-> 0]
    /\ rooms = [r \in {} |-> None]
    /\ nextRoomId = 1
    /\ roster = [s \in Session |-> {}]

(* startAccept: the session enters m_sessions and starts to read.          *)
Accept(s) ==
    /\ status[s] = "new"
    /\ status' = [status EXCEPT ![s] = "connected"]
    /\ UNCHANGED <<late, roomId, rooms, nextRoomId, roster>>

(* createRoom and what both creating handlers do with the new room.  The   *)
(* result of addPlayer is ignored: a room of size 0 stays empty.           *)
OpenRoom(s, settings) ==
    /\ nextRoomId <= MaxRooms
    /\ nextRoomId' = nextRoomId + 1
    /\ rooms' = [r \in DOMAIN rooms \cup {nextRoomId} |->
                    IF r = nextRoomId
                    THEN AddPlayer(NewRoom(settings), s)
                    ELSE rooms[r]]
    /\ roomId' = [roomId EXCEPT ![s] = nextRoomId]
    /\ roster' = [roster EXCEPT ![s] = Told(s, {})]
    /\ UNCHANGED status

(* 0x63: nothing checks that the session is in no room already.            *)
CreateRoom(s, settings) ==
    /\ MaySend(s, "createInRoom")
    /\ Dispatch(s)
    /\ OpenRoom(s, settings)

(* 0x2D with a long payload from a session in no room; size 0 means 8.     *)
ChatCreateRoom(s, settings) ==
    /\ roomId[s] = 0
    /\ Dispatch(s)
    /\ OpenRoom(s, [settings EXCEPT !.max = IF @ > 0 THEN @ ELSE NumSlots])

(* The rooms once s is taken out of the one its roomId names, if it exists. *)
MovedOut_Stays(s) == rooms

MovedOut(s) ==
    [q \in DOMAIN rooms |->
        IF q = roomId[s] THEN RemovePlayer(rooms[q], s) ELSE rooms[q]]

Admits_Racing(room, password) == ~IsFull(room) /\ (room.private => password)

Admits(room, password) ==
    room.state = "waiting" /\ ~IsFull(room) /\ (room.private => password)

(* handleJoinRoom, past its four refusals.  Leaving the old room tells     *)
(* nobody and does not delete the old room when it is left empty.          *)
JoinRoom(s, r, password) ==
    /\ MaySend(s, "joinInRoom")
    /\ Dispatch(s)
    /\ r \in DOMAIN rooms
    /\ Admits(rooms[r], password)
    /\ LET joined == AddPlayer(MovedOut(s)[r], s)
       IN  /\ rooms' = [MovedOut(s) EXCEPT ![r] = joined]
           /\ roster' = [t \in Session |->
                CASE t = s -> Told(s, DOMAIN joined.players \ {s})
                  [] t # s /\ t \in Range(joined.members) ->
                        Told(t, roster[t] \cup {s})
                  [] OTHER -> roster[t]]
    /\ roomId' = [roomId EXCEPT ![s] = r]
    /\ UNCHANGED <<status, nextRoomId>>

(* What those who remain in the room q are told (0x22) when s leaves it.   *)
Farewell_Silent(q, s) == roster

Farewell(q, s) ==
    [t \in Session |-> IF t \in Range(q.members)
                       THEN Told(t, roster[t] \ {s}) ELSE roster[t]]

(* handleLeaveRoom: the emptied room is removed, the host handed on.       *)
LeaveRoom(s) ==
    /\ Dispatch(s)
    /\ IF roomId[s] \in DOMAIN rooms
       THEN LET left == RemovePlayer(rooms[roomId[s]], s)
            IN  /\ rooms' = IF IsEmpty(left)
                            THEN Restrict(rooms, DOMAIN rooms \ {roomId[s]})
                            ELSE [rooms EXCEPT ![roomId[s]] = left]
                /\ roster' = [Farewell(left, s) EXCEPT ![s] = Told(s, {})]
       ELSE /\ roster' = [roster EXCEPT ![s] = Told(s, {})]
            /\ UNCHANGED rooms
    /\ roomId' = [roomId EXCEPT ![s] = 0]
    /\ UNCHANGED <<status, nextRoomId>>

(* handlePlayerReady.                                                      *)
PlayerReady(s, ready) ==
    /\ Dispatch(s)
    /\ roomId[s] \in DOMAIN rooms
    /\ rooms' = [rooms EXCEPT ![roomId[s]] = SetReady(@, s, ready)]
    /\ UNCHANGED <<status, roomId, nextRoomId, roster>>

(* RaceHandler::handleStartRace, which takes the room out of Waiting, and  *)
(* RaceHandler::handleFinish / endRace, which bring it back: not in the    *)
(* repository, only their declarations and their callers are.              *)
HandleStartRace(r) == rooms' = [rooms EXCEPT ![r].state = "busy"]

EndRace(r) == rooms' = [rooms EXCEPT ![r].state = "waiting"]

(* handleGameStart: only the host, and only when the room can start.       *)
GameStart(s) ==
    /\ Dispatch(s)
    /\ roomId[s] \in DOMAIN rooms
    /\ rooms[roomId[s]].host = s
    /\ CanStart(rooms[roomId[s]])
    /\ HandleStartRace(roomId[s])
    /\ UNCHANGED <<status, roomId, nextRoomId, roster>>

(* handleRaceFinish: any session whose room exists reaches the handler.    *)
RaceFinish(s) ==
    /\ Dispatch(s)
    /\ roomId[s] \in DOMAIN rooms
    /\ rooms[roomId[s]].state = "busy"
    /\ EndRace(roomId[s])
    /\ UNCHANGED <<status, roomId, nextRoomId, roster>>

(* A packet of a stopped session that its handler refuses or ignores.      *)
RefusedPacket(s) ==
    /\ ~Connected(s)
    /\ Dispatch(s)
    /\ UNCHANGED <<status, roomId, rooms, nextRoomId, roster>>

(* onDisconnect's pass over m_rooms: every empty room goes.                *)
Swept_None(table) == table

Swept(table) == Restrict(table, {q \in DOMAIN table : ~IsEmpty(table[q])})

(* stop() and, in it, onDisconnect: C_DISCONNECT, a read or write error, a *)
(* malformed packet.  n packets are still buffered.  Session::roomId keeps *)
(* its value.  The roster of a client that is gone is forgotten.           *)
Disconnect(s, n) ==
    /\ Connected(s)
    /\ rooms' = Swept(MovedOut(s))
    /\ roster' = IF roomId[s] \in DOMAIN rooms
                 THEN [Farewell(MovedOut(s)[roomId[s]], s) EXCEPT ![s] = {}]
                 ELSE [roster EXCEPT ![s] = {}]
    /\ status' = [status EXCEPT ![s] = "stopped"]
    /\ late' = [late EXCEPT ![s] = n]
    /\ UNCHANGED <<roomId, nextRoomId>>

SessionStep(s) ==
    \/ Accept(s)
    \/ \E settings \in Settings : CreateRoom(s, settings)
    \/ \E settings \in Settings : ChatCreateRoom(s, settings)
    \/ \E r \in RoomIds, password \in BOOLEAN : JoinRoom(s, r, password)
    \/ LeaveRoom(s)
    \/ \E ready \in BOOLEAN : PlayerReady(s, ready)
    \/ GameStart(s)
    \/ RaceFinish(s)
    \/ RefusedPacket(s)
    \/ \E n \in 0..MaxLate : Disconnect(s, n)

Next == \E s \in Session : SessionStep(s)

Spec == Init /\ [][Next]_vars

------------------------------------------------------------------------------
(***************************************************************************)
(* What holds whatever the clients send.                                   *)
(***************************************************************************)
(* The shape of the tables; rooms exist only under ids already handed out, *)
(* so createRoom never overwrites a room.                                  *)
TypeOK ==
    /\ status \in [Session -> {"new", "connected", "stopped"}]
    /\ late \in [Session -> Nat]
    /\ roomId \in [Session -> Nat]
    /\ nextRoomId \in Nat \ {0}
    /\ DOMAIN rooms \subseteq 1..(nextRoomId - 1)
    /\ rooms \in [DOMAIN rooms -> Room]
    /\ roster \in [Session -> SUBSET Session]

(* m_sessions and m_players never disagree on who is in the room: the      *)
(* vector may hold a session twice, and removePlayer must erase it all.    *)
SeatsAgree == \A r \in DOMAIN rooms : Present(r) = DOMAIN rooms[r].players

(* No sequence of joins and departures takes a room over its maxPlayers.   *)
WithinCapacity == \A r \in DOMAIN rooms : Len(rooms[r].members) <= rooms[r].max

(* The host of a room with people in it is the first of m_sessions, the    *)
(* one who has been there longest: hosting is never lost to a departed     *)
(* session, nor taken by a newcomer.                                       *)
HostIsSenior ==
    \A r \in DOMAIN rooms :
        ~IsEmpty(rooms[r]) => rooms[r].host = rooms[r].members[1]

(* Nobody but the host carries the isHost flag that exempts from "ready".  *)
FlagOnlyOnHost ==
    \A r \in DOMAIN rooms : \A s \in DOMAIN rooms[r].players :
        rooms[r].players[s].isHost => rooms[r].host = s

(* In a room of at most NumSlots players no two of them share a slot.      *)
SlotsDistinct ==
    \A r \in DOMAIN rooms : rooms[r].max <= NumSlots =>
        \A s, t \in DOMAIN rooms[r].players :
            s # t => rooms[r].players[s].slot # rooms[r].players[t].slot

(* The membership of at most one session changes in a step: no departure,  *)
(* host transfer or cleanup of empty rooms throws somebody else out.       *)
NobodyEvicted ==
    [][\A s, t \in Session : RoomsOf(s)' # RoomsOf(s) /\ RoomsOf(t)' # RoomsOf(t)
                                => s = t]_vars

(* Nobody enters a room while its race runs, by whatever path.             *)
ClosedDuringRace ==
    [][\A r \in DOMAIN rooms \cap DOMAIN rooms' :
          rooms[r].state = "busy" => Present(r)' \subseteq Present(r)]_vars

(***************************************************************************)
(* What holds for clients that keep to the lobby's menus (fewer Quirks)    *)
(* and sessions with nothing buffered when they stop (MaxLate = 0).        *)
(***************************************************************************)
(* A session is in the room its roomId names and in no other, and a        *)
(* disconnected session is in none.                                        *)
OneRoomEach ==
    \A s \in Session :
        RoomsOf(s) = IF Connected(s) /\ roomId[s] # 0 THEN {roomId[s]} ELSE {}

(* A disconnected session is in no room.                                   *)
GoneFromRooms == \A s \in Session : status[s] = "stopped" => RoomsOf(s) = {}

(* When nobody is connected no room is left.                               *)
NoRoomOutlivesPlayers == (\A s \in Session : ~Connected(s)) => DOMAIN rooms = {}

(* The host of a room is exempt from "ready" in areAllPlayersReady.        *)
HostExempt ==
    \A r \in DOMAIN rooms :
        ~IsEmpty(rooms[r]) => rooms[r].players[rooms[r].host].isHost

(* A race other than the tutorial starts with two different players, all   *)
(* but the host ready.                                                     *)
FairStart ==
    [][\A r \in DOMAIN rooms \cap DOMAIN rooms' :
         rooms[r].state = "waiting" /\ rooms'[r].state = "busy" /\ ~rooms[r].tutorial
           => /\ Cardinality(Present(r)) >= 2
              /\ \A s \in Present(r) \ {rooms[r].host} : rooms[r].players[s].ready]_vars

(***************************************************************************)
(* The rooms as the players know them: who is in which, since when, ready  *)
(* or not; of the slots, the flags, the host and the rooms that stay       *)
(* behind empty they see nothing.                                          *)
(***************************************************************************)
Table(room) ==
    [guests |-> room.members, seats |-> room.max, solo |-> room.tutorial,
     racing |-> room.state = "busy",
     awaited |-> {s \in DOMAIN room.players :
                    ~room.players[s].isHost /\ ~room.players[s].ready}]

Tables == [r \in {q \in DOMAIN rooms : ~IsEmpty(rooms[q])} |-> Table(rooms[r])]

TheLobby == INSTANCE Lobby WITH Guest <- Session, tables <- Tables

(* Two containers of players, the host and a flag on one of them, empty    *)
(* rooms that stay for a while: to the players it is one line of people    *)
(* per room, in which everybody has one place and keeps it.                *)
KeepsLobby == TheLobby!Spec
=============================================================================
