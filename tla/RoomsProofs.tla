---------------------------- MODULE RoomsProofs ----------------------------
(***************************************************************************)
(* What every behaviour of Rooms satisfies, for any set of sessions, any   *)
(* clients and any bounds.  All of it follows from one fact about a single *)
(* room, GoodRoom, that creating a room establishes and that AddPlayer,    *)
(* RemovePlayer, SetReady and the race handler preserve.                   *)
(***************************************************************************)
EXTENDS Rooms, FiniteSetTheorems, TLAPS

GoodRoom(room) ==
    /\ room \in Room
    /\ Range(room.members) = DOMAIN room.players
    /\ Len(room.members) <= room.max
    /\ ~IsEmpty(room) => room.host = room.members[1]
    /\ \A s \in DOMAIN room.players : room.players[s].isHost => room.host = s
    /\ room.max <= NumSlots =>
          \A s, t \in DOMAIN room.players :
             s # t => room.players[s].slot # room.players[t].slot

------------------------------------------------------------------------------
(* The kept positions of a sequence are finitely many, at most its length. *)
LEMMA KeptFinite ==
    ASSUME NEW S, NEW q \in Seq(S), NEW s
    PROVE  /\ Kept(q, s) \in SUBSET (1..Len(q))
           /\ IsFiniteSet(Kept(q, s))
           /\ Cardinality(Kept(q, s)) \in Nat
           /\ Cardinality(Kept(q, s)) <= Len(q)
<1>1. Len(q) \in Nat
    OBVIOUS
<1>2. IsFiniteSet(1..Len(q)) /\ Cardinality(1..Len(q)) = Len(q)
    BY <1>1, FS_Interval
<1>3. Kept(q, s) \in SUBSET (1..Len(q))
    BY DEF Kept
<1> QED BY <1>2, <1>3, FS_Subset, FS_CardinalityType

(* Rank numbers the elements of a finite set of naturals 1, 2, 3, ...: it  *)
(* grows strictly, so it is one-to-one, so it is onto.                     *)
LEMMA RankOnto ==
    ASSUME NEW K \in SUBSET Nat, IsFiniteSet(K)
    PROVE  /\ \A i \in K : Rank(K, i) \in 1..Cardinality(K)
           /\ \A i, j \in K : i < j => Rank(K, i) < Rank(K, j)
           /\ \A k \in 1..Cardinality(K) : \E i \in K : Rank(K, i) = k
<1> DEFINE Below(i) == {j \in K : j <= i}
<1>1. \A i \in K : /\ IsFiniteSet(Below(i))
                   /\ Cardinality(Below(i)) \in Nat
                   /\ Cardinality(Below(i)) <= Cardinality(K)
    BY FS_Subset, FS_CardinalityType
<1>2. ASSUME NEW i \in K PROVE Cardinality(Below(i)) \in 1..Cardinality(K)
    <2>1. Below(i) # {}
        OBVIOUS
    <2>2. Cardinality(Below(i)) # 0
        BY <1>1, <2>1, FS_EmptySet
    <2>3. Cardinality(K) \in Nat
        BY FS_CardinalityType
    <2> QED BY <1>1, <2>2, <2>3
<1>3. ASSUME NEW i \in K, NEW j \in K, i < j
      PROVE  Cardinality(Below(i)) < Cardinality(Below(j))
    <2>1. Below(i) \in SUBSET Below(j) /\ j \in Below(j) /\ j \notin Below(i)
        <3>1. \A x \in Below(i) : x \in Below(j)
            BY <1>3
        <3>2. j \in Below(j) /\ j \notin Below(i)
            BY <1>3
        <3> QED BY <3>1, <3>2
    <2>2. \A A, B : IsFiniteSet(B) /\ A \in SUBSET B =>
             /\ Cardinality(A) <= Cardinality(B)
             /\ Cardinality(B) = Cardinality(A) => A = B
        BY FS_Subset
    <2>3. /\ Cardinality(Below(i)) <= Cardinality(Below(j))
          /\ Cardinality(Below(j)) = Cardinality(Below(i)) => Below(i) = Below(j)
        BY <1>1, <2>1, <2>2
    <2>4. Cardinality(Below(i)) # Cardinality(Below(j))
        BY <2>1, <2>3
    <2> QED BY <1>1, <2>3, <2>4
<1> DEFINE f == [i \in K |-> Cardinality(Below(i))]
<1>4. f \in [K -> 1..Cardinality(K)]
    BY <1>2
<1>5. ASSUME NEW i \in K, NEW j \in K, f[i] = f[j] PROVE i = j
    <2>1. ~(i < j) /\ ~(j < i)
        BY <1>1, <1>3, <1>5
    <2> QED BY <2>1
<1>6. f \in Injection(K, 1..Cardinality(K))
    BY <1>4, <1>5 DEF Injection, IsInjective
<1>7. Cardinality(K) \in Nat
    BY FS_CardinalityType
<1>8. IsFiniteSet(1..Cardinality(K)) /\ Cardinality(1..Cardinality(K)) = Cardinality(K)
    BY <1>7, FS_Interval
<1>9. f \in Surjection(K, 1..Cardinality(K))
    BY <1>6, <1>8, FS_Injection
<1>10. \A k \in 1..Cardinality(K) : \E i \in K : f[i] = k
    BY <1>9 DEF Surjection
<1>11. \A i \in K : Rank(K, i) = Cardinality(Below(i))
    BY DEF Rank
<1> QED BY <1>2, <1>3, <1>10, <1>11

(* A finite non-empty set of naturals has a least element: the one ranked  *)
(* first.                                                                  *)
LEMMA LeastElement ==
    ASSUME NEW T \in SUBSET Nat, IsFiniteSet(T), T # {}
    PROVE  \E i \in T : \A j \in T : i <= j
<1>1. Cardinality(T) \in Nat /\ Cardinality(T) # 0
    BY FS_CardinalityType, FS_EmptySet
<1>2. PICK i \in T : Rank(T, i) = 1
    BY <1>1, RankOnto
<1>3. ASSUME NEW j \in T PROVE i <= j
    <2>1. ~(Rank(T, j) < Rank(T, i)) 
        BY <1>1, <1>2, RankOnto
    <2> QED BY <2>1, RankOnto
<1> QED BY <1>3

(* What removePlayer's erase leaves of m_sessions: everybody but s, in a   *)
(* vector no longer than before, with the same front if that was not s.    *)
LEMMA WithoutSpec ==
    ASSUME NEW S, NEW q \in Seq(S), NEW s
    PROVE  /\ Without(q, s) \in Seq(S)
           /\ Len(Without(q, s)) <= Len(q)
           /\ Range(Without(q, s)) = Range(q) \ {s}
           /\ q # <<>> /\ q[1] # s =>
                 Without(q, s) # <<>> /\ Without(q, s)[1] = q[1]
<1> DEFINE K == Kept(q, s)
           n == Cardinality(K)
           pos(k) == CHOOSE i \in K : Rank(K, i) = k
           w == Without(q, s)
<1>1. /\ K \in SUBSET (1..Len(q)) /\ K \in SUBSET Nat
      /\ IsFiniteSet(K) /\ n \in Nat /\ n <= Len(q)
    BY KeptFinite
<1>2. /\ \A i \in K : Rank(K, i) \in 1..n
      /\ \A i, j \in K : i < j => Rank(K, i) < Rank(K, j)
      /\ \A k \in 1..n : \E i \in K : Rank(K, i) = k
    BY <1>1, RankOnto
<1>3. \A k \in 1..n : pos(k) \in K /\ Rank(K, pos(k)) = k
    BY <1>2
<1>4. w = [k \in 1..n |-> q[pos(k)]]
    BY DEF Without
<1> HIDE DEF pos, w, n
<1>5. \A i \in K : i \in 1..Len(q) /\ q[i] # s /\ q[i] \in S
    BY <1>1 DEF Kept
<1>6. w \in Seq(S) /\ Len(w) = n
    BY <1>1, <1>3, <1>4, <1>5
<1>7. ASSUME NEW i \in K
      PROVE  pos(Rank(K, i)) = i /\ w[Rank(K, i)] = q[i]
    <2>1. /\ Rank(K, i) \in 1..n
          /\ pos(Rank(K, i)) \in K
          /\ Rank(K, pos(Rank(K, i))) = Rank(K, i)
        BY <1>2, <1>3
    <2>2. ~(i < pos(Rank(K, i))) /\ ~(pos(Rank(K, i)) < i)
        BY <1>1, <1>2, <2>1
    <2>3. pos(Rank(K, i)) = i
        BY <1>1, <2>1, <2>2
    <2> QED BY <1>4, <2>1, <2>3
<1>8. Range(w) = Range(q) \ {s}
    <2>1. ASSUME NEW x \in Range(w) PROVE x \in Range(q) \ {s}
        <3>1. PICK k \in 1..n : x = q[pos(k)]
            BY <1>4 DEF Range
        <3> QED BY <1>3, <1>5, <3>1 DEF Range
    <2>2. ASSUME NEW x \in Range(q) \ {s} PROVE x \in Range(w)
        <3>1. PICK i \in 1..Len(q) : x = q[i]
            BY DEF Range
        <3>2. i \in K
            BY <3>1 DEF Kept
        <3> QED BY <1>2, <1>4, <1>7, <3>1, <3>2 DEF Range
    <2> QED BY <2>1, <2>2
<1>9. ASSUME q # <<>>, q[1] # s PROVE w # <<>> /\ w[1] = q[1]
    <2>1. 1 \in K
        BY <1>9 DEF Kept
    <2>2. \A i \in K : i = 1 \/ 1 < i
        BY <1>5
    <2>3. Rank(K, 1) \in 1..n /\ \A i \in K : Rank(K, 1) <= Rank(K, i)
        BY <1>1, <1>2, <2>1, <2>2
    <2>4. PICK i \in K : Rank(K, i) = 1
        BY <1>1, <1>2, <2>3
    <2>5. Rank(K, 1) = 1
        BY <1>1, <2>3, <2>4
    <2>6. w[1] = q[1]
        BY <1>7, <2>1, <2>5
    <2>7. Len(w) # 0
        BY <1>1, <1>6, <2>3
    <2> QED BY <2>6, <2>7
<1> QED BY <1>1, <1>6, <1>8, <1>9 DEF w

------------------------------------------------------------------------------
(* A player map is a function from a set of sessions to players.           *)
LEMMA PlayersDef ==
    \A f : f \in Players <=> /\ DOMAIN f \in SUBSET Session
                             /\ f \in [DOMAIN f -> Player]
BY DEF Players

(* findEmptySlot returns a slot below NumSlots, and one that nobody holds  *)
(* when there are fewer people in the room than slots.                     *)
LEMMA EmptySlot ==
    ASSUME NEW room, GoodRoom(room)
    PROVE  /\ FindEmptySlot(room) \in 0..(NumSlots - 1)
           /\ Len(room.members) < NumSlots =>
                \A s \in DOMAIN room.players :
                    room.players[s].slot # FindEmptySlot(room)
<1> DEFINE D == DOMAIN room.players
           free == {i \in 0..(NumSlots - 1) :
                      \A s \in D : room.players[s].slot # i}
<1>1. NumSlots \in Nat \ {0}
    BY RoomsAssumption
<1>2. /\ room.members \in Seq(Session)
      /\ Range(room.members) = D
      /\ room.players \in [D -> Player]
    BY PlayersDef DEF GoodRoom, Room
<1>3. IsFiniteSet(0..(NumSlots - 1)) /\ Cardinality(0..(NumSlots - 1)) = NumSlots
    BY <1>1, FS_Interval
<1>4. IsFiniteSet(free) /\ free \in SUBSET Nat
    <2>1. free \in SUBSET (0..(NumSlots - 1))
        OBVIOUS
    <2>2. 0..(NumSlots - 1) \in SUBSET Nat
        BY <1>1
    <2> QED BY <1>3, <2>1, <2>2, FS_Subset
<1>5. ASSUME free # {} PROVE FindEmptySlot(room) \in free
    <2>1. \E i \in free : \A j \in free : i <= j
        BY <1>4, <1>5, LeastElement
    <2> QED BY <1>5, <2>1 DEF FindEmptySlot
<1>6. ASSUME Len(room.members) < NumSlots PROVE free # {}
    <2> DEFINE g == [s \in D |-> room.players[s].slot]
    <2>1. SUFFICES ASSUME free = {} PROVE FALSE
        OBVIOUS
    <2>2. g \in [D -> 0..(NumSlots - 1)]
        BY <1>2 DEF Player
    <2>3. \A i \in 0..(NumSlots - 1) : \E s \in D : g[s] = i
        BY <2>1
    <2>4. g \in Surjection(D, 0..(NumSlots - 1))
        BY <2>2, <2>3 DEF Surjection
    <2>5. room.members \in Surjection(1..Len(room.members), D)
        BY <1>2 DEF Surjection, Range
    <2>6. Len(room.members) \in Nat
        BY <1>2
    <2>7. /\ IsFiniteSet(1..Len(room.members))
          /\ Cardinality(1..Len(room.members)) = Len(room.members)
        BY <2>6, FS_Interval
    <2>8. IsFiniteSet(D) /\ Cardinality(D) <= Len(room.members)
        BY <2>5, <2>7, FS_Surjection
    <2>9. NumSlots <= Cardinality(D)
        BY <1>3, <2>4, <2>8, FS_Surjection
    <2>10. Cardinality(D) \in Nat
        BY <2>8, FS_CardinalityType
    <2> QED BY <1>1, <1>6, <2>6, <2>8, <2>9, <2>10
<1>7. ASSUME free = {} PROVE FindEmptySlot(room) = 0
    BY <1>7 DEF FindEmptySlot
<1>8. FindEmptySlot(room) \in 0..(NumSlots - 1)
    BY <1>1, <1>5, <1>7
<1> HIDE DEF free
<1>9. ASSUME Len(room.members) < NumSlots, NEW s \in D
      PROVE  room.players[s].slot # FindEmptySlot(room)
    <2>1. FindEmptySlot(room) \in free
        BY <1>5, <1>6, <1>9
    <2> QED BY <2>1 DEF free
<1> QED BY <1>8, <1>9

(* createRoom's new room. *)
LEMMA NewRoomGood ==
    ASSUME NEW settings \in [max: Nat, tutorial: BOOLEAN, private: BOOLEAN]
    PROVE  GoodRoom(NewRoom(settings)) /\ IsEmpty(NewRoom(settings))
<1> DEFINE room == NewRoom(settings)
<1>1. /\ room.members = <<>> /\ room.players = [s \in {} |-> None]
      /\ room.max = settings.max
    BY DEF NewRoom
<1>2. room.players \in Players
    BY <1>1, PlayersDef
<1>3. room \in Room
    BY <1>2 DEF NewRoom, Room
<1>4. Range(room.members) = {} /\ DOMAIN room.players = {}
    BY <1>1 DEF Range
<1> QED BY <1>1, <1>3, <1>4 DEF GoodRoom, IsEmpty

(* push_back adds one element to those of the vector. *)
LEMMA RangeAppend ==
    ASSUME NEW S, NEW q \in Seq(S), NEW s \in S
    PROVE  Range(Append(q, s)) = Range(q) \cup {s}
<1> DEFINE w == Append(q, s)
<1>1. /\ Len(q) \in Nat /\ w \in Seq(S) /\ Len(w) = Len(q) + 1
      /\ w[Len(q) + 1] = s /\ \A i \in 1..Len(q) : w[i] = q[i]
    OBVIOUS
<1> HIDE DEF w
<1>2. DOMAIN w = 1..(Len(q) + 1) /\ DOMAIN q = 1..Len(q)
    BY <1>1
<1>3. \A i \in DOMAIN w : w[i] \in Range(q) \cup {s}
    BY <1>1, <1>2 DEF Range
<1>4. \A i \in DOMAIN q : q[i] \in Range(w)
    BY <1>1, <1>2 DEF Range
<1>5. s \in Range(w)
    BY <1>1, <1>2 DEF Range
<1>6. Range(w) = Range(q) \cup {s}
    BY <1>3, <1>4, <1>5 DEF Range
<1> QED BY <1>6 DEF w

(* Room::addPlayer, also when the session is in the room's tables already. *)
LEMMA AddPlayerGood ==
    ASSUME NEW room, GoodRoom(room), NEW s \in Session
    PROVE  GoodRoom(AddPlayer(room, s))
<1> DEFINE new == AddPlayer(room, s)
           seat == [slot   |-> FindEmptySlot(room),
                    ready  |-> FALSE,
                    isHost |-> IsEmpty(room)]
<1>0. CASE IsFull(room)
    BY <1>0 DEF AddPlayer
<1>1. CASE ~IsFull(room)
    <2>1. /\ room \in Room
          /\ room.members \in Seq(Session) /\ room.max \in Nat
          /\ room.players \in [DOMAIN room.players -> Player]
          /\ DOMAIN room.players \in SUBSET Session
          /\ Range(room.members) = DOMAIN room.players
        BY PlayersDef DEF GoodRoom, Room
    <2>2. Len(room.members) < room.max
        BY <1>1, <2>1 DEF IsFull
    <2>3. /\ new.members = Append(room.members, s)
          /\ new.host = IF IsEmpty(room) THEN s ELSE room.host
          /\ new.players = [t \in DOMAIN room.players \cup {s} |->
                              IF t = s THEN seat ELSE room.players[t]]
          /\ new.max = room.max /\ new.state = room.state
          /\ new.tutorial = room.tutorial /\ new.private = room.private
        BY <1>1, <2>1 DEF AddPlayer, Room
    <2>4. FindEmptySlot(room) \in 0..(NumSlots - 1)
        BY EmptySlot
    <2>5. seat \in Player
        BY <2>4 DEF Player, IsEmpty
    <2>6. new.players \in Players
        BY <2>1, <2>3, <2>5, PlayersDef
    <2>7. new \in Room
        <3>1. new.members \in Seq(Session) /\ new.host \in Session \cup {None}
            BY <2>1, <2>3 DEF Room
        <3> QED BY <1>1, <2>1, <2>6, <3>1 DEF AddPlayer, Room
    <2>8. /\ Range(new.members) = DOMAIN new.players
          /\ DOMAIN new.players = DOMAIN room.players \cup {s}
        <3>1. Range(Append(room.members, s)) = Range(room.members) \cup {s}
            BY <2>1, RangeAppend
        <3> QED BY <2>1, <2>3, <3>1
    <2>9. Len(new.members) <= new.max
        BY <2>1, <2>2, <2>3
    <2>10. new.host = new.members[1]
        <3>1. CASE IsEmpty(room)
            BY <2>1, <2>3, <3>1 DEF IsEmpty
        <3>2. CASE ~IsEmpty(room)
            BY <2>1, <2>3, <3>2 DEF IsEmpty, GoodRoom
        <3> QED BY <3>1, <3>2
    <2>11. ASSUME NEW t \in DOMAIN new.players, new.players[t].isHost
           PROVE  new.host = t
        <3>1. CASE t = s
            BY <2>3, <2>11, <3>1
        <3>2. CASE t # s
            <4>1. t \in DOMAIN room.players /\ room.players[t].isHost
                BY <2>3, <2>11, <3>2
            <4>2. ~IsEmpty(room)
                BY <2>1, <4>1 DEF IsEmpty, Range
            <4> QED BY <2>3, <4>1, <4>2 DEF GoodRoom
        <3> QED BY <3>1, <3>2
    <2>12. ASSUME new.max <= NumSlots,
                  NEW t \in DOMAIN new.players, NEW u \in DOMAIN new.players,
                  t # u
           PROVE  new.players[t].slot # new.players[u].slot
        <3>1. Len(room.members) < NumSlots /\ room.max <= NumSlots
            BY <2>1, <2>2, <2>3, <2>12, RoomsAssumption
        <3>2. \A v \in DOMAIN room.players :
                  room.players[v].slot # FindEmptySlot(room)
            BY <3>1, EmptySlot
        <3>3. \A v, w \in DOMAIN room.players :
                  v # w => room.players[v].slot # room.players[w].slot
            BY <3>1 DEF GoodRoom
        <3> QED BY <2>3, <2>12, <3>2, <3>3
    <2> QED BY <2>7, <2>8, <2>9, <2>10, <2>11, <2>12 DEF GoodRoom
<1> QED BY <1>0, <1>1

(* Room::removePlayer, also when the session is not in the room.           *)
LEMMA RemovePlayerGood ==
    ASSUME NEW room, GoodRoom(room), NEW s \in Session
    PROVE  /\ GoodRoom(RemovePlayer(room, s))
           /\ Range(RemovePlayer(room, s).members) = Range(room.members) \ {s}
<1> DEFINE new == RemovePlayer(room, s)
           left == Without(room.members, s)
           handOn == room.host = s /\ left # <<>>
<1>1. /\ room \in Room
      /\ room.members \in Seq(Session) /\ room.max \in Nat
      /\ room.host \in Session \cup {None}
      /\ room.players \in [DOMAIN room.players -> Player]
      /\ DOMAIN room.players \in SUBSET Session
      /\ Range(room.members) = DOMAIN room.players
    BY PlayersDef DEF GoodRoom, Room
<1>2. /\ left \in Seq(Session) /\ Len(left) <= Len(room.members)
      /\ Range(left) = Range(room.members) \ {s}
      /\ room.members # <<>> /\ room.members[1] # s =>
            left # <<>> /\ left[1] = room.members[1]
    BY <1>1, WithoutSpec
<1> HIDE DEF left
<1>3. /\ new.members = left
      /\ new.host = IF handOn THEN left[1] ELSE room.host
      /\ new.players = [t \in DOMAIN room.players \ {s} |->
                          IF handOn /\ t = left[1]
                          THEN Promote(room.players[t]) ELSE room.players[t]]
      /\ new.max = room.max
    BY <1>1 DEF RemovePlayer, Room, Heir, Staying, left
<1>4. left # <<>> => left[1] \in Range(left) /\ left[1] \in Session
    BY <1>2 DEF Range
<1>5. \A player \in Player : /\ Promote(player) \in Player
                             /\ Promote(player).slot = player.slot
    BY DEF Promote, Player
<1>6. new.players \in Players
    BY <1>1, <1>3, <1>5, PlayersDef
<1>7. new.host \in Session \cup {None}
    BY <1>1, <1>3, <1>4
<1>8. new \in Room
    BY <1>1, <1>2, <1>3, <1>6, <1>7 DEF RemovePlayer, Room
<1>9. Range(new.members) = DOMAIN new.players
    BY <1>1, <1>2, <1>3
<1>10. Len(new.members) <= new.max
    BY <1>1, <1>2, <1>3 DEF GoodRoom
<1>11. ASSUME ~IsEmpty(new) PROVE new.host = new.members[1]
    <2>1. left # <<>>
        BY <1>3, <1>11 DEF IsEmpty
    <2>2. CASE room.host = s
        BY <1>3, <2>1, <2>2
    <2>3. CASE room.host # s
        <3>1. room.members # <<>>
            <4>1. left[1] \in Range(room.members)
                BY <1>2, <1>4, <2>1
            <4> QED BY <4>1 DEF Range
        <3>2. room.host = room.members[1]
            BY <3>1 DEF GoodRoom, IsEmpty
        <3> QED BY <1>2, <1>3, <2>3, <3>1, <3>2
    <2> QED BY <2>2, <2>3
<1>12. ASSUME NEW t \in DOMAIN new.players, new.players[t].isHost
       PROVE  new.host = t
    <2>1. t \in DOMAIN room.players /\ t # s
        BY <1>3
    <2>2. CASE handOn /\ t = left[1]
        BY <1>3, <2>2
    <2>3. CASE ~(handOn /\ t = left[1])
        <3>1. room.players[t].isHost
            BY <1>3, <1>12, <2>1, <2>3
        <3>2. room.host = t
            BY <2>1, <3>1 DEF GoodRoom
        <3> QED BY <1>3, <2>1, <3>2
    <2> QED BY <2>2, <2>3
<1>13. ASSUME new.max <= NumSlots,
              NEW t \in DOMAIN new.players, NEW u \in DOMAIN new.players,
              t # u
       PROVE  new.players[t].slot # new.players[u].slot
    <2>1. t \in DOMAIN room.players /\ u \in DOMAIN room.players
        BY <1>3
    <2>2. room.players[t].slot # room.players[u].slot
        BY <1>3, <1>13, <2>1 DEF GoodRoom
    <2>3. \A v \in DOMAIN new.players :
              new.players[v].slot = room.players[v].slot
        BY <1>1, <1>3, <1>5
    <2> QED BY <2>2, <2>3
<1> QED BY <1>2, <1>3, <1>8, <1>9, <1>10, <1>11, <1>12, <1>13 DEF GoodRoom

(* Room::setPlayerReady. *)
LEMMA SetReadyGood ==
    ASSUME NEW room, GoodRoom(room), NEW s \in Session, NEW ready \in BOOLEAN
    PROVE  GoodRoom(SetReady(room, s, ready))
<1> DEFINE new == SetReady(room, s, ready)
<1>1. /\ room \in Room
      /\ room.players \in [DOMAIN room.players -> Player]
      /\ DOMAIN room.players \in SUBSET Session
    BY PlayersDef DEF GoodRoom, Room
<1>2. /\ new.members = room.members /\ new.host = room.host
      /\ new.max = room.max
      /\ new.players = [t \in DOMAIN room.players |->
             [room.players[t] EXCEPT !.ready = IF t = s THEN ready ELSE @]]
    BY <1>1 DEF SetReady, Room
<1>3. \A t \in DOMAIN room.players :
          /\ new.players[t] \in Player
          /\ new.players[t].slot = room.players[t].slot
          /\ new.players[t].isHost = room.players[t].isHost
    BY <1>1, <1>2 DEF Player
<1>4. new.players \in Players
    BY <1>1, <1>2, <1>3, PlayersDef
<1>5. new \in Room
    BY <1>1, <1>4 DEF SetReady, Room
<1> QED BY <1>2, <1>3, <1>5 DEF GoodRoom, IsEmpty

(* The race handler's changes of the room's state. *)
LEMMA SetStateGood ==
    ASSUME NEW room, GoodRoom(room), NEW state \in {"waiting", "busy"}
    PROVE  GoodRoom([room EXCEPT !.state = state])
BY DEF GoodRoom, Room, IsEmpty

------------------------------------------------------------------------------
(* The inductive invariant: the tables have their types and every room is  *)
(* good.  The per-room facts support each other (the host is the front of  *)
(* the vector, so promoting the new front flags the right player; the      *)
(* vector and the map agree, so a slot is free while the room has space),  *)
(* which is why they are proved together.                                  *)
RoomsGood == \A r \in DOMAIN rooms : GoodRoom(rooms[r])

IInv == TypeOK /\ RoomsGood

(* Opening a room adds a good room under an unused id. *)
LEMMA OpenRoomInv ==
    ASSUME IInv, NEW s \in Session,
           NEW settings \in [max: Nat, tutorial: BOOLEAN, private: BOOLEAN],
           late' \in [Session -> Nat], OpenRoom(s, settings)
    PROVE  IInv'
<1> DEFINE new == AddPlayer(NewRoom(settings), s)
<1>1. GoodRoom(new)
    BY NewRoomGood, AddPlayerGood
<1> HIDE DEF new
<1>2. /\ DOMAIN rooms' = DOMAIN rooms \cup {nextRoomId}
      /\ rooms' = [r \in DOMAIN rooms' |-> IF r = nextRoomId THEN new ELSE rooms[r]]
    BY DEF OpenRoom, new
<1>3. \A r \in DOMAIN rooms' : GoodRoom(rooms'[r])
    BY <1>1, <1>2 DEF IInv, RoomsGood
<1>4. rooms' \in [DOMAIN rooms' -> Room]
    BY <1>2, <1>3 DEF GoodRoom
<1>5. DOMAIN rooms' \subseteq 1..(nextRoomId' - 1) /\ nextRoomId' \in Nat \ {0}
    BY <1>2 DEF IInv, TypeOK, OpenRoom
<1>6. roomId' \in [Session -> Nat] /\ roster' \in [Session -> SUBSET Session]
    BY DEF IInv, TypeOK, OpenRoom, Told
<1>7. status' \in [Session -> {"new", "connected", "stopped"}]
    BY DEF IInv, TypeOK, OpenRoom
<1> QED BY <1>3, <1>4, <1>5, <1>6, <1>7 DEF IInv, TypeOK, RoomsGood

(* MovedOut changes no room but the one s leaves, and that one stays good. *)
LEMMA MovedOutGood ==
    ASSUME IInv, NEW s \in Session
    PROVE  /\ DOMAIN MovedOut(s) = DOMAIN rooms
           /\ \A q \in DOMAIN rooms : GoodRoom(MovedOut(s)[q])
<1>1. DOMAIN MovedOut(s) = DOMAIN rooms
    BY DEF MovedOut
<1>2. \A q \in DOMAIN rooms :
          MovedOut(s)[q] = IF q = roomId[s] THEN RemovePlayer(rooms[q], s) ELSE rooms[q]
    BY DEF MovedOut
<1>3. \A q \in DOMAIN rooms : GoodRoom(rooms[q]) /\ GoodRoom(RemovePlayer(rooms[q], s))
    BY RemovePlayerGood DEF IInv, RoomsGood
<1> QED BY <1>1, <1>2, <1>3

(* What a step that opens no room must show for the invariant to hold again. *)
LEMMA KeepsInv ==
    ASSUME IInv,
           DOMAIN rooms' \subseteq DOMAIN rooms,
           rooms' = [r \in DOMAIN rooms' |-> rooms'[r]],
           \A r \in DOMAIN rooms' : GoodRoom(rooms'[r]),
           status' \in [Session -> {"new", "connected", "stopped"}],
           late' \in [Session -> Nat],
           roomId' \in [Session -> Nat],
           roster' \in [Session -> SUBSET Session],
           UNCHANGED nextRoomId
    PROVE  IInv'
<1>1. rooms' \in [DOMAIN rooms' -> Room]
    BY DEF GoodRoom
<1> QED BY <1>1 DEF IInv, TypeOK, RoomsGood

(* A dispatched packet leaves a natural number of packets buffered. *)
LEMMA DispatchLate ==
    ASSUME IInv, NEW s \in Session, Dispatch(s)
    PROVE  late' \in [Session -> Nat]
BY DEF IInv, TypeOK, Dispatch

(* A change of one room into another good room keeps the invariant. *)
LEMMA OneRoomInv ==
    ASSUME IInv, NEW s \in Session, NEW r \in DOMAIN rooms, NEW new, GoodRoom(new),
           rooms' = [rooms EXCEPT ![r] = new],
           Dispatch(s), UNCHANGED <<status, roomId, nextRoomId, roster>>
    PROVE  IInv'
<1>1. /\ DOMAIN rooms' = DOMAIN rooms
      /\ rooms' = [q \in DOMAIN rooms' |-> rooms'[q]]
      /\ \A q \in DOMAIN rooms' : GoodRoom(rooms'[q])
    BY DEF IInv, RoomsGood
<1>2. late' \in [Session -> Nat]
    BY DispatchLate
<1> QED BY <1>1, <1>2, KeepsInv DEF IInv, TypeOK

(* 0x63 and 0x2D open a room of the settings asked for. *)
LEMMA CreateRoomInv ==
    ASSUME IInv, NEW s \in Session, NEW settings \in Settings,
           CreateRoom(s, settings) \/ ChatCreateRoom(s, settings)
    PROVE  IInv'
<1> DEFINE full == [settings EXCEPT !.max = IF @ > 0 THEN @ ELSE NumSlots]
<1>1. settings \in [max: Nat, tutorial: BOOLEAN, private: BOOLEAN]
    BY RoomsAssumption
<1>2. full \in [max: Nat, tutorial: BOOLEAN, private: BOOLEAN]
    BY <1>1, RoomsAssumption
<1>3. late' \in [Session -> Nat]
    BY DispatchLate DEF CreateRoom, ChatCreateRoom
<1>4. CASE OpenRoom(s, settings)
    BY <1>1, <1>3, <1>4, OpenRoomInv
<1>5. CASE OpenRoom(s, full)
    BY <1>2, <1>3, <1>5, OpenRoomInv
<1> QED BY <1>4, <1>5 DEF CreateRoom, ChatCreateRoom

(* Joining moves the session from the room it is in, if any, to another. *)
LEMMA JoinRoomInv ==
    ASSUME IInv, NEW s \in Session, NEW r \in RoomIds, NEW password \in BOOLEAN,
           JoinRoom(s, r, password)
    PROVE  IInv'
<1> DEFINE joined == AddPlayer(MovedOut(s)[r], s)
<1>1. r \in DOMAIN rooms
    BY DEF JoinRoom
<1>2. GoodRoom(joined)
    BY <1>1, MovedOutGood, AddPlayerGood
<1>3. rooms' = [MovedOut(s) EXCEPT ![r] = joined]
    BY DEF JoinRoom
<1>4. DOMAIN joined.players \in SUBSET Session
    BY <1>2, PlayersDef DEF GoodRoom, Room
<1>5. roster' = [t \in Session |->
                CASE t = s -> Told(s, DOMAIN joined.players \ {s})
                  [] t # s /\ t \in Range(joined.members) ->
                        Told(t, roster[t] \cup {s})
                  [] OTHER -> roster[t]]
    BY DEF JoinRoom
<1> HIDE DEF joined
<1>6. /\ DOMAIN rooms' = DOMAIN rooms
      /\ rooms' = [q \in DOMAIN rooms' |-> rooms'[q]]
      /\ \A q \in DOMAIN rooms' : GoodRoom(rooms'[q])
    <2>1. DOMAIN MovedOut(s) = DOMAIN rooms
        BY MovedOutGood
    <2>2. \A q \in DOMAIN rooms : GoodRoom(MovedOut(s)[q])
        BY MovedOutGood
    <2>3. rooms' = [q \in DOMAIN rooms |-> IF q = r THEN joined ELSE MovedOut(s)[q]]
        BY <1>3, <2>1
    <2> QED BY <1>2, <2>2, <2>3
<1>7. roster' \in [Session -> SUBSET Session]
    <2>1. \A t \in Session : roster[t] \in SUBSET Session
        BY DEF IInv, TypeOK
    <2>2. \A t \in Session : roster'[t] \in SUBSET Session
        BY <1>4, <1>5, <2>1 DEF Told
    <2> QED BY <1>5, <2>2
<1>8. roomId' \in [Session -> Nat]
    BY DEF JoinRoom, RoomIds, IInv, TypeOK
<1>9. late' \in [Session -> Nat]
    BY DispatchLate DEF JoinRoom
<1>10. /\ status' \in [Session -> {"new", "connected", "stopped"}]
       /\ UNCHANGED nextRoomId
    BY DEF JoinRoom, IInv, TypeOK
<1> QED BY <1>6, <1>7, <1>8, <1>9, <1>10, KeepsInv

(* The farewell to those who remain names sessions only. *)
LEMMA FarewellType ==
    ASSUME IInv, NEW q, NEW s \in Session
    PROVE  Farewell(q, s) \in [Session -> SUBSET Session]
<1>1. \A t \in Session : roster[t] \in SUBSET Session
    BY DEF IInv, TypeOK
<1>2. \A t \in Session : Farewell(q, s)[t] \in SUBSET Session
    BY <1>1 DEF Farewell, Told
<1> QED BY <1>2 DEF Farewell

(* Leaving removes the player, and the room when it is empty. *)
LEMMA LeaveRoomInv ==
    ASSUME IInv, NEW s \in Session, LeaveRoom(s)
    PROVE  IInv'
<1> DEFINE left == RemovePlayer(rooms[roomId[s]], s)
<1>1. /\ late' \in [Session -> Nat]
      /\ roomId' \in [Session -> Nat]
      /\ status' \in [Session -> {"new", "connected", "stopped"}]
      /\ UNCHANGED nextRoomId
    BY DispatchLate DEF LeaveRoom, IInv, TypeOK
<1>2. \A t \in Session : Told(t, {}) \in SUBSET Session
    BY DEF Told, IInv, TypeOK
<1>3. CASE roomId[s] \in DOMAIN rooms
    <2>1. GoodRoom(left)
        BY <1>3, RemovePlayerGood DEF IInv, RoomsGood
    <2>2. /\ rooms' = IF IsEmpty(left)
                      THEN Restrict(rooms, DOMAIN rooms \ {roomId[s]})
                      ELSE [rooms EXCEPT ![roomId[s]] = left]
          /\ roster' = [Farewell(left, s) EXCEPT ![s] = Told(s, {})]
        BY <1>3 DEF LeaveRoom
    <2>3. roster' \in [Session -> SUBSET Session]
        BY <1>2, <2>2, FarewellType
    <2>4. /\ DOMAIN rooms' \subseteq DOMAIN rooms
          /\ rooms' = [q \in DOMAIN rooms' |-> rooms'[q]]
          /\ \A q \in DOMAIN rooms' : GoodRoom(rooms'[q])
        <3> HIDE DEF left
        <3>1. CASE IsEmpty(left)
            BY <2>2, <3>1 DEF Restrict, IInv, RoomsGood
        <3>2. CASE ~IsEmpty(left)
            BY <2>1, <2>2, <3>2 DEF IInv, RoomsGood
        <3> QED BY <3>1, <3>2
    <2> QED BY <1>1, <2>3, <2>4, KeepsInv
<1>4. CASE roomId[s] \notin DOMAIN rooms
    <2>1. roster' = [roster EXCEPT ![s] = Told(s, {})] /\ UNCHANGED rooms
        BY <1>4 DEF LeaveRoom
    <2>2. roster' \in [Session -> SUBSET Session]
        BY <1>2, <2>1 DEF IInv, TypeOK
    <2>3. /\ rooms' = [q \in DOMAIN rooms' |-> rooms'[q]]
          /\ \A q \in DOMAIN rooms' : GoodRoom(rooms'[q])
        BY <2>1 DEF IInv, TypeOK, RoomsGood
    <2> QED BY <1>1, <2>1, <2>2, <2>3, KeepsInv
<1> QED BY <1>3, <1>4

(* onDisconnect removes the player, and every empty room. *)
LEMMA DisconnectInv ==
    ASSUME IInv, NEW s \in Session, NEW n \in 0..MaxLate, Disconnect(s, n)
    PROVE  IInv'
<1>1. /\ late' \in [Session -> Nat]
      /\ roomId' \in [Session -> Nat]
      /\ status' \in [Session -> {"new", "connected", "stopped"}]
      /\ UNCHANGED nextRoomId
    BY RoomsAssumption DEF Disconnect, IInv, TypeOK
<1>2. roster' \in [Session -> SUBSET Session]
    BY FarewellType DEF Disconnect, IInv, TypeOK
<1>3. rooms' = Swept(MovedOut(s))
    BY DEF Disconnect
<1>4. /\ DOMAIN rooms' \subseteq DOMAIN rooms
      /\ rooms' = [q \in DOMAIN rooms' |-> rooms'[q]]
      /\ \A q \in DOMAIN rooms' : GoodRoom(rooms'[q])
    BY <1>3, MovedOutGood DEF Swept, Restrict
<1> QED BY <1>1, <1>2, <1>4, KeepsInv

(* PLAYER_READY changes one room by setPlayerReady. *)
LEMMA PlayerReadyInv ==
    ASSUME IInv, NEW s \in Session, NEW ready \in BOOLEAN, PlayerReady(s, ready)
    PROVE  IInv'
<1>1. roomId[s] \in DOMAIN rooms
    BY DEF PlayerReady
<1>2. GoodRoom(SetReady(rooms[roomId[s]], s, ready))
    BY <1>1, SetReadyGood DEF IInv, RoomsGood
<1>3. rooms' = [rooms EXCEPT ![roomId[s]] = SetReady(rooms[roomId[s]], s, ready)]
    BY DEF PlayerReady
<1> QED BY <1>1, <1>2, <1>3, OneRoomInv DEF PlayerReady

(* The start and the end of a race change the state of one room. *)
LEMMA RaceInv ==
    ASSUME IInv, NEW s \in Session, GameStart(s) \/ RaceFinish(s)
    PROVE  IInv'
<1> DEFINE r == roomId[s]
<1>1. r \in DOMAIN rooms
    BY DEF GameStart, RaceFinish
<1>2. PICK state \in {"waiting", "busy"} :
          rooms' = [rooms EXCEPT ![r] = [rooms[r] EXCEPT !.state = state]]
    BY DEF GameStart, RaceFinish, HandleStartRace, EndRace
<1>3. GoodRoom([rooms[r] EXCEPT !.state = state])
    BY <1>1, SetStateGood DEF IInv, RoomsGood
<1>4. Dispatch(s) /\ UNCHANGED <<status, roomId, nextRoomId, roster>>
    BY DEF GameStart, RaceFinish
<1> QED BY <1>1, <1>2, <1>3, <1>4, OneRoomInv

------------------------------------------------------------------------------
(* The invariant holds initially: there is no room. *)
LEMMA InitInv == Init => IInv
BY DEF Init, IInv, TypeOK, RoomsGood

(* Every handler preserves the invariant. *)
LEMMA NextInv == IInv /\ [Next]_vars => IInv'
<1> SUFFICES ASSUME IInv, [Next]_vars PROVE IInv'
    OBVIOUS
<1>1. CASE UNCHANGED vars
    BY <1>1 DEF vars, IInv, TypeOK, RoomsGood
<1>2. ASSUME NEW s \in Session, SessionStep(s) PROVE IInv'
    <2>1. CASE Accept(s)
        BY <2>1, KeepsInv DEF Accept, IInv, TypeOK, RoomsGood
    <2>2. CASE \E settings \in Settings : CreateRoom(s, settings)
        BY <2>2, CreateRoomInv
    <2>3. CASE \E settings \in Settings : ChatCreateRoom(s, settings)
        BY <2>3, CreateRoomInv
    <2>4. CASE \E r \in RoomIds, password \in BOOLEAN : JoinRoom(s, r, password)
        BY <2>4, JoinRoomInv
    <2>5. CASE LeaveRoom(s)
        BY <2>5, LeaveRoomInv
    <2>6. CASE \E ready \in BOOLEAN : PlayerReady(s, ready)
        BY <2>6, PlayerReadyInv
    <2>7. CASE GameStart(s)
        BY <2>7, RaceInv
    <2>8. CASE RaceFinish(s)
        BY <2>8, RaceInv
    <2>9. CASE RefusedPacket(s)
        <3>1. late' \in [Session -> Nat]
            BY <2>9, DispatchLate DEF RefusedPacket
        <3> QED BY <2>9, <3>1 DEF RefusedPacket, IInv, TypeOK, RoomsGood
    <2>10. CASE \E n \in 0..MaxLate : Disconnect(s, n)
        BY <2>10, DisconnectInv
    <2> QED BY <1>2, <2>1, <2>2, <2>3, <2>4, <2>5, <2>6, <2>7, <2>8, <2>9, <2>10
            DEF SessionStep
<1> QED BY <1>1, <1>2 DEF Next

(* IInv is an invariant of the room tables. *)
THEOREM Inductive == Spec => []IInv
BY InitInv, NextInv, PTL DEF Spec

(* The room tables keep their types, and no id is handed out twice: what   *)
(* createRoom inserts never overwrites a room.                             *)
THEOREM RoomsTypeCorrect == Spec => []TypeOK
<1>1. IInv => TypeOK
    BY DEF IInv
<1> QED BY <1>1, Inductive, PTL

(* The session vector and the player map of a room name the same sessions. *)
THEOREM RoomsSeatsAgree == Spec => []SeatsAgree
<1>1. IInv => SeatsAgree
    BY DEF IInv, RoomsGood, GoodRoom, SeatsAgree, Present
<1> QED BY <1>1, Inductive, PTL

(* No room ever holds more sessions than its maxPlayers. *)
THEOREM RoomsWithinCapacity == Spec => []WithinCapacity
<1>1. IInv => WithinCapacity
    BY DEF IInv, RoomsGood, GoodRoom, WithinCapacity
<1> QED BY <1>1, Inductive, PTL

(* The host is the member that entered first of those who stayed. *)
THEOREM RoomsHostIsSenior == Spec => []HostIsSenior
<1>1. IInv => HostIsSenior
    BY DEF IInv, RoomsGood, GoodRoom, HostIsSenior
<1> QED BY <1>1, Inductive, PTL

(* Nobody else is exempt from "ready". *)
THEOREM RoomsFlagOnlyOnHost == Spec => []FlagOnlyOnHost
<1>1. IInv => FlagOnlyOnHost
    BY DEF IInv, RoomsGood, GoodRoom, FlagOnlyOnHost
<1> QED BY <1>1, Inductive, PTL

(* Players of a room of ordinary size start from different slots. *)
THEOREM RoomsSlotsDistinct == Spec => []SlotsDistinct
<1>1. IInv => SlotsDistinct
    BY DEF IInv, RoomsGood, GoodRoom, SlotsDistinct
<1> QED BY <1>1, Inductive, PTL

------------------------------------------------------------------------------
(* Who is in which room: what a step of one session may change of it.      *)
Seats(table, r) == Range(table[r].members)

(* Rooms that stay keep everybody but s, who enters waiting rooms only;    *)
(* rooms that come or go have nobody but s in them.                        *)
OnlyMoves(s, before, after) ==
    /\ \A r \in DOMAIN before \cap DOMAIN after :
          \/ Seats(after, r) = Seats(before, r)
          \/ Seats(after, r) = Seats(before, r) \ {s}
          \/ before[r].state = "waiting" /\ Seats(after, r) = Seats(before, r) \cup {s}
    /\ \A r \in DOMAIN before \ DOMAIN after : Seats(before, r) \subseteq {s}
    /\ \A r \in DOMAIN after \ DOMAIN before : Seats(after, r) \subseteq {s}

LEMMA AddPlayerSeats ==
    ASSUME NEW room, GoodRoom(room), NEW s \in Session
    PROVE  \/ Range(AddPlayer(room, s).members) = Range(room.members)
           \/ Range(AddPlayer(room, s).members) = Range(room.members) \cup {s}
<1>1. room \in Room /\ room.members \in Seq(Session)
    BY DEF GoodRoom, Room
<1>2. CASE IsFull(room)
    BY <1>2 DEF AddPlayer
<1>3. CASE ~IsFull(room)
    <2>1. AddPlayer(room, s).members = Append(room.members, s)
        BY <1>1, <1>3 DEF AddPlayer, Room
    <2> QED BY <1>1, <2>1, RangeAppend
<1> QED BY <1>2, <1>3

LEMMA OpenRoomMoves ==
    ASSUME IInv, NEW s \in Session,
           NEW settings \in [max: Nat, tutorial: BOOLEAN, private: BOOLEAN],
           OpenRoom(s, settings)
    PROVE  OnlyMoves(s, rooms, rooms')
<1> DEFINE new == AddPlayer(NewRoom(settings), s)
<1>1. Range(new.members) \subseteq {s}
    <2>1. GoodRoom(NewRoom(settings)) /\ Range(NewRoom(settings).members) = {}
        BY NewRoomGood DEF IsEmpty, Range
    <2> QED BY <2>1, AddPlayerSeats
<1> HIDE DEF new
<1>2. /\ DOMAIN rooms' = DOMAIN rooms \cup {nextRoomId}
      /\ \A r \in DOMAIN rooms' : rooms'[r] = IF r = nextRoomId THEN new ELSE rooms[r]
    BY DEF OpenRoom, new
<1>3. nextRoomId \notin DOMAIN rooms
    BY DEF IInv, TypeOK
<1> QED BY <1>1, <1>2, <1>3 DEF OnlyMoves, Seats

(* The rooms that s is taken out of, or not. *)
LEMMA MovedOutSeats ==
    ASSUME IInv, NEW s \in Session, NEW r \in DOMAIN rooms
    PROVE  /\ MovedOut(s)[r].state = rooms[r].state
           /\ \/ Seats(MovedOut(s), r) = Seats(rooms, r)
              \/ Seats(MovedOut(s), r) = Seats(rooms, r) \ {s}
<1>1. GoodRoom(rooms[r])
    BY DEF IInv, RoomsGood
<1>2. Range(RemovePlayer(rooms[r], s).members) = Range(rooms[r].members) \ {s}
    BY <1>1, RemovePlayerGood
<1>3. RemovePlayer(rooms[r], s).state = rooms[r].state
    BY <1>1 DEF GoodRoom, Room, RemovePlayer
<1>4. MovedOut(s)[r] = IF r = roomId[s] THEN RemovePlayer(rooms[r], s) ELSE rooms[r]
    BY DEF MovedOut
<1> QED BY <1>2, <1>3, <1>4 DEF Seats

LEMMA JoinRoomMoves ==
    ASSUME IInv, NEW s \in Session, NEW r \in RoomIds, NEW password \in BOOLEAN,
           JoinRoom(s, r, password)
    PROVE  OnlyMoves(s, rooms, rooms')
<1> DEFINE joined == AddPlayer(MovedOut(s)[r], s)
<1>1. r \in DOMAIN rooms /\ rooms[r].state = "waiting"
    BY DEF JoinRoom, Admits
<1>2. /\ DOMAIN rooms' = DOMAIN rooms
      /\ \A q \in DOMAIN rooms : rooms'[q] = IF q = r THEN joined ELSE MovedOut(s)[q]
    <2>1. rooms' = [MovedOut(s) EXCEPT ![r] = joined]
        BY DEF JoinRoom
    <2> HIDE DEF joined
    <2>2. DOMAIN MovedOut(s) = DOMAIN rooms
        BY MovedOutGood
    <2> QED BY <2>1, <2>2 DEF MovedOut
<1>3. \/ Range(joined.members) = Seats(MovedOut(s), r)
      \/ Range(joined.members) = Seats(MovedOut(s), r) \cup {s}
    BY <1>1, MovedOutGood, AddPlayerSeats DEF Seats
<1> HIDE DEF joined
<1>4. \/ Seats(rooms', r) = Seats(rooms, r)
      \/ Seats(rooms', r) = Seats(rooms, r) \ {s}
      \/ Seats(rooms', r) = Seats(rooms, r) \cup {s}
    <2>1. Seats(rooms', r) = Range(joined.members)
        BY <1>1, <1>2 DEF Seats
    <2>2. \/ Seats(MovedOut(s), r) = Seats(rooms, r)
          \/ Seats(MovedOut(s), r) = Seats(rooms, r) \ {s}
        BY <1>1, MovedOutSeats
    <2> QED BY <1>3, <2>1, <2>2
<1>5. \A q \in DOMAIN rooms \ {r} :
          \/ Seats(rooms', q) = Seats(rooms, q)
          \/ Seats(rooms', q) = Seats(rooms, q) \ {s}
    BY <1>2, MovedOutSeats DEF Seats
<1> QED BY <1>1, <1>2, <1>4, <1>5 DEF OnlyMoves

LEMMA LeaveRoomMoves ==
    ASSUME IInv, NEW s \in Session, LeaveRoom(s)
    PROVE  OnlyMoves(s, rooms, rooms')
<1> DEFINE r == roomId[s]
           left == RemovePlayer(rooms[r], s)
<1>1. CASE r \notin DOMAIN rooms
    BY <1>1 DEF LeaveRoom, OnlyMoves
<1>2. CASE r \in DOMAIN rooms
    <2>1. rooms' = IF IsEmpty(left) THEN Restrict(rooms, DOMAIN rooms \ {r})
                   ELSE [rooms EXCEPT ![r] = left]
        BY <1>2 DEF LeaveRoom
    <2>2. Range(left.members) = Seats(rooms, r) \ {s}
        BY <1>2, RemovePlayerGood DEF IInv, RoomsGood, Seats
    <2> HIDE DEF left, r
    <2>3. CASE IsEmpty(left)
        <3>1. Seats(rooms, r) \subseteq {s}
            BY <2>2, <2>3 DEF IsEmpty, Range
        <3>2. /\ DOMAIN rooms' = DOMAIN rooms \ {r}
              /\ \A q \in DOMAIN rooms' : rooms'[q] = rooms[q]
            BY <2>1, <2>3 DEF Restrict
        <3> QED BY <3>1, <3>2 DEF OnlyMoves, Seats
    <2>4. CASE ~IsEmpty(left)
        <3>1. /\ DOMAIN rooms' = DOMAIN rooms
              /\ \A q \in DOMAIN rooms : rooms'[q] = IF q = r THEN left ELSE rooms[q]
            BY <2>1, <2>4
        <3> QED BY <2>2, <3>1 DEF OnlyMoves, Seats
    <2> QED BY <2>3, <2>4
<1> QED BY <1>1, <1>2

LEMMA DisconnectMoves ==
    ASSUME IInv, NEW s \in Session, NEW n \in 0..MaxLate, Disconnect(s, n)
    PROVE  OnlyMoves(s, rooms, rooms')
<1>1. DOMAIN MovedOut(s) = DOMAIN rooms
    BY MovedOutGood
<1>2. /\ DOMAIN rooms' = {q \in DOMAIN rooms : ~IsEmpty(MovedOut(s)[q])}
      /\ \A q \in DOMAIN rooms' : rooms'[q] = MovedOut(s)[q]
    BY <1>1 DEF Disconnect, Swept, Restrict
<1>3. \A q \in DOMAIN rooms \ DOMAIN rooms' : Seats(MovedOut(s), q) = {}
    BY <1>2 DEF IsEmpty, Seats, Range
<1>4. \A q \in DOMAIN rooms \ DOMAIN rooms' : Seats(rooms, q) \subseteq {s}
    BY <1>3, MovedOutSeats
<1>5. \A q \in DOMAIN rooms \cap DOMAIN rooms' :
          \/ Seats(rooms', q) = Seats(rooms, q)
          \/ Seats(rooms', q) = Seats(rooms, q) \ {s}
    BY <1>2, MovedOutSeats DEF Seats
<1> QED BY <1>2, <1>4, <1>5 DEF OnlyMoves

(* Readiness and the course of a race change nobody's room. *)
LEMMA SameSeats ==
    ASSUME NEW s \in Session, NEW r \in DOMAIN rooms, NEW new,
           new.members = rooms[r].members, rooms' = [rooms EXCEPT ![r] = new]
    PROVE  OnlyMoves(s, rooms, rooms')
<1>1. /\ DOMAIN rooms' = DOMAIN rooms
      /\ \A q \in DOMAIN rooms : rooms'[q] = IF q = r THEN new ELSE rooms[q]
    OBVIOUS
<1>2. \A q \in DOMAIN rooms : Seats(rooms', q) = Seats(rooms, q)
    BY <1>1 DEF Seats
<1> QED BY <1>1, <1>2 DEF OnlyMoves

LEMMA StepMoves ==
    ASSUME IInv, NEW s \in Session, SessionStep(s)
    PROVE  OnlyMoves(s, rooms, rooms')
<1>1. CASE UNCHANGED rooms
    BY <1>1 DEF OnlyMoves
<1>2. ASSUME NEW settings \in Settings, CreateRoom(s, settings) \/ ChatCreateRoom(s, settings)
      PROVE  OnlyMoves(s, rooms, rooms')
    <2> DEFINE full == [settings EXCEPT !.max = IF @ > 0 THEN @ ELSE NumSlots]
    <2>1. /\ settings \in [max: Nat, tutorial: BOOLEAN, private: BOOLEAN]
          /\ full \in [max: Nat, tutorial: BOOLEAN, private: BOOLEAN]
        BY RoomsAssumption
    <2>2. OpenRoom(s, settings) \/ OpenRoom(s, full)
        BY <1>2 DEF CreateRoom, ChatCreateRoom
    <2> QED BY <2>1, <2>2, OpenRoomMoves
<1>3. ASSUME NEW ready \in BOOLEAN, PlayerReady(s, ready) PROVE OnlyMoves(s, rooms, rooms')
    <2>1. /\ roomId[s] \in DOMAIN rooms
          /\ rooms' = [rooms EXCEPT ![roomId[s]] = SetReady(rooms[roomId[s]], s, ready)]
        BY <1>3 DEF PlayerReady
    <2>2. SetReady(rooms[roomId[s]], s, ready).members = rooms[roomId[s]].members
        BY <2>1 DEF SetReady, IInv, RoomsGood, GoodRoom, Room
    <2> QED BY <2>1, <2>2, SameSeats
<1>4. CASE GameStart(s) \/ RaceFinish(s)
    <2>1. roomId[s] \in DOMAIN rooms
        BY <1>4 DEF GameStart, RaceFinish
    <2>2. PICK state \in {"waiting", "busy"} :
              rooms' = [rooms EXCEPT ![roomId[s]] = [rooms[roomId[s]] EXCEPT !.state = state]]
        BY <1>4 DEF GameStart, RaceFinish, HandleStartRace, EndRace
    <2>3. [rooms[roomId[s]] EXCEPT !.state = state].members = rooms[roomId[s]].members
        BY <2>1 DEF IInv, RoomsGood, GoodRoom, Room
    <2> QED BY <2>1, <2>2, <2>3, SameSeats
<1>5. CASE Accept(s) \/ RefusedPacket(s)
    BY <1>1, <1>5 DEF Accept, RefusedPacket
<1> QED BY <1>2, <1>3, <1>4, <1>5, JoinRoomMoves, LeaveRoomMoves, DisconnectMoves
        DEF SessionStep

LEMMA OthersStay ==
    ASSUME IInv, NEW s \in Session, SessionStep(s), NEW t \in Session, t # s
    PROVE  RoomsOf(t)' = RoomsOf(t)
<1>1. OnlyMoves(s, rooms, rooms')
    BY StepMoves
<1>2. \A r : r \in DOMAIN rooms' /\ t \in Seats(rooms', r)
               <=> r \in DOMAIN rooms /\ t \in Seats(rooms, r)
    BY <1>1 DEF OnlyMoves
<1>3. RoomsOf(t)' = {r \in DOMAIN rooms' : t \in Seats(rooms', r)}
    BY DEF RoomsOf, Present, Seats
<1>4. RoomsOf(t) = {r \in DOMAIN rooms : t \in Seats(rooms, r)}
    BY DEF RoomsOf, Present, Seats
<1> QED BY <1>2, <1>3, <1>4

(* No handler throws anybody out of a room, or puts anybody into one, but  *)
(* the session whose packet it handles.                                    *)
THEOREM RoomsNobodyEvicted == Spec => NobodyEvicted
<1>1. IInv /\ [Next]_vars =>
          [\A s, t \in Session : RoomsOf(s)' # RoomsOf(s) /\ RoomsOf(t)' # RoomsOf(t)
                                    => s = t]_vars
    BY OthersStay DEF Next
<1> QED BY <1>1, Inductive, PTL DEF Spec, NobodyEvicted

(* No path leads into a room whose race runs. *)
THEOREM RoomsClosedDuringRace == Spec => ClosedDuringRace
<1>1. ASSUME IInv, NEW s \in Session, SessionStep(s),
             NEW r \in DOMAIN rooms \cap DOMAIN rooms', rooms[r].state = "busy"
      PROVE  Present(r)' \subseteq Present(r)
    <2>1. OnlyMoves(s, rooms, rooms')
        BY <1>1, StepMoves
    <2>2. Seats(rooms', r) \subseteq Seats(rooms, r)
        BY <1>1, <2>1 DEF OnlyMoves
    <2> QED BY <2>2 DEF Seats, Present
<1>2. IInv /\ [Next]_vars =>
          [\A r \in DOMAIN rooms \cap DOMAIN rooms' :
              rooms[r].state = "busy" => Present(r)' \subseteq Present(r)]_vars
    BY <1>1 DEF Next
<1> QED BY <1>2, Inductive, PTL DEF Spec, ClosedDuringRace
=============================================================================
