----------------------------- MODULE RoomsMoves -----------------------------
(***************************************************************************)
(* Rooms with a history variable: which sessions ever went from one room   *)
(* straight into another.                                                  *)
(***************************************************************************)
EXTENDS Rooms

VARIABLE movers

Moves(s) == roomId[s] # 0 /\ roomId'[s] \notin {0, roomId[s]}

MovesInit == Init /\ movers = {}

MovesNext == Next /\ movers' = movers \cup {s \in Session : Moves(s)}

MovesSpec == MovesInit /\ [][MovesNext]_<<vars, movers>>

(* What a client was told of its room-mates misses nobody, and names       *)
(* nobody too many but those who went from one room straight into another, *)
(* whose departure handleJoinRoom does not announce.                       *)
RosterTrueButForMovers ==
    \A s \in Session : Connected(s) /\ roomId[s] # 0 =>
        LET mates == (UNION {Present(r) : r \in RoomsOf(s)}) \ {s}
        IN  mates \subseteq roster[s] /\ roster[s] \ mates \subseteq movers
=============================================================================
