------------------------------- MODULE Lobby -------------------------------
(***************************************************************************)
(* What the rooms of the game server are to the players, without the       *)
(* tables that keep them: a room is the line of those who are in it, who   *)
(* has been there longest first, and exists as long as somebody is.  It    *)
(* has a number of seats, may or may not let somebody race alone, races or *)
(* waits, and awaits some of its guests: all but the first, until they say *)
(* that they are ready.                                                    *)
(***************************************************************************)
EXTENDS Integers, Sequences, Functions

CONSTANT Guest

VARIABLE tables  \* from room id to the room, for the rooms with people in them

Guests(id) == Range(tables[id].guests)

First(q) == IF q = <<>> THEN {} ELSE {q[1]}

Front(q) == SubSeq(q, 1, Len(q) - 1)

(* w is q without g, the others in their order. *)
IsWithout(w, q, g) ==
    /\ Range(w) = Range(q) \ {g}
    /\ \A i, j \in DOMAIN w : i < j =>
           \E k, l \in DOMAIN q : k < l /\ q[k] = w[i] /\ q[l] = w[j]

(* The race does not wait for who is first now. *)
Vacated(table, rest, g) ==
    [guests |-> rest, seats |-> table.seats, solo |-> table.solo, racing |-> table.racing,
     awaited |-> table.awaited \ ({g} \cup First(rest))]

Taken(table, g) ==
    [guests |-> Append(table.guests, g), seats |-> table.seats, solo |-> table.solo,
     racing |-> table.racing,
     awaited |-> IF table.guests = <<>> THEN {} ELSE table.awaited \cup {g}]

(* after is the table before once g has left it.                           *)
GivesUp(before, after, g) ==
    /\ IsWithout(after.guests, before.guests, g)
    /\ after = Vacated(before, after.guests, g)

(* g, who may have been there already, sits down last and is awaited. *)
Receives(before, after, g) ==
    LET rest == Front(after.guests)
    IN  /\ IsWithout(rest, before.guests, g)
        /\ after = Taken(Vacated(before, rest, g), g)

Opens(table, g) ==
    /\ table.guests = <<g>> /\ table.seats > 0
    /\ ~table.racing /\ table.awaited = {}

------------------------------------------------------------------------------
Init == tables = [id \in {} |-> {}]

(* The tables other than the one g goes to, which is in ids if any. *)
LeavesAllBut(ids, g) ==
    /\ DOMAIN tables' = {id \in DOMAIN tables : Guests(id) # {g}} \cup ids
    /\ \A id \in DOMAIN tables' \ ids :
           IF g \in Guests(id) THEN GivesUp(tables[id], tables'[id], g)
           ELSE tables'[id] = tables[id]

Leave(g) == LeavesAllBut({}, g)

(* A table with people at it takes another while there is a free seat and  *)
(* no race; else g has the table to itself.                                *)
Enter(g, id) ==
    /\ LeavesAllBut({id}, g)
    /\ IF id \in DOMAIN tables
       THEN /\ ~tables[id].racing /\ Len(tables[id].guests) < tables[id].seats
            /\ Receives(tables[id], tables'[id], g)
       ELSE Opens(tables'[id], g)

SayReady(g, id, ready) ==
    /\ id \in DOMAIN tables /\ g \in Guests(id)
    /\ tables' = [tables EXCEPT ![id].awaited =
                     IF ready \/ g = tables[id].guests[1] THEN @ \ {g} ELSE @ \cup {g}]

(* Alone only at a solo table. *)
Begin(id) ==
    /\ id \in DOMAIN tables /\ ~tables[id].racing
    /\ tables[id].solo \/ (Len(tables[id].guests) >= 2 /\ tables[id].awaited = {})
    /\ tables' = [tables EXCEPT ![id].racing = TRUE]

End(id) ==
    /\ id \in DOMAIN tables /\ tables[id].racing
    /\ tables' = [tables EXCEPT ![id].racing = FALSE]

Next ==
    \/ \E g \in Guest : Leave(g)
    \/ \E g \in Guest : \E id \in DOMAIN tables' : Enter(g, id)
    \/ \E g \in Guest, id \in DOMAIN tables, ready \in BOOLEAN : SayReady(g, id, ready)
    \/ \E id \in DOMAIN tables : Begin(id) \/ End(id)

Spec == Init /\ [][Next]_tables
=============================================================================
