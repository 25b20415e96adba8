------------------------------ MODULE MCRooms ------------------------------
(* Small instances of Rooms for TLC. *)
EXTENDS Rooms, TLC

CONSTANTS s1, s2, s3

TwoSessions == {s1, s2}
ThreeSessions == {s1, s2, s3}

(* What clients ask for.  With NumSlots = 2, size 3 is a room larger than  *)
(* its slots and size 0 the room nobody fits in, unless it is asked for by *)
(* 0x2D, which makes it a room of size 2.                                  *)
Ask(max, tutorial, private) ==
    [max |-> max, tutorial |-> tutorial, private |-> private]
AnySettings == {Ask(0, TRUE, FALSE), Ask(3, FALSE, TRUE)}
MenuSettings == {Ask(3, FALSE, TRUE), Ask(2, TRUE, FALSE)}

(* Sessions are interchangeable: no definition of Rooms names one. *)
Symmetry2 == Permutations(TwoSessions)
Symmetry3 == Permutations(ThreeSessions)
=============================================================================
