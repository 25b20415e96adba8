---------------------------- MODULE MCRoomsMoves ----------------------------
(* Small instances of RoomsMoves for TLC. *)
EXTENDS MCRooms, RoomsMoves
=============================================================================
