\* Clients that create only from the lobby but may join one room from another.
CONSTANTS
    s1 = s1
    s2 = s2
    s3 = s3
    None = None
    Session <- ThreeSessions
    NumSlots = 2
    Settings <- MenuSettings
    Quirks = {"joinInRoom"}
    MaxLate = 0
    MaxRooms = 2
SYMMETRY Symmetry3
SPECIFICATION MovesSpec
INVARIANTS OneRoomEach NoRoomOutlivesPlayers RosterTrueButForMovers
PROPERTIES FairStart KeepsLobby
CHECK_DEADLOCK FALSE
