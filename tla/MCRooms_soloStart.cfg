\* A client that is twice in the vector of its room.
CONSTANTS
    s1 = s1
    s2 = s2
    s3 = s3
    None = None
    Session <- TwoSessions
    NumSlots = 2
    Settings <- MenuSettings
    Quirks = {"createInRoom", "joinInRoom"}
    MaxLate = 0
    MaxRooms = 2
SYMMETRY Symmetry2
SPECIFICATION Spec
PROPERTIES FairStart
CHECK_DEADLOCK FALSE
