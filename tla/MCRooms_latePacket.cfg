\* Packets buffered behind the one that stopped the session.
CONSTANTS
    s1 = s1
    s2 = s2
    s3 = s3
    None = None
    Session <- TwoSessions
    NumSlots = 2
    Settings <- MenuSettings
    Quirks = {}
    MaxLate = 1
    MaxRooms = 2
SYMMETRY Symmetry2
SPECIFICATION Spec
INVARIANTS GoneFromRooms
CHECK_DEADLOCK FALSE
