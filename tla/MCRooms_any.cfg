\* Clients that send anything. Two slots stand for the code's eight.
CONSTANTS
    s1 = s1
    s2 = s2
    s3 = s3
    None = None
    Session <- ThreeSessions
    NumSlots = 2
    Settings <- AnySettings
    Quirks = {"createInRoom", "joinInRoom"}
    MaxLate = 1
    MaxRooms = 2
SYMMETRY Symmetry3
SPECIFICATION Spec
INVARIANTS TypeOK SeatsAgree WithinCapacity HostIsSenior FlagOnlyOnHost SlotsDistinct
PROPERTIES NobodyEvicted ClosedDuringRace
CHECK_DEADLOCK FALSE
