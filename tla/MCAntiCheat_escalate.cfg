\* Violations that the race handler reports, up to and beyond the ban.
CONSTANTS
    Session = {a, b}
    Move <- SomeMoves
    LapTime <- LapTimes
    Speed <- Speeds
    MaxLate = 9
SPECIFICATION Spec
INVARIANTS TypeOK ThirdStrikeStops BannedAtTen
CHECK_DEADLOCK FALSE
