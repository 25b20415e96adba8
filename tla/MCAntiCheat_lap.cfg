\* One lap below the minimum.
CONSTANTS
    Session = {a}
    Move = {}
    LapTime <- LapTimes
    Speed = {}
    MaxLate = 0
SPECIFICATION Spec
PROPERTY HighBans
CHECK_DEADLOCK FALSE
