\* One position that validatePosition rejects.
CONSTANTS
    Session = {a}
    Move <- SomeMoves
    LapTime = {}
    Speed = {}
    MaxLate = 0
SPECIFICATION Spec
INVARIANTS GoesOnServing
CHECK_DEADLOCK FALSE
