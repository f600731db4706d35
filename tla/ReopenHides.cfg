SPECIFICATION Spec
CONSTANTS
    Paths = {a, b}
    None = None
    Races = {}
    MaxClock = 4
    MaxStats = 2
    Sessions <- Apart
SYMMETRY Alike
INVARIANTS ChangeCanBeSeen
CHECK_DEADLOCK FALSE
