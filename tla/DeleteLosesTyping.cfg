SPECIFICATION Spec
CONSTANTS
    Paths = {a, b}
    None = None
    Races = {"typing under a delete"}
    MaxClock = 4
    MaxStats = 2
    Sessions <- Apart
SYMMETRY Alike
PROPERTIES AskedFirst
CHECK_DEADLOCK FALSE
