SPECIFICATION Spec
CONSTANTS
    Paths = {a, b}
    None = None
    Races = {"typing while a close saves", "closing over an older save"}
    MaxClock = 4
    MaxStats = 2
    Sessions <- Apart
SYMMETRY Alike
PROPERTIES AskedFirst
CHECK_DEADLOCK FALSE
