SPECIFICATION Spec
CONSTANTS
    Paths = {a, b}
    None = None
    Races = {"rename onto a tab"}
    MaxClock = 4
    MaxStats = 2
    Sessions <- Longer
SYMMETRY Alike
PROPERTIES AskedFirst
CHECK_DEADLOCK FALSE
