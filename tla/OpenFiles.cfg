SPECIFICATION Spec
CONSTANTS
    Paths = {a, b}
    None = None
    Races = {}
    MaxClock = 4
    MaxStats = 2
    Sessions <- Apart
SYMMETRY Alike
INVARIANTS CleanWasStored
PROPERTIES AskedFirst ReplacesWhatItKnows
CHECK_DEADLOCK FALSE
