SPECIFICATION Spec
CONSTANTS
    Threads = {main}
    Main = main
    Items = {a, b}
    Stores <- FiveStores
    Builds = {1, 2}
    PerStem = 2
    MaxLaunches = 3
    MaxChanges = 2
    MaxFaults = 0
    None = None
INVARIANTS LoopCloses
CHECK_DEADLOCK FALSE
