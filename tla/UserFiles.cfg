SPECIFICATION Spec
CONSTANTS
    Threads = {main, worker}
    Main = main
    Items = {a, b}
    Stores <- FiveStores
    Builds = {1, 2}
    PerStem = 2
    MaxLaunches = 3
    MaxChanges = 2
    MaxFaults = 2
    None = None
INVARIANTS NothingLost FileFollowsMemory
PROPERTIES WholeOrMixed
CHECK_DEADLOCK FALSE
