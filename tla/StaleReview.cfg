SPECIFICATION Spec
SYMMETRY Workers
CONSTANTS
    Calls = {c1, c2}
    Owner = owner
    Method = method
    Dependents = {b, d}
    Moved = {b, d}
    Rows = {r1, r2, r3}
    Runs = {n1}
    None = None
    MaxCalls = 3
    MaxFaults = 0
    MaxContract = 1
    Sessions <- Apart
PROPERTY OnlyReviewResolves
CHECK_DEADLOCK FALSE
