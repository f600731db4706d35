SPECIFICATION Spec
CONSTANTS
    None = None
    MaxAutoPanes = 3
    MinParts = 20
    AppIds = {"files", "viewer", "home"}
    MaxDepth = 6
    Takeover = {"home"}
    Builtins <- TwoBuiltins
    ProjectOpenPreset <- OpenProject
    Starts <- FewStarts
    Names <- TypedNames
    Drags <- DragsOfTwo
    BareEdgeDrops = FALSE
    MaxSaves = 2
INVARIANTS TreeStands SavedIsListed
CHECK_DEADLOCK FALSE
