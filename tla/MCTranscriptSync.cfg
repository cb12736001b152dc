SPECIFICATION Spec
CONSTANTS
    Cap = 2
    MaxLen = 3
    ChunkLens = {1}
    Capacity = 1
    SilentGrowth = TRUE
    MaxNudges = 1
INVARIANTS ScreenCatchesUp
PROPERTIES NothingIsTakenBack FetchesEnd
CHECK_DEADLOCK FALSE
