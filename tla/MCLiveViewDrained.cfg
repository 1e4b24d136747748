\* A full table of twenty rows loses two at once, or the one or two it has.
SPECIFICATION Spec
CONSTANTS
    MaxDepth = 12
    IdBits = 29
    Bus <- MCBus
    Projects <- MCProjects
    Capacity = 20
    StreamCapacity = 5
    BatchSize = 8
    Opening = {"all"}
    MaxFrames = 21
    MaxCaptures = 1
    MaxEdits = 0
    MaxClicks = 1
    MaxFailures = 0
INVARIANTS
    ViewIsExact
CHECK_DEADLOCK FALSE
