\* Two captures of up to three frames in a view of two; one scan raises.
SPECIFICATION FairSpec
CONSTANTS
    MaxDepth = 12
    IdBits = 29
    Bus <- MCBus
    Projects <- MCProjects
    Capacity = 2
    StreamCapacity = 1
    BatchSize = 1
    Opening = {"messages", "all"}
    MaxFrames = 3
    MaxCaptures = 2
    MaxEdits = 1
    MaxClicks = 2
    MaxFailures = 1
INVARIANTS
    ViewIsExact
PROPERTIES
    ViewSettles
CHECK_DEADLOCK FALSE
