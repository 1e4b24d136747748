SPECIFICATION Spec
CONSTANTS
    Frames = 2
    Batch = 1
    MaxBuilds = 3
    MaxStamps = 0
    MaxFailures = 0
    MaxKills = 0
INVARIANT EveryCurrentIsComplete
CHECK_DEADLOCK FALSE
