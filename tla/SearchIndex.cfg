SPECIFICATION Spec
CONSTANTS
    Frames = 3
    Batch = 2
    MaxBuilds = 2
    MaxStamps = 1
    MaxFailures = 1
    MaxKills = 1
INVARIANTS IndexFollowsSession SearchSeesAll
PROPERTIES WorkIsKept WaitingEnds
CHECK_DEADLOCK FALSE
