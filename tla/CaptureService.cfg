SPECIFICATION FairSpec
CONSTANTS
    PublishEvery = 2
    MaxFrames = 2
    MaxMarkers = 2
    MaxCaptures = 2
    MaxFaults = 2
INVARIANTS
    WrittenBeforeShown
    StoppedIsComplete
    FooterIsHonest
    MarkersKept
PROPERTIES
    StopEnds
    TerminalIsFinal
    ImplementsRecorder
CHECK_DEADLOCK FALSE
