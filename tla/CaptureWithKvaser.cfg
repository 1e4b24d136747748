\* One capture on one Kvaser channel: three frames, one storage fault.
SPECIFICATION SystemSpec
CONSTANTS
    PublishEvery = 2
    MaxFrames = 3
    MaxMarkers = 0
    MaxCaptures = 1
    MaxFaults = 1
INVARIANTS
    SessionIsPrefixOfBus
    BusIsOwned
PROPERTIES
    ImplementsCapture
    FailureEndsCapture
    BusIsReleased
CHECK_DEADLOCK FALSE
