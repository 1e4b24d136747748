\* Every marker accepted is written: refuted by the code, without any fault.
SPECIFICATION Spec
CONSTANTS
    PublishEvery = 1
    MaxFrames = 1
    MaxMarkers = 1
    MaxCaptures = 1
    MaxFaults = 0
INVARIANTS AcceptedMarkersAreWritten
CHECK_DEADLOCK FALSE
