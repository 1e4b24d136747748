\* Two threads open a finished session that has no index yet.
SPECIFICATION StreamSpec
CONSTANTS
    FlushEvery = 2
    Stride = 2
    MaxFrames = 1
    MaxFiles = 1
    MaxFailures = 0
    ReadLive = FALSE
    Readers = {r1, r2}
INVARIANTS CompletedSessionOpens
CHECK_DEADLOCK FALSE
