\* A file that a full disk or a power loss cut inside a line.
SPECIFICATION StreamSpec
CONSTANTS
    FlushEvery = 2
    Stride = 2
    MaxFrames = 3
    MaxFiles = 1
    MaxFailures = 1
    ReadLive = FALSE
    Readers = {r1}
INVARIANTS CrashReadable
CHECK_DEADLOCK FALSE
