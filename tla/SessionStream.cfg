\* One reader, two files under one name, two failures.
SPECIFICATION StreamSpec
CONSTANTS
    FlushEvery = 2
    Stride = 2
    MaxFrames = 3
    MaxFiles = 2
    MaxFailures = 2
    ReadLive = TRUE
    Readers = {r1}
INVARIANTS
    ReadersAreExact WriterIndexIsBuilt
CHECK_DEADLOCK FALSE
