\* A filter ends after all rows were asked for.
SPECIFICATION CacheSpec
CONSTANTS
    Messages = 1
    Attempts = 1
    MaxLoads = 1
    MaxEdits = 0
    MaxFilters = 1
    MaxWorkerFailures = 0
INVARIANTS UnfilteredShowsAll
CHECK_DEADLOCK FALSE
