SPECIFICATION CacheSpec
CONSTANTS
    Messages = 2
    Attempts = 2
    MaxLoads = 3
    MaxEdits = 2
    MaxFilters = 1
    MaxWorkerFailures = 1
INVARIANTS BelievedIsCurrent TabIsExact
PROPERTIES LoadSettles
CHECK_DEADLOCK FALSE
