\* The project that is open is opened again.
SPECIFICATION Spec
CONSTANTS
    MaxLogs = 1
    MaxCrashes = 0
INVARIANTS
    ReopenAsks
