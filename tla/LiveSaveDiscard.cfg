\* A log whose discard has failed is saved.
SPECIFICATION Spec
CONSTANTS
    MaxLogs = 1
    MaxCrashes = 0
INVARIANTS
    SavedIsComplete
