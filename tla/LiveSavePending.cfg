\* The row cannot be written after the files were moved.
SPECIFICATION Spec
CONSTANTS
    MaxLogs = 1
    MaxCrashes = 0
INVARIANTS
    PendingUntilDecided
