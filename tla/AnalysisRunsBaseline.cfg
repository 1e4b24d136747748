SPECIFICATION Spec
CONSTANTS
    Sessions = {a, b}
    Runs = {r1}
    MaxSets = 1
    MaxFaults = 0
    NoSession = NoSession
    NoDefinition = NoDefinition
INVARIANTS ReopenedFits
CHECK_DEADLOCK FALSE
