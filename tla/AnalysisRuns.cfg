SPECIFICATION Spec
CONSTANTS
    Sessions = {a, b}
    Runs = {r1}
    MaxSets = 2
    MaxFaults = 1
    NoSession = NoSession
    NoDefinition = NoDefinition
INVARIANTS ArtifactsAreWhole SessionsAreWhole OutcomeIsTrue
PROPERTIES HistoryIsKept RunsEnd
CHECK_DEADLOCK FALSE
