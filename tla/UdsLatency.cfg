\* Four messages of one long and one short service within a window of two.
SPECIFICATION Spec
CONSTANTS
    Services = {s1}
    Subfunctions = {s1}
    Unknown = unknown
    Timeout = 2
    MaxEvidence = 1
    MaxMessages = 4
    LongLinks = {"response"}
    MaxClock = 3
INVARIANTS
    EachMessageOnce
    PairsAreTrue
    EvidenceIsBest
CHECK_DEADLOCK FALSE
