\* One request that nobody answers, one that is under way when the session ends.
SPECIFICATION Spec
CONSTANTS
    Services = {s1}
    Subfunctions = {}
    Unknown = unknown
    Timeout = 2
    MaxEvidence = 1
    MaxMessages = 3
    LongLinks = {}
    MaxClock = 3
INVARIANTS EvidenceAsReported
CHECK_DEADLOCK FALSE
