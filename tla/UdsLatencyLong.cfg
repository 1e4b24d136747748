\* A long response during which another request comes: refuted.
SPECIFICATION Spec
CONSTANTS
    Services = {s1}
    Subfunctions = {s1}
    Unknown = unknown
    Timeout = 2
    MaxEvidence = 1
    MaxMessages = 3
    LongLinks = {"response"}
    MaxClock = 3
INVARIANT LongResponsesFit
CHECK_DEADLOCK FALSE
