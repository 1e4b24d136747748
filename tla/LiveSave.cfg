\* Three captures and a crash.
SPECIFICATION FairSpec
CONSTANTS
    MaxLogs = 3
    MaxCrashes = 1
INVARIANTS
    LogsAreWhole
    AnnouncedIsAskedFor
PROPERTIES
    EndIsAnnounced
