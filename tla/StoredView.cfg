\* Three frames on pages of two, two navigators, one failed task.
SPECIFICATION Spec
CONSTANTS
    Frames = 3
    PageSize = 2
    Presets = {{0, 1, 2}, {1, 2}}
    Navigators = {"search", "evidence"}
    Cancellable = {"search"}
    MaxInputs = 3
    MaxEdits = 1
    MaxFailures = 1
INVARIANTS
    PageIsExact
    SelectionIsAsked
    NobodyWaitsInVain
CHECK_DEADLOCK FALSE
