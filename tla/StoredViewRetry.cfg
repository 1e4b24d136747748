\* A navigator after a page that could not be loaded: refuted.
SPECIFICATION Spec
CONSTANTS
    Frames = 3
    PageSize = 2
    Presets = {{0, 1, 2}, {1, 2}}
    Navigators = {"search", "evidence"}
    Cancellable = {"search"}
    MaxInputs = 2
    MaxEdits = 1
    MaxFailures = 1
INVARIANTS
    SelectionIsAlwaysAsked
CHECK_DEADLOCK FALSE
