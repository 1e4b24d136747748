\* A request whose page something else replaced: refuted.
SPECIFICATION Spec
CONSTANTS
    Frames = 3
    PageSize = 2
    Presets = {{0, 1, 2}, {1, 2}}
    Navigators = {"search", "evidence"}
    Cancellable = {"search"}
    MaxInputs = 2
    MaxEdits = 1
    MaxFailures = 1
INVARIANTS
    RequestsAreAnswered
CHECK_DEADLOCK FALSE
