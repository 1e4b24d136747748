\* Loads and requests end: two inputs.
SPECIFICATION FairSpec
CONSTANTS
    Frames = 3
    PageSize = 2
    Presets = {{0, 1, 2}, {1, 2}}
    Navigators = {"search", "evidence"}
    Cancellable = {"search"}
    MaxInputs = 2
    MaxEdits = 1
    MaxFailures = 1
PROPERTIES
    PageSettles
    RequestsEnd
CHECK_DEADLOCK FALSE
