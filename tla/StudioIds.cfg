SPECIFICATION Spec
CONSTANTS
    Files <- TwoFiles
    Scans <- OneScan
    Within <- Texts
    NoAddress = 0
    MaxCameras = 3
    MaxNodes = 3
    MaxRuns = 1
    Calls = {1}
CHECK_DEADLOCK FALSE
INVARIANTS
    IdsUnique
