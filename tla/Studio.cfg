SPECIFICATION Spec
CONSTANTS
    Files <- TwoFiles
    Scans <- OneScan
    Within <- Texts
    NoAddress = 0
    MaxCameras = 3
    MaxNodes = 2
    MaxRuns = 2
    Calls = {1}
CHECK_DEADLOCK FALSE
INVARIANTS
    EngineUnderControl
    LiveStateOfThisRun
    EditsReachTheirCamera
PROPERTIES
    ExitIsNoticed
