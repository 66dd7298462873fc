SPECIFICATION ReportingSpec
CONSTANTS
    Sightings <- Scene
    MaxEditDistance = 1
    MaxCenterDistance = 2
    FinalizeAfter = 1
    MaxTrack = 2
    MinSightings = 2
    MaxReadings = 4
    MaxTime = 3
    Plates = {p1, p2}
    Window = 2
CHECK_DEADLOCK FALSE
INVARIANTS
    OneTrackPerPlate
    MajorityWins
    ImageShowsBox
    DistanceCountsEdits
    ReportsApart
    WithheldOnlyInWindow
PROPERTY
    KeepsPromise
