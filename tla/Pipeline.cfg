SPECIFICATION FairSpec
CONSTANTS
    NumCameras = 2
    w1 = w1
    w2 = w2
    Workers <- TwoWorkers
    Live = {}
    BadSources = {}
    QueueCapacity = 1
    EveryN = 1
    Consolidate = TRUE
    MinSightings = 1
    MaxPlates = 1
    Uplink = TRUE
    Api = FALSE
    Display = FALSE
    AlprOn = {1}
    Switchable = {}
    None = None
    MaxFrames = 2
INVARIANTS
    JobsRunOnce
    DropsCounted
    ClosedOnlyWhenDone
    ReadingsReportedOnce
PROPERTIES
    KeepsPromise
    VideosEnd
