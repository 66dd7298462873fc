SPECIFICATION FairSpec
CONSTANTS
    NumCameras = 1
    w1 = w1
    w2 = w2
    Workers <- TwoWorkers
    Live = {1}
    BadSources = {}
    QueueCapacity = 2
    EveryN = 1
    Consolidate = FALSE
    MinSightings = 1
    MaxPlates = 1
    Uplink = TRUE
    Api = TRUE
    Display = TRUE
    AlprOn = {}
    Switchable = {1}
    None = None
    MaxFrames = 2
INVARIANTS
    UplinkMissesNoReport
    RingMatchesCount
    ShutdownInOrder
PROPERTIES
    StopEndsRun
    JobsAreServed
