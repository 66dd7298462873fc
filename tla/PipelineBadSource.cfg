SPECIFICATION FairSpec
CONSTANTS
    NumCameras = 2
    w1 = w1
    w2 = w2
    Workers <- OneWorker
    Live = {}
    BadSources = {1}
    QueueCapacity = 1
    EveryN = 1
    Consolidate = TRUE
    MinSightings = 1
    MaxPlates = 1
    Uplink = TRUE
    Api = FALSE
    Display = FALSE
    AlprOn = {2}
    Switchable = {}
    None = None
    MaxFrames = 1
PROPERTIES
    LastOutCloses
