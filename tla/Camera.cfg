SPECIFICATION Spec
CONSTANTS
    c1 = c1
    c2 = c2
    Cameras = {c1, c2}
    Sites <- Yards
    Period = 1
    EveryN = 2
    WarmUp = 1
    Cooldown = 2
    MaxFrames = 5
    MaxTime = 4
CHECK_DEADLOCK FALSE
INVARIANTS
    Paced
    OwnTransport
    MotionReachesAlpr
