CONSTANTS
    NumConns = 2
    NumClients = 2
    Count = 2
    Dyn = {}
    MaxSeq = 2
    MaxResize = 0
    LegacyApp = FALSE
    Backpressure = FALSE
    Pacing = FALSE
    Crashes = FALSE
SPECIFICATION Spec
INVARIANT FramesReadWhole
CHECK_DEADLOCK FALSE
