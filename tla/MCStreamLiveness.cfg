\* One connection, two output buffers, three frames, the sockets full at times.
CONSTANTS
    NumConns = 1
    NumClients = 1
    Count = 2
    Dyn = {}
    MaxSeq = 3
    MaxResize = 0
    LegacyApp = FALSE
    Backpressure = TRUE
    Pacing = TRUE
    Crashes = FALSE
SPECIFICATION FairSpec
PROPERTIES BufferAvailable DrawsFinish OwnershipContract
CHECK_DEADLOCK FALSE
