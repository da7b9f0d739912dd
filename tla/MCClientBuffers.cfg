CONSTANTS
    NBuf = 2
    MaxResize = 1
    MaxSwaps = 3
    MaxPaints = 3
    MaxDrops = 1
SPECIFICATION FairSpec
INVARIANTS TypeOK DrawnBufferFree BusyAccounted DestroyedNotShown GivenBackNoticed
PROPERTY SwapProceeds
CHECK_DEADLOCK FALSE
