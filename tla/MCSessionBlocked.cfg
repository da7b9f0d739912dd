CONSTANTS
    N = 3
    Presets = {iosc}
    None = None
    NoPidLimit = 2
    MaxWait = 2
    MaxFaults = 1
SPECIFICATION FairSpec
INVARIANT NeverBlocked
CHECK_DEADLOCK FALSE
