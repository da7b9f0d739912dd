CONSTANTS
    N = 3
    Presets = {iosc}
    None = None
    NoPidLimit = 2
    MaxWait = 2
    MaxFaults = 1
SPECIFICATION FairSpec
INVARIANTS TypeOK OneSwitch UpIsRunning
PROPERTIES NewestWins LastRecovers
CHECK_DEADLOCK FALSE
