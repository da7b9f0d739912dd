CONSTANTS
    Kinds = {text, png}
    GenMax = 2
    MaxCopies = 2
    MaxDrops = 1
    MaxDetach = 1
    MaxRestart = 1
SPECIFICATION FairSpec
INVARIANTS TypeOK SnapshotIsStore OneCopyPerSide Agreement
PROPERTY FallsSilent
CHECK_DEADLOCK FALSE
