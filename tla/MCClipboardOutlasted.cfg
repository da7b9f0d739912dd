CONSTANTS
    Kinds = {text, png}
    GenMax = 3
    MaxCopies = 2
    MaxDrops = 1
    MaxDetach = 0
    MaxRestart = 0
SPECIFICATION Spec
PROPERTY DesktopWins
CHECK_DEADLOCK FALSE
