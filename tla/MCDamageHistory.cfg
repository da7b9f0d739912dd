CONSTANTS
    Cells = {c1, c2}
    Count = 2
    MaxFrames = 7
SPECIFICATION Spec
INVARIANTS TypeOK FrameComplete Recoverable
SYMMETRY CellSymmetry
