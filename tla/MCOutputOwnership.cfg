CONSTANTS
    Clients = {c1, c2}
    Count = 2
    MaxSeq = 3
SPECIFICATION Spec
INVARIANTS Exclusion HeldBufferNotReissued OwnershipInv
CHECK_DEADLOCK FALSE
