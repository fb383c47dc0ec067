SPECIFICATION Spec
CONSTANTS
    Calls = {c1, c2}
    Devices = {d1, d2}
    None = None
    Gone = Gone
    ChunkSize = 2
    MaxSignedTxLen = 4
    Lengths = {3, 5}
    Moves = 2
SYMMETRY MCSymmetry
CHECK_DEADLOCK FALSE
INVARIANT SignedAsAsked
INVARIANT Truthful
INVARIANT HandlesReturned
