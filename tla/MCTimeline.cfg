CONSTANTS
    None = None
    Keep = Keep
    Segments = {s1, s2, s3}
    Requests = {r1, r2, r3}
    MaxVersion = 2
SPECIFICATION Spec
SYMMETRY MCSymmetry
CONSTRAINT MCBound
CHECK_DEADLOCK FALSE
INVARIANT NoOrphans
PROPERTIES NoLostEdit EveryChangeTouches RepairsPositions ReorderMovesOne
