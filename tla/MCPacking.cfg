CONSTANTS
    None = None
    Keep = Keep
    Items = {i1, i2}
    Requests = {r1, r2, r3}
    MaxQuantity = 2
    Reused = {i2}
SPECIFICATION Spec
SYMMETRY MCSymmetry
CHECK_DEADLOCK FALSE
INVARIANTS UnlockedCheckSuffices OnlyDropsDeadlock
PROPERTY EditsKeepProgress
