CONSTANTS
    None = None
    Keep = Keep
    Segments = {s1, s2}
    Requests = {r1, r2}
    MaxVersion = 2
SPECIFICATION Spec
SYMMETRY MCSymmetry
CHECK_DEADLOCK FALSE
PROPERTIES ReorderChecksVersion
