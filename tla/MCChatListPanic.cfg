SPECIFICATION Spec
CONSTANTS
    a = a
    b = b
    c = c
    None = None
    Ids <- ThreeIds
    MaxLen = 5
SYMMETRY IdSymmetry
INVARIANT
    NeverPanics
CHECK_DEADLOCK FALSE
