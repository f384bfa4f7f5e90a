SPECIFICATION Spec
CONSTANTS
    a = a
    b = b
    c = c
    None = None
    Ids <- ThreeIds
    MaxLen = 5
SYMMETRY IdSymmetry
INVARIANTS
    TypeOK
    CurrentInRange
    PagingReverses
PROPERTIES
    RemoveKeepsOthers
    RemovalAheadKeepsCurrent
\* After the panic there is nothing more to do.
CHECK_DEADLOCK FALSE
