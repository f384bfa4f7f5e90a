SPECIFICATION Spec
CONSTANTS
    Capacity = 1
    MaxMailbox = 1
    MaxSubmitted = 1
    MaxAuthorize <- OutOfTurn
INVARIANT
    ClientWasAuthorized
CHECK_DEADLOCK FALSE
