SPECIFICATION Spec
CONSTANTS
    Capacity = 2
    MaxMailbox = 1
    MaxSubmitted = 2
    MaxAuthorize <- OutOfTurn
INVARIANTS
    TypeOK
    KeyArrivesAlone
    Authenticated
    DecodesWhatIsSent
\* The liveness properties state the fairness they need: HandshakeEnds holds
\* even if the other end stops for good.
PROPERTIES
    SessionSpec
    CommandsTaken
    CloseReachesOther
    HandshakeEnds
\* Both ends closed.
CHECK_DEADLOCK FALSE
