SPECIFICATION Spec
CONSTANTS
    c1 = c1
    c2 = c2
    p1 = p1
    p2 = p2
    None = None
    Conns <- TwoConns
    Peers <- OnePeer
    MaxMailbox = 1
    MaxMessages = 1
    MaxQueue = 1
SYMMETRY ConnSymmetry
INVARIANT
    UnknownMeansNotConnected
CHECK_DEADLOCK FALSE
