SPECIFICATION Spec
CONSTANTS
    c1 = c1
    c2 = c2
    p1 = p1
    p2 = p2
    None = None
    Conns <- TwoConns
    Peers <- TwoPeers
    MaxMailbox = 1
    MaxMessages = 2
    MaxQueue = 2
SYMMETRY PairSymmetry
INVARIANTS
    TypeOK
    SignatureNeverPanics
    OrderlyDelivery
    RegistrySound
    LiveConnectionRegistered
CHECK_DEADLOCK FALSE
