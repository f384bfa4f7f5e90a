\* Liveness: no symmetry. Two connections with one peer.
SPECIFICATION FairSpec
CONSTANTS
    c1 = c1
    c2 = c2
    p1 = p1
    p2 = p2
    None = None
    Conns <- TwoConns
    Peers <- OnePeer
    MaxMailbox = 1
    MaxMessages = 1
    MaxQueue = 1
PROPERTIES
    SignatureServed
    CloseReported
    DisconnectHonoured
CHECK_DEADLOCK FALSE
