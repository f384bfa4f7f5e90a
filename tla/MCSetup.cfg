SPECIFICATION Spec
CONSTANTS
    p1 = p1
    p2 = p2
    n1 = n1
    n2 = n2
    i1 = i1
    i2 = i2
    i3 = i3
    a1 = a1
    a2 = a2
    Home = Home
    None = None
    Fresh = "loose"
    Procs <- TwoProcs
    Names <- TwoNames
    Ids <- TwoIds
    Ports <- TwoPorts
SYMMETRY SetupSymmetry
INVARIANTS
    TypeOK
    StoreKeepsSaved
    IdentityIsOwn
    ServedIsReachable
