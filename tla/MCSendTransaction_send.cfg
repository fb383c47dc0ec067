SPECIFICATION SendSpec
CONSTANTS
    Calls = {a1, a2}
    Hosts = {n1, n2}
    None = None
    Ttl = 1
    HostMoves = TRUE
    MaxTime = 1
    MaxPrice = 1
    Pages = 2
    MaxPages = 2
SYMMETRY MCSymmetry
INVARIANTS
    PricesHold SentOnce PreflightHonest PagesWhole
CHECK_DEADLOCK FALSE
