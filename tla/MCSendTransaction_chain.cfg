SPECIFICATION SendSpec
CONSTANTS
    Calls = {a1, a2}
    Hosts = {n1, n2}
    None = None
    Ttl = 1
    HostMoves = TRUE
    MaxTime = 1
    MaxPrice = 0
    Pages = 1
    MaxPages = 1
INVARIANT PricesOfThisChain
CHECK_DEADLOCK FALSE
