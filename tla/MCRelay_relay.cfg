SPECIFICATION RelaySpec
CONSTANTS
    m1 = m1
    m2 = m2
    Msgs = {m1, m2}
    None = None
    MaxParts = 2
    MaxPubs = 3
    AckAfter = 3
    Ladder <- ShortLadder
    i1 = i1
    i2 = i2
    Ids = {i1, i2}
    Total <- Sizes
    WalletKeys = {k1, k3}
    BadKeys = {k3}
    Absent = Absent
    MaxChunks = 4
    MaxPartials = 1
    MaxAssembled = 3
    StaleAfter = 1
    MaxTime = 2
INVARIANTS
    SentMeansRelayed NothingStranded WireInOrder ClosedIsFinal
    WholeOrNothing
    MemoryBounded
PROPERTIES
    ImplementsLifecycle Reconnects SendsSettle
CHECK_DEADLOCK FALSE
