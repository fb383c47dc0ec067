SPECIFICATION Spec
CONSTANTS
    Reqs = {r1, r2}
    Sessions = {s1}
    None = None
    KeyMode = "ecdh"
    TimeoutOn = TRUE
    Persistent = FALSE
    StoreMayFail = FALSE
    SendMayThrow = TRUE
    Ordered = FALSE
    Lossy = TRUE
    MaxDups = 1
    QuietAfterClose = FALSE
    Batched = TRUE
    OneSession = FALSE
    ExtraSessions = {}
    AnswerKinds = {"ok", "error", "malformed"}
    r1 = r1
    r2 = r2
    s1 = s1
    s2 = s2
SYMMETRY Symmetry
INVARIANTS
    PendingSound
    SealedOnly
    OnlyTheWalletSpeaks
    UnmatchedExplained
