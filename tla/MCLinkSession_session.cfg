SPECIFICATION Spec
CONSTANTS
    Reqs = {r1, r2}
    Sessions = {s1, s2}
    None = None
    KeyMode = "preset"
    TimeoutOn = TRUE
    Persistent = TRUE
    StoreMayFail = FALSE
    SendMayThrow = FALSE
    Ordered = TRUE
    Lossy = FALSE
    MaxDups = 0
    QuietAfterClose = TRUE
    Batched = FALSE
    OneSession = FALSE
    ExtraSessions = {s1, s2}
    AnswerKinds = {"ok", "error"}
    r1 = r1
    r2 = r2
    s1 = s1
    s2 = s2
SYMMETRY Symmetry
INVARIANTS
    SessionCoherent
    NoResurrection
    QuietSessionLive
