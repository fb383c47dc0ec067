SPECIFICATION Spec
CONSTANTS
    Reqs = {r1, r2}
    Sessions = {s1, s2}
    None = None
    KeyMode = "preset"
    TimeoutOn = TRUE
    Persistent = FALSE
    StoreMayFail = FALSE
    SendMayThrow = FALSE
    Ordered = TRUE
    Lossy = FALSE
    MaxDups = 0
    QuietAfterClose = TRUE
    Batched = TRUE
    OneSession = FALSE
    ExtraSessions = {}
    AnswerKinds = {"ok", "error"}
    r1 = r1
    r2 = r2
    s1 = s1
    s2 = s2
SYMMETRY Symmetry
INVARIANTS
    NoResurrection
