SPECIFICATION FairSpec
CONSTANTS
    Reqs = {r1, r2}
    Sessions = {s1}
    None = None
    KeyMode = "preset"
    TimeoutOn = TRUE
    Persistent = TRUE
    StoreMayFail = TRUE
    SendMayThrow = FALSE
    Ordered = TRUE
    Lossy = FALSE
    MaxDups = 0
    QuietAfterClose = TRUE
    Batched = FALSE
    OneSession = FALSE
    ExtraSessions = {}
    AnswerKinds = {"ok"}
    r1 = r1
    r2 = r2
    s1 = s1
    s2 = s2
PROPERTIES
    ImplementsLifecycle
    RequestsSettle
    DeadSessionDropped
