SPECIFICATION FairSpec
CONSTANTS
    r1 = r1
    r2 = r2
    l1 = l1
    Reqs = {r1, r2}
    Logins = {l1}
    Methods = {"signTx", "signData", "signCarbonTxAndBroadcast"}
    None = None
    MaxSockets = 2
    HasReadyState = TRUE
    SendMayThrow = FALSE
    Cares <- AsksWithCare
INVARIANTS
    CallbackOnce
    AnswersMatch
    SessionOfThisSocket
PROPERTIES
    CallsHeard
CHECK_DEADLOCK FALSE
