SPECIFICATION Spec
CONSTANTS
    Token = {t1, t2, t3}
    Worker = {w1, w2}
    NoToken = NoToken
    NoWorker = NoWorker
    NoCandidate = NoCandidate
    Images = 1
    MaxAttempts = 2
    MaxCalls = 2
    AsyncRoutes = {TRUE, FALSE}
    Stoppable = {}
CHECK_DEADLOCK FALSE
SYMMETRY Interchangeable
INVARIANTS
    TypeOK
    HoldSettledOnce
    AttemptBudget
    ScanIsCurrent
PROPERTIES
    TerminalIsFinal
    NoRepeatWhileUnresolved
    UnresolvedHoldKept
    SettlementKept
    StoredIdsOnlyPolled
