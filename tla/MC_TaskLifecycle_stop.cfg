SPECIFICATION FairSpec
CONSTANTS
    Token = {t1, t2}
    Worker = {w1}
    NoToken = NoToken
    NoWorker = NoWorker
    NoCandidate = NoCandidate
    Images = 1
    MaxAttempts = 2
    MaxCalls = 2
    AsyncRoutes = {TRUE}
    Stoppable = {w1}
CHECK_DEADLOCK FALSE
INVARIANTS
    HoldSettledOnce
PROPERTIES
    OrphanIsRecovered
