SPECIFICATION Spec
CONSTANTS
    Token = {t1, t2}
    Worker = {w1, w2}
    NoToken = NoToken
    NoWorker = NoWorker
    NoCandidate = NoCandidate
    Images = 2
    MaxAttempts = 2
    MaxCalls = 3
    AsyncRoutes = {TRUE}
    Stoppable = {}
CHECK_DEADLOCK FALSE
SYMMETRY Interchangeable
PROPERTIES
    NoRepeatWhileUnresolved
