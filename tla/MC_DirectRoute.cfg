SPECIFICATION FairSpec
CONSTANTS
    c1 = c1
    c2 = c2
    Call = {c1}
    Fan <- Split
    PerRequest <- Whole
    Estimate <- Two
    Costs <- Bills
    Strict = {}
    Preserve = {}
    Keys = 2
    Cap <- Budgets
    PerMinute = 2
    Concurrency = 1
    Window = 1
    LeaseTTL = 0
    Cooldown = 1
    Deadline = 1
    HoldTTL = 2
    MaxFaults = 1
INVARIANTS
    TypeOK
    UnsureIsReported
PROPERTIES
    HoldOutlivesDoubt
    KeySwitchIsClean
    EveryCallEnds
CHECK_DEADLOCK FALSE
