SPECIFICATION Spec
CONSTANTS
    c1 = c1
    c2 = c2
    Call = {c1, c2}
    Fan <- Whole
    PerRequest <- Order
    Estimate <- Two
    Costs <- Bills
    Strict = {c2}
    Preserve = {}
    Keys = 1
    Cap <- Budgets
    PerMinute = 2
    Concurrency = 1
    Window = 1
    LeaseTTL = 0
    Cooldown = 1
    Deadline = 1
    HoldTTL = 2
    MaxFaults = 1
INVARIANTS
    WindowKept
    InFlightKept
    BudgetKept
CHECK_DEADLOCK FALSE
