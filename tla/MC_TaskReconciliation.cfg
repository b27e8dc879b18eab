SPECIFICATION Spec
CONSTANTS
    Call = {k1, k2, k3}
    NoCall = NoCall
    Command = {c1}
    Evidence = {e1}
    System = System
    Sweep = {s1}
    UpstreamId = {i1}
    MaxWindow = 1
    NoEntry = NoEntry
CHECK_DEADLOCK FALSE
SYMMETRY Interchangeable
INVARIANTS
    TypeOK
    AnswersAgree
PROPERTIES
    LedgerKept
    HolderIsLeftAlone
    ResultIsStable
    RefundedWorkIsBlank
