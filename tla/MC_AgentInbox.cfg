SPECIFICATION Spec
CONSTANTS
    m1 = m1  m2 = m2  i1 = i1  i2 = i2
    Msg = {m1, m2}
    Inst = {i1}
    NoMsg = NoMsg
    MaxTurns = 2
    MaxPending = 2
    MaxJobs = 0
    MaxFaults = 1
    Promotable = {m2}
    Refusable = {m1}
    Withdrawable = {}
    MayStop = TRUE
    Kinds = {"stall"}
INVARIANTS
    TypeOK
    HeardOnce
    EndedTurnWroteAll
    StartedInOrder
    NothingStranded
PROPERTIES
    TranscriptKept
CHECK_DEADLOCK FALSE
