SPECIFICATION FairSpec
CONSTANTS
    m1 = m1  m2 = m2  i1 = i1  i2 = i2
    Msg = {m1}
    Inst = {i1, i2}
    NoMsg = NoMsg
    MaxTurns = 3
    MaxPending = 2
    MaxJobs = 1
    MaxFaults = 1
    Promotable = {}
    Refusable = {}
    Withdrawable = {m1}
    MayStop = TRUE
    Kinds = {"crash", "drain"}
INVARIANTS
    FinishedIsNotContinued
    StoppedTurnHasNoJob
PROPERTIES
    InboxRunsEmpty
    EveryTurnEnds
    JobIsReported
CHECK_DEADLOCK FALSE
