SPECIFICATION Spec
CONSTANTS
    Call = {k1, k2}
    NoCall = NoCall
    Command = {c1, c2}
    Evidence = {e1}
    System = System
    Sweep = {}
    UpstreamId = {i1}
    MaxWindow = 0
    NoEntry = NoEntry
CHECK_DEADLOCK FALSE
SYMMETRY Interchangeable
PROPERTIES
    IdsAreQueriedFirst
