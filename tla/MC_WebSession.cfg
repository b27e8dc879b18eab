SPECIFICATION Spec
CONSTANTS
    Tab = {t1, t2}
    Key = {k1, k2, k3}
    NoKey = NoKey
    Ops = {"password", "others", "logout"}
    MaxChanges = 1
    MaxStray = 1
CHECK_DEADLOCK FALSE
SYMMETRY Interchangeable
ACTION_CONSTRAINT NothingNewAfterTheEnd
ACTION_CONSTRAINT FewAtOnce
INVARIANTS
    TypeOK
    Recoverable
    RefreshWorks
PROPERTIES
    SignInKept
