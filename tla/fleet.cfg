SPECIFICATION FairSpec
CONSTANTS
    Callers = {t1, t2}
    MaxOperations = 4
INVARIANTS
    TypeOK
    WritersApart
    Reachable
PROPERTIES
    NotResurrected
    OperationsEnd
CHECK_DEADLOCK FALSE
