SPECIFICATION Spec
CONSTANTS
    Conn = {1}
    Drainers = {d1, d2}
    Attempts = {1, 2}
    Provisional <- FromRestAndSessionsAPI
    MaxSessions = 1
    MaxSamples = 0
    MaxCalls = 2
    MaxDrops = 1
    MaxRestarts = 1
SYMMETRY DrainerSymmetry
INVARIANTS
    TypeOK
    InOrder
    DeliveredLeaves
PROPERTY NothingLost
CHECK_DEADLOCK FALSE
