SPECIFICATION Spec
CONSTANTS
    Conn = {1}
    Attempts = {2}
    Provisional <- FromRemote
    MaxSessions = 1
    MaxUpdates = 1
    MaxCalls = 1
    MaxDrops = 1
    MaxRestarts = 1
    MaxResets = 0
INVARIANTS
    TypeOK
    EventsInOrder
    OfflineTold
    RejectedStartCascades
PROPERTY NothingLost
CHECK_DEADLOCK FALSE
