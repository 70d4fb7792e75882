SPECIFICATION Spec
CONSTANTS
    Conn = {1, 2}
    Attempts = {}
    Provisional <- FromRemoteAndSessionsAPI
    MaxSessions = 2
    MaxUpdates = 0
    MaxCalls = 2
    MaxDrops = 0
    MaxRestarts = 1
    MaxResets = 1
INVARIANTS
    TransactionsClosed
CHECK_DEADLOCK FALSE
