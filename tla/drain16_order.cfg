SPECIFICATION Spec
CONSTANTS
    Conn = {1}
    Drainers = {d1, d2}
    Attempts = {2}
    Provisional <- FromRest
    MaxSessions = 1
    MaxSamples = 0
    MaxCalls = 2
    MaxDrops = 1
    MaxRestarts = 0
INVARIANT StopBehindStart
CHECK_DEADLOCK FALSE
