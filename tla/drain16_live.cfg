SPECIFICATION FairSpec
CONSTANTS
    Conn = {1}
    Drainers = {d1, d2}
    Attempts = {1, 2}
    Provisional <- FromRest
    MaxSessions = 1
    MaxSamples = 1
    MaxCalls = 2
    MaxDrops = 1
    MaxRestarts = 0
PROPERTY DrainsWhenConnected
CHECK_DEADLOCK FALSE
