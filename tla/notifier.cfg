SPECIFICATION FairSpec
CONSTANTS
    Conn = {1}
    Callers = {"api"}
    Status = {"Available", "Faulted"}
    Faults = {"fault:HighTemperature"}
    Capacity = 2
    MaxChanges = 2
    MaxPath = 2
    MaxDrops = 1
    MaxFailures = 1
    MaxTriggers = 1
CHECK_DEADLOCK FALSE
INVARIANTS
    TypeOK
    MarkIsDelivered
    Converged
PROPERTY SettlesWhenUp
