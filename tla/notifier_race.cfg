SPECIFICATION Spec
CONSTANTS
    Conn = {1}
    Callers = {"api", "tick"}
    Status = {"Available", "Charging"}
    Faults = {}
    Capacity = 3
    MaxChanges = 2
    MaxPath = 1
    MaxDrops = 0
    MaxFailures = 0
    MaxTriggers = 0
CHECK_DEADLOCK FALSE
INVARIANT Converged
