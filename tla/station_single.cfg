SPECIFICATION StationSpec
CONSTANTS
    Restarts = TRUE
    Requests = {"Reset"}
    MaxConnectors = 2
    MultiEVSE = FALSE
    Tags = {t1}
    NoTag = NoTag
    Parents = {NoTag}
    NoStart = NoStart
    ReservationIds = {r1, r2}
    AvailabilityTypes = {"Inoperative"}
    StopOnDisconnect = {FALSE}
    FaultOps = FALSE
    LockOps = FALSE
    MaxEnergy = 1
    Deltas = {0}
SYMMETRY Symmetry
INVARIANTS
    IInv
    StopsFirst
PROPERTIES
    ReservationFrees
