SPECIFICATION StationSpec
CONSTANTS
    Restarts = FALSE
    Requests = {"Availability", "Reset", "Stop", "Unlock16", "Unlock201"}
    MaxConnectors = 1
    MultiEVSE = TRUE
    Tags = {t1, t2}
    NoTag = NoTag
    Parents = {t1, t2, NoTag}
    NoStart = NoStart
    ReservationIds = {r1}
    AvailabilityTypes = {"Operative", "Inoperative", "Unknown"}
    StopOnDisconnect = {TRUE, FALSE}
    FaultOps = TRUE
    LockOps = TRUE
    MaxEnergy = 2
    Deltas = {1, 2}
SYMMETRY Symmetry
INVARIANTS
    StationTypeOK
    ReportedIsCurrent
    StopsFirst
PROPERTIES
    DeferredApplied
    PluggedSessionKept
    InoperativeStays
    StartAnnounced
