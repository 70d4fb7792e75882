SPECIFICATION Spec
CONSTANTS
    Connectors = {1}
    Versions = {"1.6", "2.0.1"}
    Catalogue <- All
    Attached <- Few
    Filters <- SomeFilters
    ProfileCap = 1
    Cycle = 2
    Window = 4
    Horizon = 1
    MaxSessions = 2
    MaxRequests = 2
    MaxRestarts = 1
    MaxEvents = 4
INVARIANTS
    TypeOK
    ScheduleForetells
    LimitsOnlyItsOwn
CHECK_DEADLOCK FALSE
