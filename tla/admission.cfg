SPECIFICATION Spec
CONSTANTS
    t1 = t1
    t2 = t2
    s1 = s1
    s2 = s2
    Tags = {t1, t2}
    NoTag = NoTag
    Savers = {s1, s2}
    Versions = {"1.6", "2.0.1"}
    Entry <- Said
    ListVersions = {1, 2}
    Offered <- Updating
    ListCap = 1
    MaxChanges = 3
SYMMETRY Symmetry
INVARIANTS
    TypeOK
    OfflineNeedsGrant
    RefusalNeedsReason
    ListAsTold
    ListOnDisk
    CacheOnDisk
CHECK_DEADLOCK FALSE
