SPECIFICATION FairSpec

CONSTANTS
    u1 = u1
    u2 = u2
    Url = {u1, u2}
    Bytes <- TwoSizes
    Budget = 2
    FailedCap = 1
    Task = {t1, t2}
    Garbled = TRUE
    MaxWaiting = 2
    MaxEpoch = 2
    MaxClears = 1

INVARIANTS
    TypeOK
    Counted
    NoLostLoading

PROPERTIES
    TrimsToBudget
    EvictedCanReload
    LoadingEnds

CHECK_DEADLOCK FALSE
