\* LocalConcurrencyStore, extend always in time.
CONSTANTS
    Lock = {v1, v2, v3, v4}
    r1 = r1
    r2 = r2
    r3 = r3
    Resource <- MCResource
    Limit <- MCLimit
    MaxTtl = 2
    LateExtend = FALSE
    Absent = Absent
SPECIFICATION Spec
INVARIANTS
    LimitRespected
    CountMatches
PROPERTIES
    OnlyOwnerEnds
    ExpiredReclaimed
    ImplementsSemaphore
CHECK_DEADLOCK TRUE
