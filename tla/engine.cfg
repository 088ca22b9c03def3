\* NatsMQEngine, one fault of any kind, locks that outlive their handlers.
CONSTANTS
    m1 = m1
    m2 = m2
    a = a
    b = b
    n1 = n1
    n2 = n2
    Msg <- MCMsg
    Node <- MCNode
    Key <- MCKey
    Keys <- MCKeys
    Limit <- MCLimit
    MaxTtl = 1
    MaxDeliver = 2
    ConsumerMaxDeliver = 2
    Garbled = {}
    MayClose = {n1}
    Faults = {"crash", "stall", "store", "metrics", "dls"}
    MaxFaults = 1
    TtlCoversHandler = TRUE
    Absent = Absent
SPECIFICATION Spec
INVARIANTS
    TypeOK
    AtMostNWorkers
    NoLeakedLock
    RepeatsOnlyIfCutOff
    PoisonDeadLettered

    
CHECK_DEADLOCK TRUE
