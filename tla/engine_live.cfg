\* NatsMQEngine, liveness: a message that blocks itself and one that competes with it, one crash, one node that closes.
CONSTANTS
    m1 = m1
    m2 = m2
    a = a
    b = b
    n1 = n1
    n2 = n2
    Msg <- MCMsg
    Node <- MCNode
    Key <- MCKey
    Keys <- MCSameKey
    Limit <- MCLimit
    MaxTtl = 1
    MaxDeliver = 2
    ConsumerMaxDeliver = 2
    Garbled = {}
    MayClose = {n1}
    Faults = {"crash"}
    MaxFaults = 1
    TtlCoversHandler = TRUE
    Absent = Absent
SPECIFICATION Spec
PROPERTIES
    EventuallySettled
    
CHECK_DEADLOCK TRUE
