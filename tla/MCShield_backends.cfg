SPECIFICATION OrderedSpec
CONSTANTS
    r1 = r1
    r2 = r2
    r3 = r3
    r4 = r4
    a = a
    b = b
    c = c
    Req = {r1, r2, r3, r4}
    IP = {a, b, c}
    Arrival <- FourRequests
    Clients <- ThreeClients
    NProxies = 2
    backendFlight = 1
    backendQueue = 0
    maxRequests = 2
    maxRate = 1
    reqTime = 1
    reqTimeout = 2
    countWeight = 2
    MaxTime = 4
    MaxLost = 1
INVARIANTS
    TypeOK
    BackendBound
    WorkConserving
    PoliteNeverRejected
PROPERTIES
    BoundedOvertaking
    QueueDrains
CHECK_DEADLOCK FALSE
