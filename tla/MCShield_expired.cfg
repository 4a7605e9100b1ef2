SPECIFICATION OrderedSpec
CONSTANTS
    r1 = r1
    r2 = r2
    r3 = r3
    r4 = r4
    a = a
    b = b
    c = c
    Arrival <- FourRequests
    Clients <- TwoClients
    Req = {r1, r2, r3, r4}
    IP = {a, b}
    NProxies = 1
    backendFlight = 1
    backendQueue = 1
    maxRequests = 2
    maxRate = 1
    reqTime = 1
    reqTimeout = 2
    countWeight = 2
    MaxTime = 3
    MaxLost = 0
PROPERTY ExpiredNotForwarded
CHECK_DEADLOCK FALSE
