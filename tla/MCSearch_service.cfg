SPECIFICATION FairSpec
CONSTANTS
    f1 = f1
    f2 = f2
    f3 = f3
    i1 = i1
    i2 = i2
    p1 = p1
    q1 = q1
    NumNodes = 2
    File = {f1, f2, f3}
    Attr <- Attrs
    Text <- Lines
    Req = {i1, i2, p1, q1}
    Op <- Ops
    Order <- Clients
    MaxFaults = 1
INVARIANTS
    TypeOK
    PollIsTrue
PROPERTIES
    ImplementsCodeSearch
    IndexTakesEffect
    EveryRequestEnds
