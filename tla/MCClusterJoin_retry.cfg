SPECIFICATION FairSpec
CONSTANTS
    n1 = n1
    n2 = n2
    n3 = n3
    n4 = n4
    n5 = n5
    Node = {n1, n2, n3}
    First = n1
    Address <- Addresses
    Alnum = {"a", "b", "h", "1"}
    None = None
    MaxCrashes = 1
    MaxElections = 0
PROPERTY JoinSurvivesCrash
CHECK_DEADLOCK FALSE
