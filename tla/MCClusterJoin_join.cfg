SPECIFICATION FairSpec
CONSTANTS
    n1 = n1
    n2 = n2
    n3 = n3
    n4 = n4
    n5 = n5
    Node = {n1, n2, n3, n4, n5}
    First = n1
    Address <- Addresses
    Alnum = {"a", "b", "h", "1"}
    None = None
    MaxCrashes = 2
    MaxElections = 1
INVARIANTS
    TypeOK
    ServesAsMember
    AbsentAtMostHalf
PROPERTIES
    ClusterForms
    JoinEnds
CHECK_DEADLOCK FALSE
