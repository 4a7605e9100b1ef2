SPECIFICATION FairSpec
CONSTANTS
    q1 = q1
    q2 = q2
    None = None
    Node = {n1, n2}
    Req = {q1, q2}
    RowNames = {"gdb", "carl"}
    Gdb = "gdb"
    Stmt <- Mixed
    MaxElections = 1
    MaxCrashes = 1
INVARIANT TypeOK
PROPERTIES
    EveryRequestEnds
    ImplementsTable
