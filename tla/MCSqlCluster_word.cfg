SPECIFICATION Spec
CONSTANTS
    q1 = q1
    q2 = q2
    None = None
    Node = {n1, n2}
    Req = {q1, q2}
    RowNames = {"gdb", "carl"}
    Gdb = "gdb"
    Stmt <- LongWords
    MaxElections = 0
    MaxCrashes = 0
SYMMETRY Symmetry
INVARIANT AnswerIsSql
