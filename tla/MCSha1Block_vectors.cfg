SPECIFICATION Spec
CONSTANT Inputs <- Calls
INVARIANTS
    TypeOK
    ReturnsSha1
