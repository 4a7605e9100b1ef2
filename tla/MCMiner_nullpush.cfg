SPECIFICATION Spec
CONSTANTS
    MaxFinds = 2
    MaxRivals = 0
    MaxExits = 0
    Interrupts = TRUE
INVARIANT PushHasCommit
