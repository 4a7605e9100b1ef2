SPECIFICATION FairSpec
CONSTANTS
    MaxFinds = 2
    MaxRivals = 1
    MaxExits = 1
    Interrupts = TRUE
INVARIANTS
    TypeOK
    ParentAccepted
    OneCoinPerCommit
    PushHasCommitUnlessInterrupted
PROPERTIES
    PendingCommitStable
    RemoteFastForward
    PushSettled
    StopEnds
    UpdateConsumed
CHECK_DEADLOCK FALSE
