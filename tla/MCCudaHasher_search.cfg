SPECIFICATION FairSpec
CONSTANTS
    Threads = 2
    Rounds = 2
    Stride = 4
    Indices = 2
    Digests <- TwoDigests
    RestMax = 1
INVARIANTS
    TypeOK
    NothingSkipped
    LargestFirstHit
PROPERTIES
    ImplementsHasher
    SearchEnds
