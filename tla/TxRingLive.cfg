\* Every frame asks for its interrupt (no coalescing).
SPECIFICATION FairSpec
CONSTANTS
    TxSize = 4
    Laps = 2
    MaxFrags = 1
    CoalFrames = 1
    s1 = s1
    s2 = s2
    Skbs <- MCSkbs
    NoSkb = NoSkb
INVARIANTS
    NoHardError
    NoStrandedQueue
PROPERTIES
    QueueRestarts
    OldestReclaimed
