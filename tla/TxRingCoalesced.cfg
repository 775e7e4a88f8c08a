\* Three segments are coalesced into one interrupt.
SPECIFICATION FairSpec
CONSTANTS
    TxSize = 4
    Laps = 2
    MaxFrags = 1
    CoalFrames = 3
    s1 = s1
    s2 = s2
    Skbs <- MCSkbs
    NoSkb = NoSkb
PROPERTY OldestReclaimed
