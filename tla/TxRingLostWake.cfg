\* Wake-up threshold below MaxFrags, no coalescing.
SPECIFICATION Spec
CONSTANTS
    TxSize = 7
    Laps = 2
    MaxFrags = 2
    CoalFrames = 1
    s1 = s1
    s2 = s2
    Skbs <- MCSkbs
    NoSkb = NoSkb
INVARIANT EmptyRingWakes
