\* Frames with a page fragment.
SPECIFICATION Spec
CONSTANTS
    TxSize = 6
    Laps = 2
    MaxFrags = 1
    CoalFrames = 3
    s1 = s1
    s2 = s2
    Skbs <- MCSkbs
    NoSkb = NoSkb
INVARIANT BufferLive
