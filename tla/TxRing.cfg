\* Three-segment frames on a ring whose wake-up threshold is below MaxFrags.
SPECIFICATION Spec
CONSTANTS
    TxSize = 7
    Laps = 2
    MaxFrags = 2
    CoalFrames = 3
    s1 = s1
    s2 = s2
    Skbs <- MCSkbs
    NoSkb = NoSkb
SYMMETRY SkbSymmetry
INVARIANTS
    TypeOK
    NoOverrun
    WholeFrames
    SkbLedger
    ReclaimSent
    NoLostKick
    NoLockCycle
    HeadLive
    NoLostInterrupt
PROPERTY FlowControl
