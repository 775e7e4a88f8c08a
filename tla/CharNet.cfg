\* Every step of a load may fail.  A failed registration of the driver ends a
\* behaviour, the model says nothing of what follows.
SPECIFICATION Spec
CONSTANTS
    Addrs <- TwoAddrs
    Regs <- AllRegs
    Values <- ThreeValues
    NoPhy = 3
    PhyId = 2
    Timeout = 2
    MaxWait = 3
    Wrap = 7
    Failing <- AllFail
    MaxFiles = 1
    MaxEnables = 1
CHECK_DEADLOCK FALSE
INVARIANTS
    FopsHaveCode
    AccessClocked
    BusNotFreed
PROPERTIES
    MemoryImplemented
    NoFalseTimeout
    PhyChosen
    LoadEnds
