\* Three boards, a separate wake-up line; opening may fail at any step.
SPECIFICATION PltfrSpec
CONSTANTS
    Lines <- OneLine
    Failing <- AllSteps
    Boards <- TwoBoards
    LinkModes <- TwoModes
    BootRate = 24000000
INVARIANTS
    ClocksPaired
    AdjustClocked
    PhyAwake
    SpeedAgrees
    RemoveStopsMac
    MdcWithinLimit
PROPERTIES
    PowerCut
