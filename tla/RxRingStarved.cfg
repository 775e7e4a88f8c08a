\* Any allocation may fail.
SPECIFICATION Spec
CONSTANTS
    RxSize = 3
    Laps = 3
    Budget = 3
    Starve = 4
    UseRiwt = FALSE
    f1 = f1
    f2 = f2
    Frames <- MCFrames
    Bad = Bad
    NoFrame = NoFrame
INVARIANTS
    TypeOK
    DmaHasBuffer
    NoEmptyFrame
