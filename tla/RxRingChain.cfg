\* One descriptor at a time may miss its refill.
SPECIFICATION Spec
CONSTANTS
    RxSize = 3
    Laps = 2
    Budget = 3
    Starve = 1
    UseRiwt = FALSE
    f1 = f1
    f2 = f2
    Frames <- MCFrames
    Bad = Bad
    NoFrame = NoFrame
INVARIANT ChainConsistent
