\* Budget and ring of one size, as by default; memory never runs out.
SPECIFICATION FairSpec
CONSTANTS
    RxSize = 4
    Laps = 2
    Budget = 4
    Starve = 0
    UseRiwt = TRUE
    f1 = f1
    f2 = f2
    Frames <- MCFrames
    Bad = Bad
    NoFrame = NoFrame
INVARIANTS
    ChainConsistent
    NoFrameStranded
PROPERTIES
    FirstInFirstOut
    FrameTaken
