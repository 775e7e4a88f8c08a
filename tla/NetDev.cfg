\* Opening may fail at any step, also a restore.
SPECIFICATION Spec
CONSTANTS
    Lines <- BothLines
    Failing <- AllSteps
INVARIANTS
    RingsLive
    HandlersOnRings
    FreedOnce
    HandlersClocked
    ClosedHoldsNothing
