\* The request of the interrupt line may fail.
SPECIFICATION Spec
CONSTANTS
    Lines <- BothLines
    Failing <- LateSteps
INVARIANT RemoveReleasesRings
