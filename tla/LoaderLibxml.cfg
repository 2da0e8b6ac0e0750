SPECIFICATION Spec
CONSTANTS
    Uri <- MCOneUri
    Object <- MCOneObject
    File <- MCOneFile
    Kind <- MCOneKind
    Reference <- MCOneReference
    FlagSets <- MCFlagsPasses
    StopIsFailure = FALSE
    MaxPasses = 1
CHECK_DEADLOCK FALSE
INVARIANTS
    LoadingSucceeded
