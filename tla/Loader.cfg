SPECIFICATION FairSpec
CONSTANTS
    Uri <- MCUri
    Object <- MCObject
    File <- MCFile
    Kind <- MCKind
    Reference <- MCReference
    FlagSets <- MCFlags
    StopIsFailure = TRUE
    MaxPasses = 3
CHECK_DEADLOCK FALSE
INVARIANTS
    TypeOK
    FileIdsNameFiles
    AbortedIsCancelled
PROPERTIES
    LoadingEnds
    EachFileOnce
    CompleteLoad
    SinglePassesComplete
