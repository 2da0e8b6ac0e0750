SPECIFICATION Spec
CONSTANTS
    Uri <- MCUri
    Object <- MCExternalObject
    File <- MCExternalFile
    Kind <- MCExternalKind
    Reference <- MCExternalReference
    FlagSets <- MCFlagsExternal
    StopIsFailure = TRUE
    MaxPasses = 1
CHECK_DEADLOCK FALSE
PROPERTIES
    RequestedIsWritten
