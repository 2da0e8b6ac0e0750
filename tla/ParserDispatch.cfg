SPECIFICATION Spec
CONSTANTS
    Name <- MCName
    Type <- MCType
    Schema <- MCSchema
    GlobalName <- MCGlobalName
    XsAny <- MCXsAny
    OpenToOthers <- MCOpenToOthers
    Prefix <- MCPrefix
    Namespace <- MCNamespace
    TypeNamespace <- MCTypeNamespace
    FunctionMaps <- MCFunctionMaps
    Tag <- MCTag
    MaxDepth = 4
CHECK_DEADLOCK FALSE
INVARIANTS
    TypeOK
    ReceiverIsBeginners
    ImplementationIsOnPath
    NamespacesRestored
