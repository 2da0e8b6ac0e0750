SPECIFICATION ExtraSpec
CONSTANTS
    Name <- MCName
    Type <- MCType
    Schema <- MCSchema
    GlobalName <- MCGlobalName
    XsAny <- MCXsAny
    OpenToOthers <- MCOpenToOthers
    Prefix <- MCPrefix
    Namespace <- MCNamespace
    TypeNamespace <- MCTypeNamespace
    FunctionMaps <- MCFunctionMaps
    Tag <- MCTag
    MaxDepth = 6
    Technique <- MCTechnique
    RootTag <- MCRootTag
    Handler = {h1, h2}
CHECK_DEADLOCK FALSE
INVARIANTS
    EndsReachWhoWasTold
    WishesAreRespected
