SPECIFICATION Spec
CONSTANTS
    Sources <- MCSources
    Stride <- MCStride
    Count <- MCCount
    VertexInputs <- MCVertexInputs
    InputLists <- MCInputLists
    VertexCounts = {0, 2, 3}
    MaxTexts = 3
    MaxVertices = 5
    MaxPrimitives = 3
CHECK_DEADLOCK FALSE
INVARIANTS
    TypeOK
    IndicesAreTheText
    IndicesFindTheirSource
