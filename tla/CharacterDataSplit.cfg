CONSTANTS
    D1 = D1
    D2 = D2
    Sign = Sign
    Space = Space
    Other = Other
    Digit <- MCDigit
    Enclosing <- MCEnclosing
    Piece <- MCPiece
    MaxPiece = 3
    BufferSize = 2
    MaxText = 5
SPECIFICATION Spec
INVARIANT SplitAnywhere
CHECK_DEADLOCK FALSE
