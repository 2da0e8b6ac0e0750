CONSTANTS
    D1 = D1
    D2 = D2
    Sign = Sign
    Space = Space
    Other = Other
    Digit <- MCDigit
    Enclosing <- MCEnclosing
    Piece <- MCShortPiece
    MaxPiece = 1
    BufferSize = 2
    MaxText = 6
SPECIFICATION Spec
INVARIANTS TypeOK EnclosingKept NothingLeftBehind PiecesDoNotMatter
CHECK_DEADLOCK FALSE
