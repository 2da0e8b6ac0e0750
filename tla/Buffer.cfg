SPECIFICATION Spec
CONSTANTS
    BufferSize = 3
    Lengths = {2, 4}
    TextLengths = {1, 2}
    NumberSize = 2
    DirectSizes = {1, 5}
    MaxBytes = 5
    MaxMarks = 2
    MaxFailures = 1
INVARIANTS
    TypeOK
    SurvivorsInOrder
PROPERTIES
    ImplementsUnbufferedFile
    TrueMeansKept
