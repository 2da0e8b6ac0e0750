SPECIFICATION Spec
CONSTANTS
    Name = {a, b}
    MaxElements = 5
INVARIANTS
    TypeOK
    WellFormed
    ValuesSeparated
PROPERTY CloserClosesOwn
