CONSTANTS
    Items = {a, b}
    Capacity = 3
    Zero = zero
    MaxLog = 7
SPECIFICATION BufferSpec
INVARIANTS
    BufferTypeOK
    HoldsLast
    BetweenIsRange
CONSTRAINT Bounded
