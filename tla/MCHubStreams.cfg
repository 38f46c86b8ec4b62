SPECIFICATION Spec
CONSTANTS
    c1 = c1
    c2 = c2
    Conns <- TwoConns
    Capacity = 3
    RingSize <- NextPowerOfTwo
    MaxSends = 6
INVARIANTS
    TypeOK
    StreamIsFaithful
    NoMoreThanTold
PROPERTIES
    LogSpec
