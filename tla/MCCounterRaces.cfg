SPECIFICATION FairSpec
CONSTANTS
    c1 = c1
    c2 = c2
    c3 = c3
    NoLimit = NoLimit
    Conns <- ThreeConns
    Limits <- MixedLimits
    MaxCalls = 2
INVARIANTS
    TypeOK
    CountTracksHeld
PROPERTIES
    AdmissionWithinLimit
    RefusalJustified
    LimiterSpec
    EveryCallReturns
