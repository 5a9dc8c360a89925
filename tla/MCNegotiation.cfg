SPECIFICATION FairSpec
CONSTANTS
    Buffer = 2
    MaxExtras = 1
INVARIANTS
    TypeOK
    NoSplit
    NoLeftovers
    OneReader
PROPERTIES
    NegotiationEnds
    FallbackArrives
CHECK_DEADLOCK FALSE
