SPECIFICATION FairSpec
CONSTANTS
    BatchSize = 2
    MaxBatches = 2
    HighMark = 0
    Window = 1
    Capacity = 1
INVARIANTS
    TypeOK
    InOrder
    PanicsOnlyInClose
PROPERTIES
    SenderReturns
    ReceiverEnds
    DrainedArrives
CHECK_DEADLOCK FALSE
