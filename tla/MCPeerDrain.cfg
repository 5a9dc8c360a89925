SPECIFICATION Spec
CONSTANTS
    BatchSize = 2
    MaxBatches = 2
    HighMark = 0
    Window = 1
    Capacity = 1
INVARIANTS
    CompleteNotDropped
CHECK_DEADLOCK FALSE
