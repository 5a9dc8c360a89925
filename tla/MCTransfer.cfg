SPECIFICATION FairSpec
CONSTANTS
    a = a
    x = x
    y = y
    t = t
    z = z
    Base = {a}
    Chunk = {x, y, z}
    Blend = z
    Tail_ = {t}
    Batches <- MCBatches
    Disks <- MCDisks
    Versions = {3, 4}
    ProtocolVersion = 4
    MaxStarts = 2
    MaxEvents = 3
    MaxDrops = 2
    MaxCopy = 9
INVARIANTS
    TypeOK
    SavedIntact
    PartIsPrefix
    NothingLeftBehind
PROPERTIES
    KeepsFiles
    ImplementsDelivery
    BatchWhole
    ReceiverEnds
CHECK_DEADLOCK FALSE
