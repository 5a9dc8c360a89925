SPECIFICATION FairSpec
CONSTANTS
    Modes = {"live", "announced"}
    Kinds = {"cli", "page"}
    ProtocolVersion = 4
    PageVersion = 3
    IdleLimit = 1
    PeerWait = 5
    VersionWait = 1
    MaxStarts <- Starts
INVARIANTS
    TypeOK
    ResumeIsPeers
    ChecksFailClosed
    RelayEndsTheWait
PROPERTIES
    Released
CHECK_DEADLOCK FALSE
