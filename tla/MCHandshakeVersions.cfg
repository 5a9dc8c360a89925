SPECIFICATION Spec
CONSTANTS
    Modes = {"live"}
    Kinds = {"cli", "page"}
    ProtocolVersion = 4
    PageVersion = 3
    IdleLimit = 1
    PeerWait = 5
    VersionWait = 1
    MaxStarts <- Starts
INVARIANT
    MixedVersionsFailClosed
CHECK_DEADLOCK FALSE
