SPECIFICATION Spec
CONSTANTS
    u1 = u1
    u2 = u2
    t1 = t1
    t2 = t2
    d1 = d1
    Up = {u1, u2}
    Token = {t1, t2}
    Down = {d1}
    Selections <- AnySelection
    Big <- SameNames
    Unsafe <- OddName
    Existing <- OneFile
    MaxFilenameLen = 2
    MaxFilesPerSend = 2
    MaxFilePayload = 3
INVARIANTS
    AckedIsHeld
CHECK_DEADLOCK FALSE
