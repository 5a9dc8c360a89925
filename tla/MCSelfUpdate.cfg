SPECIFICATION Spec
CONSTANTS
    p1 = p1
    p2 = p2
    Updates = {p1, p2}
    MaxStarts = 3
INVARIANTS
    TypeOK
    OneIsKept
    GapIsBridged
    SuccessIsNew
CHECK_DEADLOCK FALSE
