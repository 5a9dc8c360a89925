SPECIFICATION Spec
CONSTANTS
    c1 = c1
    c2 = c2
    c3 = c3
    c4 = c4
    t1 = t1
    Conn = {c1, c2, c3, c4}
    Token = {t1}
    MaxRooms = 2
    Quiet <- NoRoom
    MaxFrames <- Silent
INVARIANTS
    SameTokenMeets
