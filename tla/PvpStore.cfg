CONSTANTS
    u1 = u1
    u2 = u2
    t1 = t1
    t2 = t2
    x1 = x1
    User = {u1, u2}
    x2 = x2
    Cell = {x1, x2}
    OffBoard = OffBoard
    Thread = {t1, t2}
    Nil = Nil
    MaxRooms = 2
    MaxUnknown = 2
    MaxRestarts = 1
    MaxCrossed = 1
SPECIFICATION Spec
SYMMETRY Symmetry
CONSTRAINT Explored
CHECK_DEADLOCK FALSE
INVARIANTS
    AckedKept
    IndexFits
