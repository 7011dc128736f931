CONSTANTS
    u1 = u1
    u2 = u2
    c1 = c1
    c2 = c2
    c3 = c3
    x1 = x1
    x2 = x2
    User = {u1, u2}
    Cell = {x1, x2}
    Conn = {c1, c2, c3}
    OffBoard = OffBoard
    NoConn = NoConn
    MaxRooms = 2
    MaxUnknown = 2
    MaxRestarts = 1
SPECIFICATION Spec
SYMMETRY Symmetry
CONSTRAINT Explored
CHECK_DEADLOCK FALSE
INVARIANTS
    LocalBehindStore
    OverIsOver
    FramesToWebSockets
    QueueSound
