SPECIFICATION Spec
CONSTANTS
    Message = {"get", "post", "empty", "options", "missing", "upgrade", "nolen", "badlen", "method", "version", "text", "ping", "close"}
    MaxSent = 3
    MaxRefills = 1
    BucketCapacity = 2
    User = {u1, u2}
    Browser = {b1, b2}
    NoUser = NoUser
    MaxSessions = 3
    BOARD_SIZE = 3
    LineLength = 3
    Reach = 2
    Worker = {w1, w2, w3, w4}
    Conn = {c1, c2}
    NoConn = NoConn
INVARIANTS
    ConnectionSound OneSessionPerUser GameSound PoolSound
PROPERTIES EventuallyAnswered SomebodyServed
CHECK_DEADLOCK FALSE
