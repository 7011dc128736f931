SPECIFICATION Spec
CONSTANTS
    MaxKey = 3
    MaxLevel = 2
    Value = {"a", "key"}
    Caller = {a}
    MaxLinks = 2
    MaxPieces = 3
    IntBits = 10
    WireBits = 21
    MaxAsked = 2
INVARIANTS
    ListSound OwnReply ReadAsWritten CallsAsAsked
PROPERTIES
    ChannelRecovers
CHECK_DEADLOCK FALSE
