CONSTANTS
    c1 = c1
    c2 = c2
    Client = {c1, c2}
    Nil = Nil
    NumServers = 2
    MaxElections = 2
    MaxSnapshots = 1
    Kinds = {"Put", "Get"}
    MaxRequests = 2
    MaxCalls = 3
SPECIFICATION SpecSeasoned
CONSTRAINT ReadsOrManyChanges
SYMMETRY Symmetry
CHECK_DEADLOCK FALSE
INVARIANTS
    TypeOK
    ChannelAlive
    ExecutedOnce
    AnswerCommitted
