CONSTANTS
    s1 = s1
    s2 = s2
    s3 = s3
    c1 = c1
    Server = {s1, s2, s3}
    Command = {c1}
    Nil = Nil
    MaxTerm = 1
    MaxElections = 2
    MaxLog = 2
    MaxRounds = 2
    MaxCrashes = 1
    MaxRestarts = 1
    MaxLosses = 1
    Snapshots = TRUE
SPECIFICATION SpecLed
CONSTRAINT RestartOrRounds
SYMMETRY Symmetry
CHECK_DEADLOCK FALSE
INVARIANTS
    IndexOrder
    Durable
    MatchIndexSound
