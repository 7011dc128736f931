CONSTANTS
    s1 = s1
    s2 = s2
    s3 = s3
    c1 = c1
    Server = {s1, s2, s3}
    Command = {c1}
    Nil = Nil
    MaxTerm = 3
    MaxElections = 3
    MaxLog = 3
    MaxRounds = 1
    MaxCrashes = 0
    MaxRestarts = 0
    MaxLosses = 0
    Snapshots = FALSE
SPECIFICATION SpecDeposed
SYMMETRY Symmetry
CHECK_DEADLOCK FALSE
INVARIANTS
    LeaderCompleteness
