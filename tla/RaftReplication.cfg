CONSTANTS
    s1 = s1
    s2 = s2
    s3 = s3
    c1 = c1
    Server = {s1, s2, s3}
    Command = {c1}
    Nil = Nil
    MaxTerm = 2
    MaxElections = 2
    MaxLog = 2
    MaxRounds = 1
    MaxCrashes = 0
    MaxRestarts = 0
    MaxLosses = 0
    Snapshots = TRUE
SPECIFICATION SpecLed
CONSTRAINT SecondEntryOrSnapshots
SYMMETRY Symmetry
CHECK_DEADLOCK FALSE
INVARIANTS
    LogMatching
    StateMachineSafety
    LeaderCompleteness
    MajorityCommits
PROPERTIES
    NeverTakesBack
    ImplementsAgreedLog
