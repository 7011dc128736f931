CONSTANTS
    s1 = s1
    s2 = s2
    s3 = s3
    c1 = c1
    c2 = c2
    Server = {s1, s2, s3}
    Command = {c1, c2}
    Nil = Nil
    MaxTerm = 3
    MaxElections = 3
    MaxLog = 1
    MaxRounds = 1
    MaxCrashes = 0
    MaxRestarts = 0
    MaxLosses = 0
    Snapshots = FALSE
SPECIFICATION Spec
CONSTRAINT ThirdElectionOrEntries
SYMMETRY Symmetry
CHECK_DEADLOCK FALSE
INVARIANTS
    ElectionSafety
    ElectedOnce
    OneCommand
PROPERTY
    LeaderUntilNewerTerm
