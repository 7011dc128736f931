CONSTANTS
    s1 = s1
    s2 = s2
    s3 = s3
    c1 = c1
    Server = {s1, s2, s3}
    Command = {c1}
    Nil = Nil
    MaxTerm = 1
    MaxElections = 1
    MaxLog = 2
    MaxRounds = 1
    MaxCrashes = 1
    MaxRestarts = 0
    MaxLosses = 0
    Snapshots = TRUE
SPECIFICATION FairSpecLed
CHECK_DEADLOCK FALSE
PROPERTIES
    Progress
