CONSTANTS
    c1 = c1
    Client = {c1}
    Nil = Nil
    NumServers = 2
    MaxElections = 0
    MaxSnapshots = 0
    Kinds = {"Put", "Get"}
    MaxRequests = 2
    MaxCalls = 2
SPECIFICATION Spec
SYMMETRY Symmetry
CHECK_DEADLOCK FALSE
INVARIANTS
    ReplicasAgree
