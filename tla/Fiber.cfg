SPECIFICATION FairSpec
CONSTANTS
    Worker = {w1, w2}
    Fiber = {f1, f2}
    Patient = {f2}
    NoFiber = none
    MaxWaits = 2
INVARIANTS
    OneWaker
    OneThreadNeverPanics
    NoLostTickle
    StopWaitsForAll
PROPERTIES
    FibersEnd
CONSTRAINT Explored
CHECK_DEADLOCK FALSE
