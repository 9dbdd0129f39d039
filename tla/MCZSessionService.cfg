SPECIFICATION Spec
CONSTANTS
    NoConnection = NoConnection
    Threads = {t1, t2}
    Connections = {c1, c2}
    Users = {u1}
    SeqMod = 3
    SeqHalf = 3
    ClockMod = 2
    MaxClock = 1
    MaxDraws = 5
    MaxFaults = 1
SYMMETRY Symmetry
INVARIANTS
    TypeOK
    ExclusiveConnections
    OpenAtMostPeak
    FaultCostsOneCommand
    AloneDrawsDiffer
    TokenBacked
    OrphansFromFailures
CHECK_DEADLOCK FALSE
