SPECIFICATION Spec
CONSTANTS
    Callers = {c1, c2}
    Timer = Timer
    NoThread = NoThread
    Topics = {a, r}
    Refused = {r}
    CleanSession = TRUE
    InitialDelay = 1
    MaximumDelay = 4
    MaxDrops = 3
SYMMETRY Symmetry
INVARIANTS
    TypeOK
    ReconnectScheduled
    OneChainPerFault
    SubscriptionsAtBroker
