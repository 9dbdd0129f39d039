SPECIFICATION FairSpec
CONSTANTS
    Callers = {c1}
    Timer = Timer
    NoThread = NoThread
    Topics = {a}
    Refused = {}
    CleanSession = TRUE
    InitialDelay = 1
    MaximumDelay = 4
    MaxDrops = 2
PROPERTY Reconnects
