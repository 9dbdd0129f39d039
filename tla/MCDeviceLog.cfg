SPECIFICATION Spec
CONSTANTS
    Nil = Nil
    NoAddress = NoAddress
    Threads = {t1}
    Users = {u1}
    Sensors = {s1}
    MaxDevices = 1
    LogLimit = 2
    MaxOver = 1
    MaxRequests = 3
INVARIANT LogRemoved
CHECK_DEADLOCK FALSE
