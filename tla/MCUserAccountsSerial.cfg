SPECIFICATION SerialSpec
CONSTANTS
    Nil = Nil
    Threads = {t1, t2}
    Emails = {e1, e2}
    Passwords = {p1, p2}
    MaxUsers = 2
    MaxSessions = 3
    MaxDevices = 0
SYMMETRY Symmetry
PROPERTY ImplementsDirectory
CHECK_DEADLOCK FALSE
