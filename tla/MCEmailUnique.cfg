SPECIFICATION Spec
CONSTANTS
    Nil = Nil
    Threads = {t1, t2}
    Emails = {e1}
    Passwords = {p1}
    MaxUsers = 2
    MaxSessions = 1
    MaxDevices = 0
INVARIANT EmailUnique
CHECK_DEADLOCK FALSE
