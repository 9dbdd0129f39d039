SPECIFICATION SerialSpec
CONSTANTS
    Nil = Nil
    Threads = {t1}
    Emails = {e1}
    Passwords = {p1}
    MaxUsers = 1
    MaxSessions = 1
    MaxDevices = 1
PROPERTY AdminDeleteTakesDevices
CHECK_DEADLOCK FALSE
