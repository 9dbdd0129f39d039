SPECIFICATION Spec
CONSTANTS
    Nil = Nil
    Threads = {t1, t2}
    Emails = {e1}
    Passwords = {p1}
    MaxUsers = 1
    MaxSessions = 2
    MaxDevices = 2
PROPERTIES
    LogoutOnlyAfterDelete
    
CHECK_DEADLOCK FALSE
