SPECIFICATION Spec
CONSTANTS
    Nil = Nil
    Threads = {t1, t2}
    Emails = {e1, e2}
    Passwords = {p1}
    MaxUsers = 2
    MaxSessions = 1
    MaxDevices = 0
SYMMETRY Symmetry
INVARIANTS
    TypeOK
    SignInOpensOwnAccount
    FullAccountIndexed
    DeletedNeverWhole
CHECK_DEADLOCK FALSE
