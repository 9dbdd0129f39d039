SPECIFICATION Spec
CONSTANTS
    Receiver = Receiver
    NoClient = NoClient
    NoMessage = NoMessage
    End = End
    Threads = {t1, t2}
    Clients = {a, b}
    MaxMessages = 2
    MaxLogins = 2
    MaxChats = 1
SYMMETRY Symmetry
INVARIANTS
    TypeOK
    ReceivedInOrder
    
    LiveClientsListed
    CompletedReachesAll
    BrokenByDeadEntries
CHECK_DEADLOCK FALSE
