SPECIFICATION Spec
CONSTANTS
    Nil = Nil
    NoAddress = NoAddress
    Threads = {t1, t2}
    Users = {u1}
    Sensors = {s1, s2}
    MaxDevices = 2
    LogLimit = 1
    MaxOver = 1
    MaxRequests = 3
SYMMETRY Symmetry
INVARIANTS
    TypeOK
    DeviceIndexed
    DeletedNeverWhole
    OneDevicePerSensor
    
    
    LogBounded
    ClaimedLeavesFactory
    
CHECK_DEADLOCK FALSE
