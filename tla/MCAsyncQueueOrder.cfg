CONSTANTS
    t1 = t1
    t2 = t2
    t3 = t3
    t4 = t4
    w1 = w1
    w2 = w2
    Task <- MCTask
    Worker <- MCWorker
    QueueSize = 2
    Ready = Ready
    Parked = Parked
    Exited = Exited
SPECIFICATION OSpec
INVARIANTS
    TypeOK
    HeldOnce
    NoLostWakeup
    FirstInFirstOut
    BoundedOvertaking
PROPERTY DeliverySpec
CHECK_DEADLOCK FALSE
