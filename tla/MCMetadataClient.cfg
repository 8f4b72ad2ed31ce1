\* Three callers of any kind share one connection, one worker and no buffer.
CONSTANTS
    c1 = c1
    c2 = c2
    c3 = c3
    Caller <- MCCaller
    Wants <- MCWants
    NoClient = NoClient
    Noop = Noop
    NoCaller = NoCaller
    MaxConns = 1
    WorkerCount = 1
    QueueSize = 0
SPECIFICATION MSpec
INVARIANTS TypeOK OneClient SameAnswer LimitsOfOneClient
PROPERTIES PromiseKept EveryCallerServed UpdatesSent
CHECK_DEADLOCK FALSE
