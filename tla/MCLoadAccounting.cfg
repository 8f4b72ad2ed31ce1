CONSTANTS
    r1 = r1
    h1 = h1
    w1 = w1
    w2 = w2
    NoChunk = NoChunk
    Ready = Ready
    Parked = Parked
    Exited = Exited
    Request <- MCRequest
    Worker <- MCOneWorker
    HostLists <- MCHostLists
    Kinds <- MCKinds
    Chunks <- MCChunks
    QueueSize = 1
SPECIFICATION LSpec
INVARIANTS NoGhostLoad PromptReleased
PROPERTY DeleteSettled
CHECK_DEADLOCK FALSE
