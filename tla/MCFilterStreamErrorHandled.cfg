CONSTANTS
    r1 = r1
    h1 = h1
    w1 = w1
    w2 = w2
    w3 = w3
    NoChunk = NoChunk
    Request <- MCRequest
    Worker <- MCWorker
    HostLists <- MCHostLists
    Kinds <- MCKinds
    Chunks <- MCChunks
    QueueSize = 0
SPECIFICATION Spec
INVARIANT StreamErrorHandled
CHECK_DEADLOCK FALSE
