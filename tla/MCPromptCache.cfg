\* Three requests, one of which can meet what the two others have saved.
CONSTANTS
    r1 = r1
    r2 = r2
    r3 = r3
    h1 = h1
    h2 = h2
    Request <- MCRequest
    Host <- MCHost
    Char <- MCChar
    Prompts <- MCPrompts
    ChunkLen = 2
    TopK = 1
    NoHost = NoHost
SPECIFICATION Spec
SYMMETRY Symmetry
INVARIANTS TypeOK LookupExact HitHasCause
CHECK_DEADLOCK FALSE
