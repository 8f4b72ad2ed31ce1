\* The weights are the defaults of the code, the percentage too.
CONSTANTS
    r1 = r1
    r2 = r2
    r3 = r3
    r4 = r4
    h1 = h1
    h2 = h2
    Request <- MCRequest
    Host <- MCHost
    Percent = 5
    Prompt = 1
    MaxLost = 1
    RequestLoadWeight = 1
    PrefillLoadWeight = 3
    MinPromptLength = 1
    NoHost = NoHost
    NoAnswer = NoAnswer
SPECIFICATION Spec
SYMMETRY Symmetry
INVARIANTS TypeOK DriftExplained
PROPERTY HerdIsWhatIsInFlight
CHECK_DEADLOCK FALSE
