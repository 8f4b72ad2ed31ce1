CONSTANTS
    h1 = h1
    h2 = h2
    h3 = h3
    Host <- MCHost
    Reported <- MCReported
    Absent = Absent
    NoHost = NoHost
    HashCount = 2
    CacheRadioWeight = 2
    RequestLoadWeight = 1
    PrefillLoadWeight = 3
    Percents <- MCPercents
    MinPromptLength = 2
SPECIFICATION Spec
INVARIANTS
    TypeOK
    NoDominatedCandidate
    AlwaysAHost
    OverloadBeatsCache
CHECK_DEADLOCK FALSE
