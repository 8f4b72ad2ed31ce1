\* Two pushes of any configuration to either place, and two requests.
CONSTANTS
    r1 = r1
    r2 = r2
    Request <- MCRequest
    Model = {"m1", "m2"}
    Rule <- MCRule
    LBRule <- MCLBRule
    RawConfigs <- MCRawConfigs
    RequestHeaders <- MCRequestHeaders
    HostLabels <- MCHostLabels
    CenterEnabled = TRUE
    MaxPushes = 2
    NoConfig = NoConfig
    NoRule = NoRule
    NoHost = NoHost
SPECIFICATION Spec
SYMMETRY Symmetry
INVARIANTS TypeOK MostSpecificWins RefusedOnlyUnmatched OneClusterPerModel
INVARIANTS AskedAsAdded ReleasedAsAdded
CHECK_DEADLOCK FALSE
