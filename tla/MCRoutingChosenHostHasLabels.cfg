\* The label selector of a rule.
CONSTANTS
    r1 = r1
    r2 = r2
    Request <- MCRequest
    Model = {"m1", "m2"}
    Rule <- MCRule
    LBRule <- MCLBRule
    RawConfigs <- MCRawConfigs
    RequestHeaders <- MCRequestHeaders
    HostLabels <- MCHostLabels
    CenterEnabled = TRUE
    MaxPushes = 2
    NoConfig = NoConfig
    NoRule = NoRule
    NoHost = NoHost
SPECIFICATION Spec
INVARIANT ChosenHostHasLabels
CHECK_DEADLOCK FALSE
