SPECIFICATION CallsSpec
CONSTANTS
    b1 = b1
    b2 = b2
    AllBackends <- MCBackends
    NameTokens <- MCNameTokens
    Configurations <- MCConfigurations
INVARIANTS
    CallsTypeOK
    PatternSurvives
    CallsFollowTheConfiguration
    UnresolvedIsNeverComplete
\* the request is over
CHECK_DEADLOCK FALSE
