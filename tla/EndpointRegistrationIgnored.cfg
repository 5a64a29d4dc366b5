SPECIFICATION Spec
CONSTANTS
    ParamTokens = {":x"}
    CatchAlls = {"*any"}
    Candidates = {}
    Requests <- MCRequests
    Configurations <- MCConfigurations
    AllMethods <- MCAllMethods
    ToTitle <- MCToTitle
    DefaultDebug <- MCDefaultDebug
    DefaultEcho <- MCDefaultEcho
INVARIANT
    OnlyFaultyEndpointIgnored
\* Provision has returned or panicked
CHECK_DEADLOCK FALSE
