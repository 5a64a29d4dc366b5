SPECIFICATION Spec
CONSTANTS
    ParamTokens = {":x"}
    CatchAlls = {"*any"}
    Candidates = {}
    Requests <- MCRequests
    Configurations <- MCConfigurations
    AllMethods <- MCAllMethods
    ToTitle <- MCToTitle
    DefaultDebug <- MCDefaultDebug
    DefaultEcho <- MCDefaultEcho
INVARIANTS
    TypeOK
    OneHandlerPerRequest
    HelpersOwnTheirPaths
    ServesUpToTheFirstFault
\* Provision has returned or panicked
CHECK_DEADLOCK FALSE
