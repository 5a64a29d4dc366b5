SPECIFICATION FairSpec
CONSTANTS
    ParamTokens = {":x"}
    CatchAlls = {"*f"}
    Candidates = {}
    Requests <- MCRequests
    Lower <- MCLower
    Upper <- MCUpper
    Methods <- MCMethods
    Registrable <- MCRegistrable
    MaxRoutes = 3
INVARIANTS
    TypeOK
    AnswerFitsTheRoutes
    RedirectRepairsThePath
    GlobalAllowedIsCurrent
    ParamsHaveRoom
PROPERTIES
    RegistrationKeepsRoutes
    RedirectsSettle
\* the client has its answer, or the registration panicked
CHECK_DEADLOCK FALSE
