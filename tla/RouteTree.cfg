SPECIFICATION TreeSpec
CONSTANTS
    ParamTokens = {":x", ":y", ":"}
    CatchAlls = {"*f"}
    Candidates <- MCCandidates
    Requests <- MCRequests
    Lower <- MCLower
    Upper <- MCUpper
    MaxTreeRoutes = 4
INVARIANTS
    TreeTypeOK
    PriorityCountsHandles
    LookupServesTheMatch
    CaseSearchFindsAHandle
PROPERTY
    ImplementsRouteTable
\* registration ends: no route is added beyond MaxTreeRoutes or after a panic
CHECK_DEADLOCK FALSE
