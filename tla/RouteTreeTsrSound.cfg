SPECIFICATION TreeSpec
CONSTANTS
    ParamTokens = {":x", ":y", ":"}
    CatchAlls = {"*f"}
    Candidates <- MCCandidates
    Requests <- CleanRequests
    Lower <- MCLower
    Upper <- MCUpper
    MaxTreeRoutes = 3
INVARIANT
    TsrOnlyToAHandle
\* registration ends: no route is added beyond MaxTreeRoutes or after a panic
CHECK_DEADLOCK FALSE
