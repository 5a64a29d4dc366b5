SPECIFICATION FairSpec
CONSTANTS
    b1 = b1
    b2 = b2
    b3 = b3
    AllBackends <- MCBackends
INVARIANTS
    TypeOK
    CompleteMeansEveryBackend
    EmptyBodyMeansEmptyBackends
    PartialDataIsServed
PROPERTIES
    LateWithoutDataFails
    RequestsEnd
\* the request is over
CHECK_DEADLOCK FALSE
