SPECIFICATION Spec
CONSTANTS
    q1 = q1
    q2 = q2
    b1 = b1
    b2 = b2
    Requests = {q1, q2}
    Buffers = {b1, b2}
    Values = {v1, v2}
    NoBuffer = NoBuffer
    MaxWildcards = 2
    Routes <- MCRoutes
    Wildcards <- MCWildcards
SYMMETRY Symmetry
INVARIANTS
    TypeOK
    ExclusiveBuffers
    HandlerSeesOwnParams
    NeverCrashes
PROPERTY
    ImplementsPrivateParams
