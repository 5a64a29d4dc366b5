SPECIFICATION FairSpec
CONSTANTS
    MaxLen = 7
    Bytes <- MCBytes
    Inputs <- MCInputs
INVARIANTS
    TypeOK
    InBounds
    CleansThePath
    WrittenSpellsTheStack
PROPERTY
    Terminates
\* the function has returned
CHECK_DEADLOCK FALSE
