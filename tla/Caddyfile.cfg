SPECIFICATION Spec
CONSTANTS
    FirstLines <- MCFirstLines
    Lines <- MCLines
    MaxLines = 7
    BadValues = {"bad"}
    Parts <- MCParts
INVARIANTS
    TypeOK
    LoopsGetTheirOwnLines
    RejectsExactlyTheFaulty
    ParsedAsWritten
\* the document has been parsed or rejected
CHECK_DEADLOCK FALSE
