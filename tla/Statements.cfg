\* Seven statements, nested three deep, with up to three errors.
CONSTANTS
    MaxStatements = 7
    MaxDepth = 4
    MaxErrors = 3
    MaxTurns = 2
SPECIFICATION Spec
CHECK_DEADLOCK FALSE
INVARIANTS
    TypeOK
    EnclosingScopesStay
    ScopesBalance
    ErrorsAccounted
    FinallyRuns
