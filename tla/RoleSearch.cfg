\* All 512 graphs on three roles, every root and target.
CONSTANTS
    Roles = {a, b, c}
    None = none
SPECIFICATION FairSpec
CHECK_DEADLOCK FALSE
INVARIANTS
    AnswersDescent
    ResolvesDown
PROPERTIES
    SearchEnds
