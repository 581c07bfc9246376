\* All 512 graphs on three roles, every order of nodes and neighbours.
CONSTANTS
    Roles = {a, b, c}
SPECIFICATION FairDetection
CHECK_DEADLOCK FALSE
INVARIANTS
    CyclesFound
PROPERTIES
    DetectionEnds
