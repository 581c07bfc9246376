\* Sources of four to six chunks in each of thirteen frames.
CONSTANTS
    Top = 7
    Opening <- MCOpening
    Closing <- MCClosing
    Chunks <- MCChunks
    MaxChunks <- MCMaxChunks
SPECIFICATION Spec
CHECK_DEADLOCK FALSE
INVARIANTS
    RoundTrip
    OperatorsGroup
    DenialsKept
