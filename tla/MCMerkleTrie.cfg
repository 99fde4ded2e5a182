CONSTANTS
    a = a
    b = b
    Slots = {0, 1, 2}
    Depth = 4
    Paths <- MCPaths
    Payloads <- MCPayloads
    MaxSteps = 2
SPECIFICATION Spec
INVARIANTS
    RootIsCanonical
    ReadsAgree
PROPERTIES
    NoIntermediateRows
