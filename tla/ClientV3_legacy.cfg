SPECIFICATION SpecV3
CONSTANTS
    Callers = {a, b}
    MaxConns = 3
    MaxCalls = 2
    NoOne = NoOne
    Transport = "legacy"
    Peers <- OnlyV2
SYMMETRY CallerSymmetry
INVARIANTS
    AtMostOnce
PROPERTIES
    ImplementsV2
CHECK_DEADLOCK FALSE
