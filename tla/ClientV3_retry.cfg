SPECIFICATION SpecV3
CONSTANTS
    Callers = {a, b}
    MaxConns = 3
    MaxCalls = 1
    NoOne = NoOne
    Transport = "auto"
    Peers <- OnlyV2
INVARIANTS
    RetryOnLegacy
CHECK_DEADLOCK FALSE
