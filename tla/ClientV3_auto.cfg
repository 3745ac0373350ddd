SPECIFICATION FairSpecV3
CONSTANTS
    Callers = {a, b}
    MaxConns = 2
    MaxCalls = 1
    NoOne = NoOne
    Transport = "auto"
    Peers <- AnyServer
INVARIANTS
    IndInvV3
    AtMostOneDuplicate
PROPERTIES
    FailedConnResetV3
    FallbackSticks
    RetryAfterJSON
    CallReturnsV3
CHECK_DEADLOCK FALSE
