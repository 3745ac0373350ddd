SPECIFICATION FairSpec
CONSTANTS
    Callers = {a, b}
    MaxConns = 2
    MaxCalls = 2
    NoOne = NoOne
INVARIANTS
    OneSession
PROPERTIES
    FailedConnReset
    CallReturns
CHECK_DEADLOCK FALSE
