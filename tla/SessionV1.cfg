SPECIFICATION FairSpec
CONSTANTS
    Calls = {c, d, e}
INVARIANTS
    StopIsClean
PROPERTIES
    DrainsAfterStop
    AcceptStops
    CallReturns
CHECK_DEADLOCK FALSE
