SPECIFICATION FairSpec
CONSTANTS
    Conns = {c, d}
    Versions = {"v2", "v3"}
INVARIANTS
    SocketReleased
    StopsForContext
PROPERTIES
    AcceptStops
    BacklogServed
    GoneIsReleased
    BrokenSessionEnds
CHECK_DEADLOCK FALSE
