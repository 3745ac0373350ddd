SPECIFICATION FairSpec
CONSTANTS
    Sessions <- SoundSessions
    MaxCalls = 5
INVARIANTS
    StreamInv
    NothingLost
    PairsMatch
    KeysGuardBodies
PROPERTIES
    AllDelivered
    MismatchNoticed
CHECK_DEADLOCK FALSE
