SPECIFICATION FairSpec
CONSTANTS
    r1 = r1
    r2 = r2
    Requests = {r1, r2}
    Methods <- MCMethods
    AllowEntries <- MCEntries
    Policy = "default"
    Targets <- MCTargets
    Sizes = {1, 2, 3}
    Metadata <- MCMetadata
    Inbound <- MCInbound
    MaxConcurrent = 1
    MaxPayload = 1
    DefaultMaxJSONBody = 2
    Timeouts = {0, 1}
INVARIANTS
    SlotsMatch
    ClientsBounded
    CodesTruthful
    RunsAtMostOnce
    IdentityTrusted
PROPERTIES
    EveryCallAnswered
CHECK_DEADLOCK FALSE
