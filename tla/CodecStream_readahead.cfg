SPECIFICATION Spec
CONSTANTS
    Sessions <- PipelinedJSONCrypto
    MaxCalls = 3
INVARIANTS
    NothingLost
CHECK_DEADLOCK FALSE
