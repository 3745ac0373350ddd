SPECIFICATION Spec
CONSTANTS
    Sessions <- OrphanJSONHeader
    MaxCalls = 3
INVARIANTS
    PairsMatch
CHECK_DEADLOCK FALSE
