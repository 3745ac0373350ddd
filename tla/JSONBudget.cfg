SPECIFICATION Spec
CONSTANTS
    DefaultMaxJSONBody = 8
    MagicLen = 5
    Options <- MCOptions
    Sizes <- MCSizes
CHECK_DEADLOCK FALSE
INVARIANTS
    MemoryBounded
    AcceptedBounded
    NoFalseRefusal
    IndInv
