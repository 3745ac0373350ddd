SPECIFICATION Spec
CONSTANTS
    Names <- MCNames
    Lower <- MCLower
    Values <- MCValues
    MaxVars = 3
    AllowEntries <- MCEntries
    Methods <- MCMethods
INVARIANTS
    TableMatchesEnv
    TargetsUsable
    AllowlistAsPromised
CHECK_DEADLOCK FALSE
