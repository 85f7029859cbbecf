SPECIFICATION Spec
CONSTANTS
    MaxKey = 2
    Values = {1}
    Reads = {r1}
    Lists <- MCLists
    Unconfirmed = {1}
    MaxCalls = 2
    MaxRetries = 1
CHECK_DEADLOCK FALSE
INVARIANTS
    CacheAgrees
