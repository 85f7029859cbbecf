SPECIFICATION Spec
CONSTANTS
    MaxKey = 2
    Values = {1}
    Reads = {r1, r2}
    Lists <- MCLists
    Unconfirmed = {1}
    MaxCalls = 3
    MaxRetries = 1
SYMMETRY Symmetry
CONSTRAINTS NotExposed TerminalEarly
CHECK_DEADLOCK FALSE
INVARIANTS TypeOK CacheIsCurrent WritesAreKept ReadsAreConsistent
PROPERTIES CommitsInOrder
