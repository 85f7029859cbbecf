SPECIFICATION SqliteSpec
CONSTANTS
    Messages = {m1}
    MaxLocks = 2
    MaxWrites = 2
    MaxDepth = 1
CHECK_DEADLOCK FALSE
INVARIANTS DeliveredIsConfirmed
