SPECIFICATION SqliteSpec
CONSTANTS
    Messages = {m1}
    MaxLocks = 2
    MaxWrites = 3
    MaxDepth = 2
CHECK_DEADLOCK FALSE
INVARIANTS DeliveredIsConfirmedUnlessExposed TransactionsAreSound
