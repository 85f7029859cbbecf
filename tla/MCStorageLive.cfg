SPECIFICATION StorageFairSpec
CONSTANTS
    Subjects = {"gate", "sqlite", "alarm", "scheduler", "writable"}
    Messages = {m1}
    MaxLocks = 2
    MaxWrites = 1
    MaxDepth = 1
    CacheKeys = {1, 2, 3}
    Deletes = {"d1"}
    DeletedBy <- MCDeletedBy
    SmallBatches = TRUE
    MaxPuts = 1
    MaxDeleteRetries = 1
    MaxRequests = 2
    Alarms = {1, 2}
    Unconfirmed = {FALSE}
    MaxEvents = 1
    MaxAlarmRetries = 1
    Actors = {a1}
    Registered = {a1}
    MaxTime = 2
    RETRY_MAX_TRIES = 2
    RETRY_BACKOFF_MAX = 2
    Branches = {1, 2}
    First = 1
    Stores = {1, 4}
    ElementSizes = {1, 2}
    Minimums = {1, 2}
    Chunks = {1, 2}
    HighWaterMark = 0
    MaxBytes = 4
    MaxReads = 2
    OptionalAlgorithms = {"abort"}
    ChunkSizes = {2}
    WritableMark = 1
    Listens = {FALSE}
    Prevents = {}
    MaxChunks = 2
CHECK_DEADLOCK FALSE
PROPERTIES
    MessagesSettle
    RequestsAnswered
    AlarmsSettle
    WritesAndPipesEnd
