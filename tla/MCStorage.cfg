SPECIFICATION StorageSpec
CONSTANTS
    Subjects = {"gate", "deletes", "alarm", "scheduler", "bytes", "writable"}
    Messages = {m1, m2, m3}
    MaxLocks = 3
    MaxWrites = 1
    MaxDepth = 1
    CacheKeys = {1, 2, 3}
    Deletes = {"d1", "d2"}
    DeletedBy <- MCDeletedBy
    SmallBatches = TRUE
    MaxPuts = 1
    MaxDeleteRetries = 1
    MaxRequests = 3
    Alarms = {1, 2}
    Unconfirmed = {TRUE, FALSE}
    MaxEvents = 1
    MaxAlarmRetries = 1
    Actors = {a1, a2}
    Registered = {a1}
    MaxTime = 2
    RETRY_MAX_TRIES = 3
    RETRY_BACKOFF_MAX = 4
    Branches = {1, 2}
    First = 1
    Stores = {1, 4}
    ElementSizes = {1, 2}
    Minimums = {1, 2}
    Chunks = {1, 2}
    HighWaterMark = 0
    MaxBytes = 4
    MaxReads = 2
    OptionalAlgorithms = {"write", "close", "abort", "size"}
    ChunkSizes = {0, 2}
    WritableMark = 1
    Listens = {TRUE, FALSE}
    Prevents = {"abort", "cancel", "close"}
    MaxChunks = 2
CHECK_DEADLOCK FALSE
INVARIANTS
    StorageTypeOK
    OutcomesAreDue DeletesAreCounted AlarmStateIsTrue AlarmsOnSchedule
    BytesInOrder ReadsAreAnswered
    SinkInOrder EndsAreSettled
PROPERTIES
    AnswersAreDurable
