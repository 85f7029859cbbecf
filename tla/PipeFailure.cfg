SPECIFICATION WritableSpec
CONSTANTS
    OptionalAlgorithms = {"write", "close", "abort", "size"}
    ChunkSizes = {0, 2}
    WritableMark = 1
    Listens = {TRUE, FALSE}
    Prevents = {"abort", "cancel", "close"}
    MaxChunks = 2
CHECK_DEADLOCK FALSE
INVARIANTS
    PipeFailureIsReported
