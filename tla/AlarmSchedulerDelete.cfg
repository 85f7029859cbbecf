SPECIFICATION SchedulerSpec
CONSTANTS
    Actors = {a1}
    Registered = {a1}
    MaxTime = 1
    RETRY_MAX_TRIES = 1
    RETRY_BACKOFF_MAX = 1
PROPERTIES DeletedIsGone
