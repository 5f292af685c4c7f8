SPECIFICATION Spec
CONSTANTS
    Timeouts <- MCTimeouts
    MaxRetries = 2
    BackoffBase = 1
    WatchInterval = 1
    ConnectTimeout = 3
    TimeoutSlack = 2
    Horizon = 10
INVARIANTS
    StopsLiveClient
PROPERTIES
    NoAttemptOnceTripped
    EndsPromptly
    KeepsPromise
CHECK_DEADLOCK FALSE
