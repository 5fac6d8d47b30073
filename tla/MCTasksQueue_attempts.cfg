SPECIFICATION Spec
CONSTANTS
    NumTasks = 1
    MaxAttempts = 2
    Timeout = 3
    BackoffType = "exponential"
    Backoff = 1
    Workers = {w1, w2}
    Throttle = 2
    Lag = 1
    Pings = TRUE
    MaxRoots = 1
    Retries = {1, 2}
    ChildRetries = {1}
    AdminOps = {"restart", "clearFailed", "update"}
    NoWorker = NoWorker
    MaxTime = 7
    MaxCrashes = 1
    Faults = TRUE
SYMMETRY Interchangeable
INVARIANTS TypeOK OneOwner AbandonedIsOverdue
PROPERTIES StaleAttemptIsInert RescueBounded
CHECK_DEADLOCK FALSE
