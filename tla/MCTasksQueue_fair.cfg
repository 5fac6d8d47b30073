SPECIFICATION FairSpec
CONSTANTS
    NumTasks = 3
    MaxAttempts = 2
    Timeout = 1
    BackoffType = "linear"
    Backoff = 0
    Workers = {w1, w2}
    Throttle = 2
    Lag = 0
    Pings = FALSE
    MaxRoots = 1
    Retries = {1}
    ChildRetries = {2}
    AdminOps = {}
    NoWorker = NoWorker
    MaxTime = 2
    MaxCrashes = 0
    Faults = TRUE
PROPERTIES ParentResumes EveryTaskSettles
CHECK_DEADLOCK FALSE
