SPECIFICATION Spec
CONSTANTS
    NumTasks = 1
    MaxAttempts = 2
    Timeout = 3
    BackoffType = "linear"
    Backoff = 1
    Workers = {w1, w2}
    Throttle = 2
    Lag = 0
    Pings = TRUE
    MaxRoots = 1
    Retries = {1}
    ChildRetries = {1}
    AdminOps = {}
    NoWorker = NoWorker
    MaxTime = 8
    MaxCrashes = 0
    Faults = FALSE
SYMMETRY Interchangeable
PROPERTY LateHeartbeatRescuesNothing
CHECK_DEADLOCK FALSE
