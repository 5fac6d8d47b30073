SPECIFICATION Spec
CONSTANTS
    NumTasks = 2
    MaxAttempts = 2
    Timeout = 1
    BackoffType = "linear"
    Backoff = 1
    Workers = {w1, w2}
    Throttle = 2
    Lag = 0
    Pings = FALSE
    MaxRoots = 1
    Retries = {1}
    ChildRetries = {1}
    AdminOps = {}
    NoWorker = NoWorker
    MaxTime = 3
    MaxCrashes = 1
    Faults = FALSE
SYMMETRY Interchangeable
INVARIANT BlockedParentAwaited
CHECK_DEADLOCK FALSE
