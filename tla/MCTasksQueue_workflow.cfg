SPECIFICATION Spec
CONSTANTS
    NumTasks = 3
    MaxAttempts = 2
    Timeout = 1
    BackoffType = "constant"
    Backoff = 0
    Workers = {w1, w2}
    Throttle = 2
    Lag = 0
    Pings = FALSE
    MaxRoots = 1
    Retries = {2}
    ChildRetries = {1,2}
    AdminOps = {"delete"}
    NoWorker = NoWorker
    MaxTime = 2
    MaxCrashes = 0
    Faults = TRUE
SYMMETRY Interchangeable
INVARIANTS BlockedParentAwaited OneActiveChild ActiveChildKept RetryBudget
PROPERTIES ImplementsLifecycle
CHECK_DEADLOCK FALSE
