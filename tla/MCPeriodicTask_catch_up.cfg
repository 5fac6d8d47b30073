SPECIFICATION Spec
CONSTANTS
    NumTasks = 1
    MaxAttempts = 2
    Timeout = 1
    BackoffType = "constant"
    Backoff = 1
    Workers = {w1}
    Intervals = {2}
    Retries = {1}
    Origin = 3
    MaxTime = 8
SYMMETRY Interchangeable
INVARIANT CatchUpRunsEach
CHECK_DEADLOCK FALSE
