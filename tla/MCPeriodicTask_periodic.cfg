SPECIFICATION Spec
CONSTANTS
    NumTasks = 1
    MaxAttempts = 2
    Timeout = 1
    BackoffType = "constant"
    Backoff = 1
    Workers = {w1, w2}
    Intervals = {1, 2}
    Retries = {1, 2}
    Origin = 3
    MaxTime = 7
SYMMETRY Interchangeable
INVARIANTS TypeOK SkipMissedOnCadence
PROPERTIES DelayRespected StaleAttemptKeepsTimer RunningAttemptUndisturbed
CHECK_DEADLOCK FALSE
