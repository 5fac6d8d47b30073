SPECIFICATION Spec
CONSTANTS
    NumTasks = 4
    MaxAttempts = 2
    Timeout = 1
    BackoffType = "constant"
    Backoff = 0
    Workers = {w1, w2}
    Kinds = {"sequential", "managed"}
    NumSteps = 3
    Retries = {1, 2}
    MaxTakes = 6
SYMMETRY Interchangeable
INVARIANTS TypeOK OneChildPerStep StepsInOrder FinishedIsComplete
PROPERTY ProgressKept
CHECK_DEADLOCK FALSE
