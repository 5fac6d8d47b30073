SPECIFICATION FairSpec
CONSTANTS
    DefaultSlots = 2
    OtherSlots = 1
    parent = parent
    child = child
    parents = parents
    children = children
    Client = Client
    Queues = {parents, children}
    Runs <- MCRuns
    QueueOf <- MCQueueOf
    Cause <- MCCause
    Callers = {c1}
    MaxStarts = 2
    MaxKicks = 1
INVARIANTS TypeOK OnePoolPerRun StoppedServiceIsQuiet ServedIsMaintained
PROPERTIES StopAnswered WaitingRunFetched
CHECK_DEADLOCK FALSE
