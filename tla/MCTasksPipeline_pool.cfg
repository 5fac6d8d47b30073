SPECIFICATION FairSpec
CONSTANTS
    MaxConcurrentTasks = 2
    Tasks = {t1, t2, t3}
    Stoppers = {s1, s2}
    Rejections = {"handled", "fatal"}
    MaxStarts = 2
    MaxKicks = 1
INVARIANTS TypeOK SlotsRespected StopMeansQuiet PollerAlive
PROPERTY DueTaskFetched
CHECK_DEADLOCK FALSE
