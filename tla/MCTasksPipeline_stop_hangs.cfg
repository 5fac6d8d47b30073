SPECIFICATION FairSpec
CONSTANTS
    MaxConcurrentTasks = 1
    Tasks = {t1, t2}
    Stoppers = {s1}
    Rejections = {"handled", "fatal"}
    MaxStarts = 1
    MaxKicks = 1
PROPERTY StopResolves
CHECK_DEADLOCK FALSE
