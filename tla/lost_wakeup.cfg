SPECIFICATION FairPoolSpec
CONSTANTS
    Workers = {w1}
    Isolates = {i1}
    Concurrency = 1
    MaxTasks = 1
    MaxPops = 2
PROPERTY EveryTaskTaken
CHECK_DEADLOCK FALSE
