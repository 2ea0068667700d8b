SPECIFICATION Spec
CONSTANTS
    Workers = {w1, w2}
    Isolates = {i1, i2}
    Concurrency = 1
    MaxTasks = 2
    Failing = {}
    MaxPops = 3
    Channels = {raw}
    MethodChannels = {}
    ZeroedHeap = TRUE
    Contract = TRUE
INVARIANT AnswersMatch
CHECK_DEADLOCK FALSE
