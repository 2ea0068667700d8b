SPECIFICATION Spec
CONSTANTS
    Workers = {w1}
    Isolates = {i1}
    Concurrency = 1
    MaxTasks = 2
    Failing = {}
    MaxPops = 3
    Channels = {method}
    MethodChannels = {method}
    ZeroedHeap = TRUE
    Contract = FALSE
INVARIANT AnsweredOnce
CHECK_DEADLOCK FALSE
