SPECIFICATION Spec
CONSTANTS
    Workers = {w1, w2}
    Isolates = {i1}
    Concurrency = 2
    MaxTasks = 2
    Failing = {}
    MaxPops = 3
    Channels = {raw}
    MethodChannels = {}
    ZeroedHeap = TRUE
    Contract = TRUE
INVARIANT CompleterPresent
CHECK_DEADLOCK FALSE
