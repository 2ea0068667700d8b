\* One worker thread: the queue never underruns and every task runs once, in order.
SPECIFICATION FairPoolSpec
CONSTANTS
    Workers = {w1}
    Isolates = {i1}
    Concurrency = 1
    MaxTasks = 6
    MaxPops = 7
INVARIANTS PoolTypeOK NoUnderrun
PROPERTY ImplementsTaskPool
