\* Two isolates, one after the other or side by side, sharing the pool and replyPort_,
\* and handlers that may answer twice, or answer and then throw.
SPECIFICATION Spec
CONSTANTS
    Workers = {w1, w2}
    Isolates = {i1, i2}
    Concurrency = 1
    MaxTasks = 2
    Failing = {}
    MaxPops = 3
    Channels = {method}
    MethodChannels = {method}
    ZeroedHeap = TRUE
    Contract = FALSE
SYMMETRY WorkerSymmetry
CONSTRAINT LittlePastUnderrun
INVARIANT ForeignAnswersOnly
PROPERTY CompletedOnce
CHECK_DEADLOCK FALSE
