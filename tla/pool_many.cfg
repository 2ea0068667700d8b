\* Two isolates start two threads each: correct up to the first pop of an empty queue.
\* A worker stops at MaxPops, a bound of the model: deadlock is not an error.
SPECIFICATION FairPoolSpec
CONSTANTS
    Workers = {w1, w2, w3, w4}
    Isolates = {i1, i2}
    Concurrency = 2
    MaxTasks = 3
    MaxPops = 4
PROPERTIES ImplementsUntilUnderrun StrandedOnlyByStaleTest AwakeDrains
CHECK_DEADLOCK FALSE
