SPECIFICATION Spec
CONSTANTS
    Replies = {r1, r2}
    Addresses = {a1}
    Sharing = FALSE
    Finalizing = 1
    ZeroedHeap = FALSE
INVARIANT RepliesBacked
CHECK_DEADLOCK FALSE
