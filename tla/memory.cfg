\* Three buffers at two addresses; a handler may reply with the same buffer again.
SPECIFICATION Spec
CONSTANTS
    Replies = {r1, r2, r3}
    Addresses = {a1, a2}
    Sharing = TRUE
    Finalizing = 2
    ZeroedHeap = FALSE
SYMMETRY Symmetry
INVARIANTS TypeOK BytesBackedUntilStray NoOtherReleased ReleasedUnlessCrossed
CHECK_DEADLOCK FALSE
