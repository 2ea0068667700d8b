\* Two names, every pair of distinct digests of three two-bit bytes; the map grows at the second.
SPECIFICATION Spec
CONSTANTS
    Names = {n1, n2}
    ByteBits = 2
    Taken = 3
    Capacity = 1
INVARIANTS TypeOK SidesAgree CollideBySameTail OwnHandler
