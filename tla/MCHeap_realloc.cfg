CONSTANTS
    HeapSize = 32
    ArenaShare = 1
    BucketSizes <- TwoClasses
    SlabCount = 3
    Requests <- SmallRequests
    Data = {0}
    MaxLive = 3
    Unwritten = 1
SPECIFICATION HeapSpec
INVARIANT ReallocKeeps
CHECK_DEADLOCK FALSE
