CONSTANTS
    HeapSize = 28
    ArenaShare = 1
    BucketSizes <- OneClass
    SlabCount = 5
    Requests <- LargeRequests
    Data = {1000}
    MaxLive = 4
    Unwritten = 0
SPECIFICATION HeapSpec
INVARIANT RoutedRight
CHECK_DEADLOCK FALSE
