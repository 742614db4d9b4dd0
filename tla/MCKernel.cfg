CONSTANTS
    c0 = c0
    c1 = c1
    c2 = c2
    CPU <- TwoCpus
    BSP = c0
    MaxTasks = 4
    VecCap = 2
    UserCodes = {7}
    HeapSize = 32
    ArenaShare = 1
    BucketSizes <- MCBucketSizes
    SlabCount = 3
    Requests <- MCRequests
    Data = {1000}
    MaxLive = 3
    Unwritten = 0
    LockCpu <- ThreeCpus
    MayFault <- TwoFaulty
SPECIFICATION MCSpec
INVARIANTS
    TypeOK OneCpuPerTask StatusMatchesCpus StacksFollowTask FreshWhileAlone NoHaltWhileAlone
    HeapPartitioned AllocationsKept
    ExclusiveUnlessForced FlagMatchesGuards NoSelfDeadlock
PROPERTIES TerminatedForever InitIsRun LockTaken
CHECK_DEADLOCK FALSE
