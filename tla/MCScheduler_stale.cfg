CONSTANTS
    c0 = c0
    c1 = c1
    CPU <- TwoCpus
    BSP = c0
    MaxTasks = 3
    VecCap = 4
    UserCodes = {7}
SPECIFICATION Spec
INVARIANT FreshDispatch
CHECK_DEADLOCK FALSE
