CONSTANTS
    c0 = c0
    c1 = c1
    CPU <- OneCpu
    BSP = c0
    MaxTasks = 3
    VecCap = 4
    UserCodes = {7}
SPECIFICATION KeyboardSpec
PROPERTY FaultResumesShell
CHECK_DEADLOCK FALSE
