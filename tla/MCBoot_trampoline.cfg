CONSTANTS
    MemoryMaps <- MCMemoryMaps
    FANOUT = 4
    HEAP_PAGES = 2
    STACK_PAGES = 2
    TRAMPOLINE = 2
    USER_HEAP_BASE = 128
    Rsdps <- MCRsdps
    Found <- MCFound
    Framebuffer <- MCFramebuffer
    DevicePages <- MCDevicePages
    ApicPages <- MCApicPages
    KernelStack <- MCKernelStack
    Files <- MCFiles
SPECIFICATION BootSpec
INVARIANT TrampolineSafe
CHECK_DEADLOCK FALSE
