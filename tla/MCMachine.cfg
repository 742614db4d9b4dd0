CONSTANTS
    MemoryMaps <- MCMemoryMaps
    FANOUT = 4
    HEAP_PAGES = 2
    STACK_PAGES = 2
    TRAMPOLINE = 2
    USER_HEAP_BASE = 128
    Rsdps <- MCRsdps
    Found <- MCFound
    Framebuffer <- MCFramebuffer
    DevicePages <- MCDevicePages
    ApicPages <- MCApicPages
    KernelStack <- MCKernelStack
    Files <- MCFiles
    MAX_AP_COUNT = 3
    MAX_CPUS = 4
    BspId = 1
    Madts <- MCMadts
    Buses = 1
    Devices = 2
    Functions = 2
    BarBits = 6
    Machines <- MCMachines
    QueueSize = 3
    RING_SIZE = 3
    Packets <- MCPackets
    Items = {"a", "b"}
    Usable = 4
    EventSize = 4
    KBD_BUF_SIZE = 4
SPECIFICATION MCSpec
INVARIANTS
    MachineTypeOK UserPagesOnly PanicHasCause
    ProcessorsApart NobodyForgotten ControllersReady
    CompletionsMatch ChecksumVerifies
PROPERTIES
    NetRingsAreFifo UsbRingsAreFifo GivenOnce MappingsKept PartsGoOn
CHECK_DEADLOCK FALSE
