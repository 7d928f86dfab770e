SPECIFICATION MCSpec
CONSTANTS
    MaxFd = 5
    null = null
    jtag_uart = jtag_uart
    hostfs = hostfs
    h1 = h1
    h2 = h2
    h3 = h3
    NoDev = NoDev
    NoHandle = NoHandle
    Null = null
    Console = jtag_uart
    Devices <- MCDevices
    FileSystems <- MCFileSystems
    Access = {"O_RDONLY", "O_WRONLY", "O_RDWR"}
    Handles <- MCHandles
    Names <- MCNames
    NameOf <- MCNameOf
    MaxSize = 2
    Errors = {5}
SYMMETRY HandleSymmetry
INVARIANTS HandlesLive PlaceKnown
PROPERTY ImplementsDescriptors
