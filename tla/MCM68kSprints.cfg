CONSTANTS
    ByteBits = 4
    PageSize = 64
    RamSize = 256
    CODE_BASE = 4
    DATA_BASE = 128
    WindowBase = 128
    STORE_BASE = 192
    Offsets = 64
    Passes = 5
    STREAM_LEN = 8
    MPD_ENTRIES = 48
    MaxSprints = 2
    Budgets = {0, 1, 5, 40}
    Data <- MCData
    OpcodeOf <- MCOpcodeOf
    Kernels <- MCKernels
    Program <- MCProgram
SPECIFICATION SpecH
INVARIANT FlagsExactOrDead KernelsRun Tame
PROPERTY ImplementsSwitch
CHECK_DEADLOCK FALSE
