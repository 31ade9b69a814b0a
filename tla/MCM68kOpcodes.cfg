CONSTANTS
    ByteBits = 7
    PageSize = 64
    RamSize = 128
    CODE_BASE = 0
    DATA_BASE = 64
    MPD_ENTRIES = 28
    MaxSprints = 1
    Budgets = {17}
    Data <- MCData
    OpcodeOf <- MCOpcodeOf
    Kernels <- MCKernels
    Program <- MCProgram
SPECIFICATION SpecH
PROPERTY ImplementsSwitch
CHECK_DEADLOCK FALSE
