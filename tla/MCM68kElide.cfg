CONSTANTS
    ByteBits = 4
    PageSize = 32
    RamSize = 64
    CODE_BASE = 4
    DATA_BASE = 32
    MPD_ENTRIES = 16
    MaxSprints = 1
    Budgets = {8}
    Data <- MCData
    OpcodeOf <- MCOpcodeOf
    Kernels <- MCKernels
    Program <- MCProgram
SPECIFICATION SpecH
INVARIANT TypeOK
INVARIANT FlagsExactOrDead
INVARIANT EagerIsExact
INVARIANT ElisionSound
PROPERTY ImplementsSwitch
CHECK_DEADLOCK FALSE
