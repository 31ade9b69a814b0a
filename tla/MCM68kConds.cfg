CONSTANTS
    ByteBits = 4
    PageSize = 32
    RamSize = 64
    CODE_BASE = 0
    DATA_BASE = 32
    MaxSprints = 1
    Budgets = {8}
    Data <- MCData
    OpcodeOf <- MCOpcodeOf
    Kernels <- CondKernels
    Program <- MCProgram
SPECIFICATION Spec
PROPERTY OnlySubsetConditions
CHECK_DEADLOCK FALSE
