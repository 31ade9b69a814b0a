CONSTANTS
    ByteBits = 3
    PageSize = 64
    RamSize = 512
    CODE_BASE = 16
    DATA_BASE = 256
    REGION = 256
    MaxSprints = 1
    Budgets = {7, 60}
    Data <- MCData
    InsnOf <- MCInsnOf
    Kernels <- MCKernels
    Program <- MCProgram
SPECIFICATION Spec
INVARIANT TypeOK ZeroBaseStaysZero
PROPERTY ImplementsMachine OutsideSubsetIsFatal
CHECK_DEADLOCK FALSE
