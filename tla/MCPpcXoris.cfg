CONSTANTS
    ByteBits = 3
    PageSize = 64
    RamSize = 512
    CODE_BASE = 16
    DATA_BASE = 256
    REGION = 256
    MaxSprints = 1
    Budgets = {2}
    Data <- MCData
    InsnOf <- MCInsnOf
    Kernels <- MCKernels
    Program <- MCProgram
SPECIFICATION FairSpec
PROPERTY OutsideSubsetIsFatal
CHECK_DEADLOCK FALSE
