CONSTANTS
    ByteBits = 3
    PageSize = 64
    RamSize = 512
    CODE_BASE = 16
    DATA_BASE = 256
    REGION = 256
    WindowBase = 256
    STORE_BASE = 320
    WrapMask = 60
    Offsets = 64
    STREAM_LEN = 14
    MaxSprints = 2
    Budgets = {0, 45}
    Data <- MCData
    InsnOf <- MCInsnOf
    Kernels <- MCKernels
    Program <- MCProgram
SPECIFICATION FairSpec
INVARIANT KernelsRun TableIsRam
PROPERTY ImplementsMachine CallsReturn
CHECK_DEADLOCK FALSE
