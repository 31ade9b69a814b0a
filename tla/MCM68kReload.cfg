CONSTANTS
    ByteBits = 4
    PageSize = 16
    RamSize = 64
    CODE_BASE = 4
    DATA_BASE = 32
    MPD_ENTRIES = 16
    MaxSprints = 3
    Budgets = {3, 14}
    Data <- MCData
    OpcodeOf <- MCOpcodeOf
    Kernels <- MCKernels
    Program <- MCWords
SPECIFICATION FairSpecH
INVARIANT ElisionSound
INVARIANT TableIsFresh
INVARIANT FlagsExactOrDead
PROPERTY SprintEnds
CHECK_DEADLOCK FALSE
