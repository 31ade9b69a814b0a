CONSTANTS
    ByteBits = 2
    PageSize = 4
    RamSize = 4
SPECIFICATION Spec
INVARIANT ConditionsCompare
INVARIANT OverflowIsExact
