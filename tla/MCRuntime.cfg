CONSTANTS
    PageSize = 2
    PageLimit = 3
    ArenaSizes = {2, 3}
    TableSize = 2
    Bytes = {0, 1}
    Widths = {1, 2}
    Offsets = {0, 5}
    Sigs = {"i", "v"}
    Modules <- AllModules
SPECIFICATION Spec
INVARIANTS
    TypeOK
    MemoryInsideArena
    FreshPagesAreZero
    TableTypesAgree
PROPERTIES
    ImplementsInstance
CHECK_DEADLOCK FALSE
