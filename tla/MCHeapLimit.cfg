CONSTANTS
    Word = 32
    Align = 2
    PageSize = 8
    HeapBase = 3
    HeapPages = 3
    Requests = {0, 1, 31}
    MaxHeld = 2
SPECIFICATION HeapSpec
INVARIANTS
    HeaderCoversRequest
CHECK_DEADLOCK FALSE
