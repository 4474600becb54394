SPECIFICATION Spec
CONSTANTS
    Capacity = 48
    Word = 256
    Requests = {0, 5, 12}
    Arrays <- SmallArrays
    Disciplines = {"stack", "arena"}
INVARIANTS
    AliveCellsStay
    AllFreeIsEmpty
PROPERTIES
    ImplementsBlockAllocator
