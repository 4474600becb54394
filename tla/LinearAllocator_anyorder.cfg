SPECIFICATION Spec
CONSTANTS
    Capacity = 48
    Word = 256
    Requests = {0, 5}
    Arrays <- SmallArrays
    Disciplines = {"any"}
INVARIANTS
    AliveCellsStay
