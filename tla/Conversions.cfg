SPECIFICATION Spec
CONSTANTS
    IntBits = 20
    LongBits = 28
    Bytes = {0, 77, 255}
    MaxBytes = 4
    Codes = {36, 2047, 2048, 65535, 65536, 1114111}
    RawBytes = {0, 65, 128, 195, 230, 240, 255}
    Rooms = {0, 1, 2, 3, 4, 5}
    Randoms = {165, 65370}
    Chars = {" ", "a", "A", "b"}
    MaxItems = 3
CHECK_DEADLOCK FALSE
INVARIANTS
    Base64RoundTrips
    UtfKeepsText
    UuidKeepsIdentity
    PrintfFormatsLikeC
    TextOperationsAgree
    GetoptSortsArguments
    SuboptsAreTakenInOrder
