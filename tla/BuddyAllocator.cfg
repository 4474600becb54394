SPECIFICATION Spec
CONSTANTS
    TierNum = 4
    MinSize = 2
    BlockSize <- MCBlockSize
    Word = 64
    Requests = {0, 2, 3, 9}
    Arrays <- SmallArrays
    MaxLive = 4
INVARIANTS
    FlagsAreNested
    ChainsHoldFreeBlocks
    PointersAreFound
    UsedIsSumOfBlocks
    AllFreeIsWhole
    AvailableIsServed
PROPERTIES
    ImplementsBlockAllocator
