\* Every element shape, lists of up to three nodes.
CONSTANTS
    EMPTY = EMPTY
    BlockSize <- MCBlockSize
    Kinds = {"String", "EmptyString", "None", "SomeBox", "Arc", "EmptyVec", "Vec"}
    MaxLen = 3
SPECIFICATION Spec
INVARIANT MeasuresReachableBlocks
INVARIANT OnlyBlocksQueried
