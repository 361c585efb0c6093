\* Every query may fail, two allocating steps between the profiler's steps,
\* mallinfo fields whose sum overflows the (scaled) c_int.
CONSTANTS
    None = None
    StatmFiles <- MCStatmFiles
    Unreadable = Unreadable
    Junk = Junk
    PageSize = 4
    SegLists <- MCSegLists
    MallinfoVals <- MCMallinfoVals
    StatVals = {0, 1, 2}
    EpochCanFail = TRUE
    ReadCanFail = TRUE
    CIntBits = 8
    U64Bits = 12
    MaxAllocs = 2
SPECIFICATION Spec
INVARIANT SystemHeapExact
