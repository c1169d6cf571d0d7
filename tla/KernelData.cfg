SPECIFICATION DataSpec
SYMMETRY Symmetry
CONSTANTS
    TotalBlock = 8
    ChunkBits = 3
    KernelBlocks = 1
    Counts = {0, 1, 2, 3}
    Owner = {o1, o2, o3, o4}
    HEAP_SIZE = 4
    HEADER_SIZE = 3
    MIN_REGION_SIZE = 1
    FullSizes = {1, 2, 4, 5, 9}
    FullPage = 10
    FullPages = 4
    GrowSizes = {13, 29}
    GrowPage = 20
    GrowPages = 2
    GrowLimit = 4
    Proc = {idle, kmain, p1, p2}
    Idle = idle
    Kmain = kmain
    Nil = null
    SleepRequests = {0, 1, 2}
    SLEEP_BOUND = 3
    AnyPreempt = FALSE
INVARIANTS
    FramesSound
    HeapSound
    ListsAgree
PROPERTY
    IsFrameAllocator
