SPECIFICATION Spec
CHECK_DEADLOCK FALSE
CONSTANTS
    FRAMES = 10
    ENTRIES = 2
    USER_TABLES = 2
    HEAP_TABLES = 2
    HEAP_MIN = 1
    USER_STACK = 1
    PAGE = 2
    Images <- Programs
    SPAWNS = 3
INVARIANTS
    RunnableComplete
    KernelHalfShared
    FramesAccounted
