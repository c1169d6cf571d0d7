CONSTANTS
    Owner = {o1, o2, o3}
    Sizes = {2, 6}
    HEAP_SIZE = 4
    HEADER_SIZE = 3
    MIN_REGION_SIZE = 1
    MMNGR_PAGE_SIZE = 16
    InitialPages = 1
    MaxPages = 3
    WORD = 1024
SPECIFICATION Spec
INVARIANTS
    BlocksDisjoint
