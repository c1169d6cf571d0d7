CONSTANTS
    r1 = r1
    r2 = r2
    w1 = w1
    w2 = w2
    b1 = b1
    b2 = b2
    null = null
    Reader = {r1, r2}
    Writer = {w1, w2}
    Closer = {r1, r2}
    Byte = {b1, b2}
    Sizes = {0, 1, 3}
    RAMFS_DATANODE_SIZE = 2
    RAMFS_PIPE_SIZE = 4
    RoomRange = {4}
    NULL = null
SPECIFICATION Spec
SYMMETRY MCSymmetry
INVARIANTS
    UnitsMatchContents
    BulkNeverBlocks
    DatanodesBounded
    LockExclusive
PROPERTY
    IsFifo
CHECK_DEADLOCK FALSE
