CONSTANTS
    r1 = r1
    r2 = r2
    w1 = w1
    w2 = w2
    b1 = b1
    b2 = b2
    null = null
    Reader = {r1}
    Writer = {w1}
    Closer = {r1}
    Byte = {b1}
    Sizes = {1}
    RAMFS_DATANODE_SIZE = 2
    RAMFS_PIPE_SIZE = 4
    RoomRange = {3}
    NULL = null
SPECIFICATION Spec
INVARIANTS
    LockHasHolder
