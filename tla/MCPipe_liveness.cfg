CONSTANTS
    r1 = r1
    r2 = r2
    w1 = w1
    w2 = w2
    b1 = b1
    b2 = b2
    null = null
    Reader = {r1, r2}
    Writer = {w1}
    Closer = {}
    Byte = {b1}
    Sizes = {1, 3}
    RAMFS_DATANODE_SIZE = 2
    RAMFS_PIPE_SIZE = 2
    RoomRange = {2, 3}
    NULL = null
SPECIFICATION FairSpec
PROPERTIES
    CallsReturn
