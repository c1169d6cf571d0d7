SPECIFICATION StorageSpec
SYMMETRY Symmetry
CHECK_DEADLOCK FALSE
CONSTANTS
    fd1 = fd1
    fd2 = fd2
    Fd = {fd1, fd2}
    Modes <- MCModes
    Junk = 9
    ReadSizes = {2}
    Seeks <- MCSeeks
    RamTexts <- MCTexts
    Datanode = {1, 2}
    RAMFS_DATANODE_SIZE = 2
    WORD = 64
    FatTexts <- MCTexts
    CLUSTERS = 3
    BEHIND = 4
    CLUSTER_SIZE = 2
    UNIVERSAL_COPY_SIZE = 2
    fileA = fileA
    fileB = fileB
    Name <- MCName
    DirName <- MCDirName
    DIR_CLUSTERS = 8
    Residents <- MCResidents
    Lfn <- MCLfn
    FatCalls = 6
    DIRECTORY_ENTRY_COUNT = 3
    CHAINS = 10
    ROOM = 9
    RamCalls = 5
    Char = {"a", "A", "."}
    LEN = 4
    Others <- MCOthers
    BASE = 3
    EXT = 1
    PIECE = 3
    FILENAME_LIMIT = 5
INVARIANTS
    FileInPlace
    DirectoriesSound
    NamesFaithful
PROPERTIES
    IsByteFile
    IsDirectory
