CONSTANTS
    p = p
    q = q
    Process = {p, q}
    Slot = {1, 2}
    Node = {1, 2, 3, 4, 5, 6}
    Sem = {1, 2}
    Name <- MCName
    Fold <- MCFold
    Fat32 = {"d"}
    Paths <- MCPaths
    Modes = {{"create"}, {"create", "exclusive"}, {"onlydir"}}
    SemPaths <- MCSemPaths
    MountPairs <- MCMounts
    MaxMounts = 1
    Entries <- MCEntries
    MaxEntries = 7
    MAX_ALLOCATION = 2
    TakenNames = FALSE
SPECIFICATION Spec
SYMMETRY Symmetry
INVARIANTS
    TreeSound
    DescriptorsLive
    RefcountIsExact
PROPERTY
    NothingLeftUnused
