CONSTANTS
    idle = idle
    kmain = kmain
    p1 = p1
    p2 = p2
    null = null
    sem1 = sem1
    sem2 = sem2
    Proc <- MCProc4
    Idle = idle
    Kmain = kmain
    NULL = null
    PROCESS_ALIVE_TICKS = 1
    SleepRequests = {}
    SleepBound = 0
    Sem <- MCSem1
    InitialCount <- MCCount
    Requests = {1, 2}
    COUNT_MOD = 4
    HoldBound = 2
SPECIFICATION Spec
SYMMETRY MCSymmetry
INVARIANTS
    TypeOK
    EveryProcessInOnePlace
    AlwaysSomethingToRun
    StateMatchesQueue
    NoLostWakeup
    UnitsConserved
