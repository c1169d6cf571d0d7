CONSTANTS
    idle = idle
    kmain = kmain
    p1 = p1
    p2 = p2
    null = null
    sem1 = sem1
    sem2 = sem2
    Proc <- MCProc3
    Idle = idle
    Kmain = kmain
    NULL = null
    PROCESS_ALIVE_TICKS = 2
    SleepRequests = {0, 2}
    SleepBound = 3
    Sem <- MCSem1
    InitialCount <- MCCount
    Requests = {1}
    COUNT_MOD = 3
    HoldBound = 1
SPECIFICATION FairSpec
INVARIANTS
    SleepIsExact
PROPERTIES
    EveryoneRuns
