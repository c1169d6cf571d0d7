SPECIFICATION MachineSpec
CONSTANTS
    Users <- UserProcesses
    Threads <- KernelThreads
    Boot = "idle"
    Kmain = "kmain"
    EVENTS = 6
    SECTORS = 3
    Partitions <- PartitionTable
    WORDS = 2
    Values = {0, 1}
    MAX_COUNT = 1
    ACCESSES = 3
    MINUTE = 4
    HOUR = 3
    FREQUENCY = 2
    Starts <- StartTimes
    RTC_TICKS = 2
    SECONDS = 2
    DAYS = 62
INVARIANTS
    AccessSound
    DatesRight
PROPERTIES
    ContextsKept
    LinesServed
    AccessReturns
CHECK_DEADLOCK FALSE
