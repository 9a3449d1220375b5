\* The built configuration: semaphores deleted under waiters, sleeping, cancelled and suspended tasks, round robin.
SPECIFICATION FairSpec
CONSTANTS
    t1 = t1
    t2 = t2
    t3 = t3
    m1 = m1
    m2 = m2
    s1 = s1
    Task = {t1, t2, t3}
    Mutex = {}
    Sem = {s1}
    Idle = Idle
    NULL = NULL
    WAIT_FOREVER = WAIT_FOREVER
    IdlePri = 3
    TimeSlice = 1
    INHERIT = FALSE
    InitPrio <- MCPrioShared
    Changes = {}
    Timeouts = {1, WAIT_FOREVER}
    Calls = {"suspend", "cancel", "sem_del", "sleep", "sem_create", "yield", "count_set"}
    MaxNested = 1
    MaxSuspend = 1
    MaxCount = 1
    MaxLock = 1
INVARIANTS
    ReadyQueueSound
    RunsHighest
    NoLostGive
PROPERTIES
    TimedWaitEnds
