\* The built configuration: a deleted task keeps its mutexes.
SPECIFICATION Spec
CONSTANTS
    t1 = t1
    t2 = t2
    t3 = t3
    m1 = m1
    m2 = m2
    s1 = s1
    Task = {t1, t2}
    Mutex = {m1}
    Sem = {}
    Idle = Idle
    NULL = NULL
    WAIT_FOREVER = WAIT_FOREVER
    IdlePri = 2
    TimeSlice = 1
    INHERIT = FALSE
    InitPrio <- MCPrio2
    Changes = {}
    Timeouts = {1, WAIT_FOREVER}
    Calls = {"task_del"}
    MaxNested = 1
    MaxSuspend = 1
    MaxCount = 1
    MaxLock = 0
INVARIANTS
    DeletedOwnsNothing
