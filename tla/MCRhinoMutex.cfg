\* Inheritance: timeouts, aborted and suspended waiters, changing priorities, waiting in a circle.
SPECIFICATION Spec
CONSTANTS
    t1 = t1
    t2 = t2
    t3 = t3
    m1 = m1
    m2 = m2
    s1 = s1
    Task = {t1, t2, t3}
    Mutex = {m1, m2}
    Sem = {}
    Idle = Idle
    NULL = NULL
    WAIT_FOREVER = WAIT_FOREVER
    IdlePri = 3
    TimeSlice = 1
    INHERIT = TRUE
    InitPrio <- MCPrio3
    Changes <- MCChanges
    Timeouts = {1, WAIT_FOREVER}
    Calls = {"abort", "suspend"}
    MaxNested = 1
    MaxSuspend = 1
    MaxCount = 1
    MaxLock = 0
INVARIANTS
    TypeOK
    TickListSound
    PriorityInherited
    NoInversion
    WaitListsSound
PROPERTIES
    LockResultTrue
