\* Three timers that expire together leave the list unsorted.
SPECIFICATION Spec
CONSTANTS
    t1 = t1
    t2 = t2
    t3 = t3
    a1 = a1
    Timer = {t1, t2, t3}
    NULL = NULL
    Dynamic = {}
    Setting <- MCPeriodic
    Arg = {a1}
    Command = {"START"}
    MsgNum = 1
    MaxTicks = 3
    MaxLag = 1
INVARIANTS
    SortedByMatch
