\* Two timers, one from the heap, under all commands.
SPECIFICATION FairSpec
CONSTANTS
    t1 = t1
    t2 = t2
    t3 = t3
    a1 = a1
    Timer = {t1, t2}
    NULL = NULL
    Dynamic = {t2}
    Setting <- MCSettings
    Arg = {a1}
    Command = {"START", "STOP", "CHG", "ARG_CHG_AUTO", "DEL", "DYN_DEL"}
    MsgNum = 1
    MaxTicks = 3
    MaxLag = 1
INVARIANTS
    TypeOK
    ListMatchesState
    WokenInTime
PROPERTIES
    NeverEarly
    ActiveIsCalled
