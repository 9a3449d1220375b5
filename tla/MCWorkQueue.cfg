\* Works with and without delay, run and cancelled by a task and by handlers.
SPECIFICATION FairSpec
CONSTANTS
    q1 = q1
    q2 = q2
    w1 = w1
    w2 = w2
    w3 = w3
    NULL = NULL
    Task = {t1}
    Timer = Timer
    Queue = {q1, q2}
    Work = {w1, w2, w3}
    Delayed = {w2}
    Home <- MCHome
    Deletable = {q2}
    Calling = {q1}
    MaxCmd = 2
INVARIANTS
    TokensMatch
    QueuedOnce
    CancelHolds
PROPERTIES
    AcceptedIsDone
