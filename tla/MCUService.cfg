\* An application task and two service tasks, of which one calls the other.
\* A task that waits without a timeout for a request that was dropped may wait
\* for ever, and when every task does, or no buffer is left, the system stops.
SPECIFICATION FairSpec
CONSTANTS
    a = a
    s = s
    t = t
    NULL = NULL
    App = {a}
    Utask = {s, t}
    Calls <- MCCalls
    Buf = {b1, b2}
    Depth = 2
    Tries = 2
INVARIANTS
    TypeOK
    HeldIsLive
PROPERTIES
    LostOnlyUnanswered
    CallsKept
    CallsReturn
CHECK_DEADLOCK FALSE
