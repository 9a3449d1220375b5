---------------------------- MODULE RhinoState ----------------------------
(***************************************************************************)
(* The data structures of the Rhino kernel (components/rhino): task        *)
(* control blocks, the ready queue, the tick list, the blocked lists of    *)
(* the kernel objects, and the helpers of k_sched.c, k_pend.c and k_tick.c *)
(* that move a task between them.                                          *)
(*                                                                         *)
(* Every kernel call runs with interrupts disabled, and most of them call  *)
(* several helpers that change the same lists one after the other.  The    *)
(* helpers are therefore functions from one kernel state k to the next; an *)
(* action computes a final k from Kernel and makes it the next state.      *)
(***************************************************************************)
EXTENDS FiniteSets, KList

CONSTANTS
    Task,          \* application tasks
    Idle,          \* the idle task, always ready
    Mutex,         \* kmutex_t objects
    Sem,           \* ksem_t objects
    NULL,
    WAIT_FOREVER,  \* RHINO_WAIT_FOREVER
    IdlePri,       \* RHINO_IDLE_PRI: application priorities are 0..IdlePri-1
    TimeSlice,     \* RHINO_CONFIG_TIME_SLICE_DEFAULT
    INHERIT        \* RHINO_CONFIG_MUTEX_INHERIT (k_default_config.h: 0)

ASSUME RhinoAssumption ==
    /\ IsFiniteSet(Task) /\ IsFiniteSet(Mutex)
    /\ Task \cap Mutex = {} /\ Task \cap Sem = {} /\ Mutex \cap Sem = {}
    /\ Idle \notin Task
    /\ NULL \notin Task \cup Mutex \cup Sem \cup {Idle, "sleep"}
    /\ "sleep" \notin Mutex
    /\ IdlePri \in Nat \ {0}
    /\ TimeSlice \in Nat \ {0}
    /\ INHERIT \in BOOLEAN

AllTask == Task \cup {Idle}
Obj     == Mutex \cup Sem
Prio    == 0..IdlePri

VARIABLES
    tcb,         \* ktask_t of every task
    ready,       \* g_ready_queue: per priority, from cur_list_item on
    tick,        \* g_tick_head: tasks with the ticks they still wait
    waitq,       \* blk_list of every object
    live,        \* objects whose obj_type is set
    mtx,         \* owner, next on the owner's list and nesting of a mutex
    count,       \* count of a semaphore
    kerr,        \* the error k_err_proc was called with: the system stops
    active,      \* g_active_task
    sched_lock,  \* g_sched_lock
    call,        \* what a task's unfinished blocking call waits on
    change       \* the priority change a task has checked, not yet made

kernelVars == <<tcb, ready, tick, waitq, live, mtx, count, kerr>>
vars       == <<kernelVars, active, sched_lock, call, change>>

Kernel == [tcb |-> tcb, ready |-> ready, tick |-> tick, waitq |-> waitq,
           live |-> live, mtx |-> mtx, count |-> count, kerr |-> kerr]

Pending   == {"PEND", "PEND_SUSPENDED"}
Sleeping  == {"SLEEP", "SLEEP_SUSPENDED"}
TaskState == Pending \cup Sleeping \cup {"RDY", "SUSPENDED", "DELETED"}
BlkState  == {"STALE", "FINISH", "ABORT", "TIMEOUT", "DEL"}
KernelError == {"NONE", "MUTEX_NESTED_OVF", "INV_TASK_STATE", "SYS_FATAL", "ENDLESS"}

-----------------------------------------------------------------------------
(* Ready queue. *)

ReadyAdd(k, t) == [k EXCEPT !.ready[k.tcb[t].prio] = Append(@, t)]

ReadyAddHead(k, t) == [k EXCEPT !.ready[k.tcb[t].prio] = <<t>> \o @]

ReadyRm(k, t) == [k EXCEPT !.ready[k.tcb[t].prio] = Unlink(@, t)]

(* cur_list_item moves on by one: the head of the ring becomes its tail. *)
HeadToTail(k, t) ==
    [k EXCEPT !.ready[k.tcb[t].prio] = Append(Tail(@), Head(@))]

HighestPri(k) == CHOOSE p \in Prio : /\ k.ready[p] # <<>>
                                     /\ \A q \in 0..(p-1) : k.ready[q] = <<>>

Preferred(k) == Head(k.ready[HighestPri(k)])

-----------------------------------------------------------------------------
(* Tick list, sorted by the ticks left; equal times keep arrival order. *)

TickInsert(k, t, n) ==
    LET i == SelectInSeq(k.tick, LAMBDA e : e.left > n)
    IN  [k EXCEPT !.tick = InsertBefore(@, i, [task |-> t, left |-> n])]

TickRm(k, t) ==
    LET i == SelectInSeq(k.tick, LAMBDA e : e.task = t)
    IN  IF i = 0 THEN k ELSE [k EXCEPT !.tick = RemoveAt(@, i)]

-----------------------------------------------------------------------------
(* Blocked lists, sorted by priority; equal priorities keep arrival order. *)

PendListAdd(k, o, t) ==
    LET i == SelectInSeq(k.waitq[o], LAMBDA u : k.tcb[u].prio > k.tcb[t].prio)
    IN  [k EXCEPT !.waitq[o] = InsertBefore(@, i, t)]

PendListRm(k, t) == [k EXCEPT !.waitq[k.tcb[t].blk_obj] = Unlink(@, t)]

(* Fault: a waiter keeps its place when its priority changes. *)
PendListReorderNone(k, t) == k

PendListReorder(k, t) == PendListAdd(PendListRm(k, t), k.tcb[t].blk_obj, t)

PendToBlkObj(k, o, t, n) ==
    LET k1 == [k EXCEPT !.tcb[t].blk_obj = o]
        k2 == IF n = WAIT_FOREVER THEN k1 ELSE TickInsert(k1, t, n)
        k3 == [k2 EXCEPT !.tcb[t].state = "PEND"]
    IN  PendListAdd(ReadyRm(k3, t), o, t)

(* Fault: the reason is not written. *)
UnpendReasonKept(k, t, b) ==
    LET k1 == PendListRm(k, t)
    IN  IF k.tcb[t].state = "PEND"
        THEN [ReadyAdd(k1, t) EXCEPT !.tcb[t].state = "RDY"]
        ELSE [k1 EXCEPT !.tcb[t].state = "SUSPENDED"]

(* Fault: a suspended waiter is queued too. *)
UnpendSuspendedQueued(k, t, b) ==
    LET state == IF k.tcb[t].state = "PEND" THEN "RDY" ELSE "SUSPENDED"
        k1 == ReadyAdd(PendListRm(k, t), t)
    IN  [k1 EXCEPT !.tcb[t].state = state, !.tcb[t].blk_state = b]

(* A waiter leaves its blocked list for the reason b: it becomes ready, or *)
(* stays suspended when it was.  A task that does not wait is an error.    *)
Unpend(k, t, b) ==
    LET k1 == PendListRm(k, t)
        k2 == CASE k.tcb[t].state = "PEND"
                     -> [ReadyAdd(k1, t) EXCEPT !.tcb[t].state = "RDY"]
                [] k.tcb[t].state = "PEND_SUSPENDED"
                     -> [k1 EXCEPT !.tcb[t].state = "SUSPENDED"]
                [] OTHER -> [k EXCEPT !.kerr = "SYS_FATAL"]
    IN  [k2 EXCEPT !.tcb[t].blk_state = b]

(* Fault: the timeout goes on. *)
PendTaskWakeupTimed(k, t) == [Unpend(k, t, "FINISH") EXCEPT !.tcb[t].blk_obj = NULL]

PendTaskWakeup(k, t) ==
    [TickRm(Unpend(k, t, "FINISH"), t) EXCEPT !.tcb[t].blk_obj = NULL]

PendTaskRm(k, t) ==
    [TickRm(Unpend(k, t, "DEL"), t) EXCEPT !.tcb[t].blk_obj = NULL]

(***************************************************************************)
(* Everything waiting on o is woken, head first, with or without success:  *)
(* the loops of sem_give and of the calls that delete an object, as the    *)
(* states after their rounds.                                              *)
(***************************************************************************)
WakeupFirst(k, o) == IF k.waitq[o] = <<>> THEN k ELSE PendTaskWakeup(k, Head(k.waitq[o]))
PendRmFirst(k, o) == IF k.waitq[o] = <<>> THEN k ELSE PendTaskRm(k, Head(k.waitq[o]))

WakeupRounds(k, o) ==
    LET round[i \in 0..Len(k.waitq[o])] ==
            IF i = 0 THEN k ELSE WakeupFirst(round[i-1], o)
    IN  round

PendRmRounds(k, o) ==
    LET round[i \in 0..Len(k.waitq[o])] ==
            IF i = 0 THEN k ELSE PendRmFirst(round[i-1], o)
    IN  round

WakeupAll(k, o) == WakeupRounds(k, o)[Len(k.waitq[o])]
PendRmAll(k, o) == PendRmRounds(k, o)[Len(k.waitq[o])]

(* What a blocking call returns once its task runs again. *)
PendStateEnd(t) ==
    IF tcb[t].cancel /\ call[t] \notin Mutex THEN "CANCELED"
    ELSE tcb[t].blk_state

-----------------------------------------------------------------------------
(* The kernel state k becomes the next state, and core_sched picks the     *)
(* task that runs unless the scheduler is locked.                          *)

Become(k) ==
    /\ tcb' = k.tcb     /\ ready' = k.ready /\ tick' = k.tick
    /\ waitq' = k.waitq /\ live' = k.live   /\ mtx' = k.mtx
    /\ count' = k.count /\ kerr' = k.kerr

(* Fault: only a task that blocked is switched away from. *)
CoreSchedBlockedOnly(k, lock) ==
    /\ Become(k)
    /\ sched_lock' = lock
    /\ active' = IF lock = 0 /\ k.tcb[active].state # "RDY" THEN Preferred(k) ELSE active

CoreSched(k, lock) ==
    /\ Become(k)
    /\ sched_lock' = lock
    /\ active' = IF lock = 0 THEN Preferred(k) ELSE active

NewTcb(p, s) ==
    [state |-> s, prio |-> p, b_prio |-> p,
     suspend |-> IF s = "SUSPENDED" THEN 1 ELSE 0,
     cancel |-> FALSE, blk_state |-> "STALE", blk_obj |-> NULL,
     mutex_list |-> NULL, slice |-> TimeSlice]

FreeMutex == [task |-> NULL, next |-> NULL, nested |-> 0]
=============================================================================
