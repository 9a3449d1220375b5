-------------------------- MODULE RhinoPriority --------------------------
(***************************************************************************)
(* Task priorities and the mutexes that change them: mutex_pri_look,       *)
(* mutex_pri_limit, mutex_release, mutex_task_pri_reset (k_mutex.c) and    *)
(* task_pri_change, task_mutex_free (k_task.c).                            *)
(*                                                                         *)
(* A task's mutexes form a linked list (ktask_t.mutex_list and             *)
(* kmutex_t.mutex_list).  The links are kept, not the set they denote:     *)
(* the code reads them after the list they belonged to has changed.        *)
(***************************************************************************)
EXTENDS RhinoState

(* t's list: the mutexes met by following the links, NULL from its end on. *)
Links(k, t) ==
    LET node[i \in 0..Cardinality(Mutex)] ==
            IF i = 0 THEN k.tcb[t].mutex_list
            ELSE IF node[i-1] = NULL THEN NULL ELSE k.mtx[node[i-1]].next
    IN  node

Held(k, t) == Range(Links(k, t)) \ {NULL}

PushMutex(k, t, m) ==
    IF INHERIT
    THEN [k EXCEPT !.mtx[m].next = k.tcb[t].mutex_list,
                   !.tcb[t].mutex_list = m]
    ELSE k

(* Fault: always takes the head of the list. *)
UnlinkMutexHead(k, t, m) == [k EXCEPT !.tcb[t].mutex_list = k.mtx[m].next]

(* Unlink m; mutex_pri_look does this while it walks the list. *)
UnlinkMutex(k, t, m) ==
    IF k.tcb[t].mutex_list = m
    THEN [k EXCEPT !.tcb[t].mutex_list = k.mtx[m].next]
    ELSE [k EXCEPT !.mtx = [x \in Mutex |->
              IF x \in Held(k, t) /\ @[x].next = m
              THEN [@[x] EXCEPT !.next = k.mtx[m].next] ELSE @[x]]]

HeadPrios(k, t) ==
    {k.tcb[Head(k.waitq[m])].prio : m \in {h \in Held(k, t) : k.waitq[h] # <<>>}}

MutexPriLook(k, t) ==
    IF INHERIT THEN Min({k.tcb[t].b_prio} \cup HeadPrios(k, t))
    ELSE k.tcb[t].b_prio

MutexPriLimit(k, t, p) ==
    IF INHERIT THEN Min({p} \cup HeadPrios(k, t)) ELSE p

(***************************************************************************)
(* task_pri_change: a loop that sets one task's priority and, when that    *)
(* task waits for a mutex, goes on with the owner.  PriStep is one round,  *)
(* on the loop variables task and pri; PriFuel bounds the rounds, and a    *)
(* loop that is not over by then is the error ENDLESS.                     *)
(***************************************************************************)
PriFuel == (Cardinality(Task) + 1) * (IdlePri + 1)

NextInChain(k, o, p, old) ==
    LET owner == k.mtx[o].task
        look  == MutexPriLook(k, owner)
    IN  CASE k.tcb[owner].prio > p -> [k |-> k, task |-> owner, pri |-> p]
          [] k.tcb[owner].prio <= p /\ k.tcb[owner].prio = old /\ look # old
                -> [k |-> k, task |-> owner, pri |-> look]
          [] OTHER -> [k |-> k, task |-> NULL, pri |-> p]

PriStep(s) ==
    LET k == s.k  t == s.task  p == s.pri
        state == k.tcb[t].state
        set   == [k EXCEPT !.tcb[t].prio = p]
        stop  == [s EXCEPT !.task = NULL]
    IN  CASE t = NULL -> s
          [] t # NULL /\ k.tcb[t].prio = p -> stop
          [] t # NULL /\ k.tcb[t].prio # p /\ state = "RDY"
                -> LET k1 == [ReadyRm(k, t) EXCEPT !.tcb[t].prio = p]
                   IN  [stop EXCEPT !.k = IF t = active THEN ReadyAddHead(k1, t)
                                          ELSE ReadyAdd(k1, t)]
          [] t # NULL /\ k.tcb[t].prio # p /\ state \in Sleeping \cup {"SUSPENDED"}
                -> [stop EXCEPT !.k = set]
          [] t # NULL /\ k.tcb[t].prio # p /\ state \in Pending
                -> LET o == k.tcb[t].blk_obj
                       k1 == PendListReorder(set, t)
                   IN  IF o \in Mutex \cap k.live
                       THEN NextInChain(k1, o, p, k.tcb[t].prio)
                       ELSE [stop EXCEPT !.k = k1]
          [] OTHER -> [stop EXCEPT !.k.kerr = "INV_TASK_STATE"]

PriRounds(k, t, p) ==
    LET round[i \in 0..PriFuel] ==
            IF i = 0 THEN [k |-> k, task |-> t, pri |-> p]
            ELSE PriStep(round[i-1])
    IN  round

TaskPriChange(k, t, p) ==
    LET end == PriRounds(k, t, p)[PriFuel]
    IN  IF end.task = NULL THEN end.k ELSE [end.k EXCEPT !.kerr = "ENDLESS"]

(* Owner t gives up m (or nothing, m = NULL) and its priority is set anew. *)
MutexRelease(k, t, m) ==
    LET k1 == IF INHERIT /\ m # NULL /\ m \in Held(k, t)
              THEN UnlinkMutex(k, t, m) ELSE k
        p == MutexPriLook(k1, t)
    IN  IF p # k1.tcb[t].prio THEN TaskPriChange(k1, t, p) ELSE k1

(* Fault: the owner keeps what it inherited. *)
MutexTaskPriResetNone(k, t) == k

(* Task t stopped waiting: its mutex's owner may lose an inherited priority. *)
MutexTaskPriReset(k, t) ==
    LET o == k.tcb[t].blk_obj
        owner == k.mtx[o].task
    IN  IF /\ INHERIT
           /\ o \in Mutex \cap k.live
           /\ k.tcb[owner].prio = k.tcb[t].prio
        THEN MutexRelease(k, owner, NULL)
        ELSE k

(* Fault: the new owner is not recorded. *)
HandOverUnowned(k, m) ==
    LET next == Head(k.waitq[m])
    IN  PushMutex(PendTaskWakeup(k, next), next, m)

(* The mutex m goes to its first waiter.  TaskMutexFree leaves owner_nested *)
(* as it was; the unlock sets it.                                           *)
HandOver(k, m) ==
    LET next == Head(k.waitq[m])
        k1 == [PendTaskWakeup(k, next) EXCEPT !.mtx[m].task = next]
    IN  PushMutex(k1, next, m)

FreeOne(k, m) == IF k.waitq[m] # <<>> THEN HandOver(k, m)
                 ELSE [k EXCEPT !.mtx[m].task = NULL]

FreeStep(s) ==
    IF s.mutex = NULL THEN s
    ELSE [k |-> FreeOne(s.k, s.mutex), mutex |-> s.k.mtx[s.mutex].next]

(* Fault: the task's mutexes are left alone. *)
TaskMutexFreeNone(k, t) == k

(* Each link is read before its mutex is handed over. *)
FreeRounds(k, t) ==
    LET round[i \in 0..Cardinality(Mutex)] ==
            IF i = 0 THEN [k |-> k, mutex |-> k.tcb[t].mutex_list]
            ELSE FreeStep(round[i-1])
    IN  round

TaskMutexFree(k, t) == FreeRounds(k, t)[Cardinality(Mutex)].k

(* A waiting, suspended or sleeping task is taken off its lists for good. *)
TaskRemove(k, t) ==
    LET state == k.tcb[t].state
        gone(x) == [x EXCEPT !.tcb[t].state = "DELETED"]
    IN  CASE state = "RDY" -> gone(ReadyRm(k, t))
          [] state = "SUSPENDED" -> gone(k)
          [] state \in Sleeping -> gone(TickRm(k, t))
          [] state \in Pending
                -> MutexTaskPriReset(gone(PendListRm(TickRm(k, t), t)), t)
          [] state = "DELETED" -> k

(* tick_list_update: a task whose time is over. *)
Expire(k, t) ==
    LET k1 == TickRm(k, t)
        state == k.tcb[t].state
    IN  CASE state = "SLEEP"
                -> ReadyAdd([k1 EXCEPT !.tcb[t].blk_state = "FINISH",
                                       !.tcb[t].state = "RDY"], t)
          [] state = "SLEEP_SUSPENDED"
                -> [k1 EXCEPT !.tcb[t].blk_state = "FINISH",
                              !.tcb[t].state = "SUSPENDED"]
          [] state \in Pending
                -> [MutexTaskPriReset(Unpend(k1, t, "TIMEOUT"), t)
                        EXCEPT !.tcb[t].blk_obj = NULL]
          [] OTHER -> [k EXCEPT !.kerr = "SYS_FATAL"]

Aged(k) ==
    [k EXCEPT !.tick = [i \in DOMAIN @ |-> [task |-> @[i].task, left |-> @[i].left - 1]]]

(* The list is sorted: the first task that still has time ends the search. *)
ExpireFirst(k) ==
    IF k.tick # <<>> /\ Head(k.tick).left = 0 THEN Expire(k, Head(k.tick).task) ELSE k

(* Fault: one task is woken, the others that are due are lost. *)
TickListUpdateFirst(k) ==
    LET k1 == ExpireFirst(Aged(k))
    IN  [k1 EXCEPT !.tick = SelectSeq(@, LAMBDA e : e.left > 0)]

TickRounds(k) ==
    LET round[i \in 0..Len(k.tick)] == IF i = 0 THEN Aged(k) ELSE ExpireFirst(round[i-1])
    IN  round

TickListUpdate(k) == TickRounds(k)[Len(k.tick)]

(* Round robin among ready tasks of the running task's priority. *)
TimeSliceUpdate(k) ==
    LET left == k.tcb[active].slice - 1
    IN  IF Len(k.ready[k.tcb[active].prio]) <= 1 THEN k
        ELSE IF left > 0 THEN [k EXCEPT !.tcb[active].slice = left]
        ELSE [HeadToTail(k, active) EXCEPT !.tcb[active].slice = TimeSlice]
=============================================================================
