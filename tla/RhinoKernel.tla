--------------------------- MODULE RhinoKernel ---------------------------
(***************************************************************************)
(* The Rhino kernel on one CPU: what the running task and the interrupts   *)
(* may do to tasks, mutexes and semaphores.  One action is one kernel call *)
(* (one interrupt-disabled section).  A call that blocks is two actions:   *)
(* the call, and PendEnd when the task runs again and reads why it was     *)
(* woken; so is the change of a priority, which looks at the task before   *)
(* it disables interrupts.  Anything may happen in between.  A call that   *)
(* fails changes nothing and has no action, unless it calls k_err_proc:    *)
(* the handler of every board is an endless loop, with interrupts          *)
(* disabled.                                                               *)
(***************************************************************************)
EXTENDS RhinoPriority

CONSTANTS
    InitPrio,    \* the priority each task is created with
    Changes,     \* <<t, u, p>>: t changes u's priority to p
    Timeouts,    \* tick arguments of the blocking calls
    Calls,       \* optional kernel calls this instance makes
    MaxNested,   \* bound on recursive locking
    MaxSuspend,  \* (suspend_nested_t)-1, the largest suspend_count
    MaxCount,    \* (sem_count_t)-1, the largest semaphore count
    MaxLock      \* SCHED_MAX_LOCK_COUNT

ASSUME KernelAssumption ==
    /\ InitPrio \in [Task -> 0..(IdlePri-1)]
    /\ Changes \subseteq Task \X Task \X (0..(IdlePri-1))
    /\ Timeouts \subseteq (Nat \ {0}) \cup {WAIT_FOREVER}
    /\ {MaxNested, MaxSuspend} \subseteq Nat \ {0}
    /\ {MaxCount, MaxLock} \subseteq Nat
    /\ NULL \notin Task \X Prio

InitTcb == [t \in AllTask |-> NewTcb(IF t = Idle THEN IdlePri ELSE InitPrio[t], "RDY")]

InitReady == [p \in Prio |->
    SetToSeq({t \in AllTask : InitTcb[t].prio = p})]

Init ==
    /\ tcb = InitTcb
    /\ ready = InitReady
    /\ tick = <<>>
    /\ waitq = [o \in Obj |-> <<>>]
    /\ live = Obj
    /\ mtx = [m \in Mutex |-> FreeMutex]
    /\ count = [s \in Sem |-> 0]
    /\ kerr = "NONE"
    /\ active = Preferred(Kernel)
    /\ sched_lock = 0
    /\ call = [t \in Task |-> NULL]
    /\ change = [t \in Task |-> NULL]

(* soc_err_proc has not been called. *)
Up == kerr = "NONE"

(* Task t runs application code: it is active and in no kernel call. *)
Runs(t) == Up /\ t = active /\ call[t] = NULL /\ change[t] = NULL

Alive(u) == tcb[u].state # "DELETED"

Resched(k) == CoreSched(k, sched_lock) /\ UNCHANGED <<call, change>>

NoResched(k) == Become(k) /\ UNCHANGED <<active, sched_lock, call, change>>

-----------------------------------------------------------------------------
(* Mutexes. *)

MutexCreate(t, m) ==
    /\ Runs(t) /\ m \notin live
    /\ NoResched([Kernel EXCEPT !.live = @ \cup {m}, !.mtx[m] = FreeMutex])

MutexLockNested(t, m) ==
    /\ Runs(t) /\ m \in live
    /\ mtx[m].task = t /\ mtx[m].nested < MaxNested
    /\ NoResched([Kernel EXCEPT !.mtx[m].nested = @ + 1])

MutexLockOverflow(t, m) ==
    /\ Runs(t) /\ m \in live
    /\ mtx[m].task = t /\ mtx[m].nested = MaxNested
    /\ NoResched([Kernel EXCEPT !.kerr = "MUTEX_NESTED_OVF"])

MutexLockFree(t, m) ==
    /\ Runs(t) /\ m \in live /\ mtx[m].task = NULL
    /\ NoResched(PushMutex([Kernel EXCEPT !.mtx[m].task = t,
                                          !.mtx[m].nested = 1], t, m))

(* Fault: the owner does not inherit the caller's priority. *)
MutexLockPendNoBoost(t, m, n) ==
    /\ Runs(t) /\ m \in live
    /\ mtx[m].task \notin {NULL, t}
    /\ sched_lock = 0
    /\ CoreSched(PendToBlkObj(Kernel, m, t, n), 0)
    /\ call' = [call EXCEPT ![t] = m] /\ UNCHANGED change

MutexLockPend(t, m, n) ==
    LET owner == mtx[m].task
        boosted == IF INHERIT /\ tcb[t].prio < tcb[owner].prio
                   THEN TaskPriChange(Kernel, owner, tcb[t].prio)
                   ELSE Kernel
    IN  /\ Runs(t) /\ m \in live
        /\ owner \notin {NULL, t}
        /\ sched_lock = 0
        /\ CoreSched(PendToBlkObj(boosted, m, t, n), 0)
        /\ call' = [call EXCEPT ![t] = m] /\ UNCHANGED change

MutexUnlockNested(t, m) ==
    /\ Runs(t) /\ m \in live
    /\ mtx[m].task = t /\ mtx[m].nested > 1
    /\ NoResched([Kernel EXCEPT !.mtx[m].nested = @ - 1])

(* Fault: any task may unlock. *)
MutexUnlockAnyone(t, m) ==
    LET down == [Kernel EXCEPT !.mtx[m].nested = 0]
        released == MutexRelease(down, mtx[m].task, m)
    IN  /\ Runs(t) /\ m \in live
        /\ mtx[m].task # NULL /\ mtx[m].nested = 1
        /\ IF waitq[m] = <<>>
           THEN NoResched([released EXCEPT !.mtx[m].task = NULL])
           ELSE Resched([HandOver(released, m) EXCEPT !.mtx[m].nested = 1])

MutexUnlock(t, m) ==
    LET down == [Kernel EXCEPT !.mtx[m].nested = 0]
        released == MutexRelease(down, t, m)
    IN  /\ Runs(t) /\ m \in live
        /\ mtx[m].task = t /\ mtx[m].nested = 1
        /\ IF waitq[m] = <<>>
           THEN NoResched([released EXCEPT !.mtx[m].task = NULL])
           ELSE Resched([HandOver(released, m) EXCEPT !.mtx[m].nested = 1])

MutexDel(t, m) ==
    LET dead == [Kernel EXCEPT !.live = @ \ {m}]
        owner == mtx[m].task
        released == IF owner = NULL THEN dead ELSE MutexRelease(dead, owner, m)
    IN  /\ Runs(t) /\ m \in live
        /\ Resched(PendRmAll(released, m))

-----------------------------------------------------------------------------
(* Semaphores.  A give may come from an interrupt, at any moment. *)

SemCreate(t, s) ==
    /\ Runs(t) /\ s \notin live
    /\ \E n \in 0..MaxCount :
         NoResched([Kernel EXCEPT !.live = @ \cup {s}, !.count[s] = n])

SemTake(t, s) ==
    /\ Runs(t) /\ s \in live /\ ~tcb[t].cancel
    /\ count[s] > 0
    /\ NoResched([Kernel EXCEPT !.count[s] = @ - 1])

(* Fault: the count was read before interrupts were disabled. *)
SemTakePendStale(t, s, n) ==
    /\ Runs(t) /\ s \in live /\ ~tcb[t].cancel
    /\ sched_lock = 0
    /\ CoreSched(PendToBlkObj(Kernel, s, t, n), 0)
    /\ call' = [call EXCEPT ![t] = s] /\ UNCHANGED change

SemTakePend(t, s, n) ==
    /\ Runs(t) /\ s \in live /\ ~tcb[t].cancel
    /\ count[s] = 0 /\ sched_lock = 0
    /\ CoreSched(PendToBlkObj(Kernel, s, t, n), 0)
    /\ call' = [call EXCEPT ![t] = s] /\ UNCHANGED change

SemGive(s) ==
    /\ Up /\ s \in live
    /\ IF waitq[s] = <<>>
       THEN count[s] < MaxCount /\ NoResched([Kernel EXCEPT !.count[s] = @ + 1])
       ELSE Resched(PendTaskWakeup(Kernel, Head(waitq[s])))

SemGiveAll(s) ==
    /\ Up /\ s \in live
    /\ waitq[s] # <<>>
    /\ Resched(WakeupAll(Kernel, s))

SemCountSet(t, s) ==
    /\ Runs(t) /\ s \in live
    /\ count[s] > 0 \/ waitq[s] = <<>>
    /\ \E n \in 0..MaxCount : NoResched([Kernel EXCEPT !.count[s] = n])

SemDel(t, s) ==
    /\ Runs(t) /\ s \in live
    /\ Resched(PendRmAll([Kernel EXCEPT !.live = @ \ {s}], s))

-----------------------------------------------------------------------------
(* Tasks. *)

(* pend_state_end_proc: the blocking call of the task that runs returns.   *)
(* The code leaves the old blk_state behind; marking it as stale shows a   *)
(* later call that would read it.                                          *)
PendEnd(t) ==
    /\ Up /\ t = active /\ call[t] # NULL
    /\ tcb' = [tcb EXCEPT ![t].blk_state = "STALE"]
    /\ call' = [call EXCEPT ![t] = NULL]
    /\ UNCHANGED <<ready, tick, waitq, live, mtx, count, kerr, active,
                   sched_lock, change>>

TaskSleep(t, n) ==
    /\ Runs(t) /\ n # WAIT_FOREVER /\ sched_lock = 0
    /\ CoreSched(ReadyRm(TickInsert([Kernel EXCEPT !.tcb[t].state = "SLEEP"], t, n), t), 0)
    /\ call' = [call EXCEPT ![t] = "sleep"] /\ UNCHANGED change

TaskYield(t) == Runs(t) /\ Resched(HeadToTail(Kernel, t))

TaskSuspend(t, u) ==
    LET state == tcb[u].state
        once == [Kernel EXCEPT !.tcb[u].suspend = 1]
    IN  /\ Runs(t) /\ (u = t => sched_lock = 0)
        /\ CASE state = "RDY"
                  -> Resched(ReadyRm([once EXCEPT !.tcb[u].state = "SUSPENDED"], u))
             [] state = "SLEEP"
                  -> Resched([once EXCEPT !.tcb[u].state = "SLEEP_SUSPENDED"])
             [] state = "PEND"
                  -> Resched([once EXCEPT !.tcb[u].state = "PEND_SUSPENDED"])
             [] state = "DELETED" -> FALSE
             [] OTHER -> /\ tcb[u].suspend < MaxSuspend
                         /\ Resched([Kernel EXCEPT !.tcb[u].suspend = @ + 1])

TaskResume(t, u) ==
    LET state == tcb[u].state
        less == [Kernel EXCEPT !.tcb[u].suspend = @ - 1]
    IN  /\ Runs(t)
        /\ state \in {"SUSPENDED", "SLEEP_SUSPENDED", "PEND_SUSPENDED"}
        /\ Resched(
             IF less.tcb[u].suspend > 0 THEN less
             ELSE CASE state = "SUSPENDED"
                         -> ReadyAdd([less EXCEPT !.tcb[u].state = "RDY"], u)
                    [] state = "SLEEP_SUSPENDED" -> [less EXCEPT !.tcb[u].state = "SLEEP"]
                    [] OTHER -> [less EXCEPT !.tcb[u].state = "PEND"])

(* krhino_task_pri_change: u is looked at, *)
TaskPriChangeCall(t, u, p) ==
    /\ Runs(t) /\ Alive(u) /\ <<t, u, p>> \in Changes
    /\ change' = [change EXCEPT ![t] = <<u, p>>]
    /\ UNCHANGED <<kernelVars, active, sched_lock, call>>

(* and its priority is changed, whatever became of u in between. *)
TaskPriChangeMake(t) ==
    LET u == change[t][1]
        p == change[t][2]
        limit == MutexPriLimit(Kernel, u, p)
        k == TaskPriChange([Kernel EXCEPT !.tcb[u].b_prio = p], u, limit)
    IN  /\ Up /\ t = active /\ change[t] # NULL
        /\ IF k.kerr # "NONE" THEN NoResched(k)
           ELSE /\ CoreSched(k, sched_lock)
                /\ change' = [change EXCEPT ![t] = NULL]
                /\ UNCHANGED call

WaitAborted(k, u) ==
    LET state == k.tcb[u].state
        ready1(x) == ReadyAdd([x EXCEPT !.tcb[u].state = "RDY"], u)
    IN  CASE state = "RDY" -> k
          [] state = "SUSPENDED" -> ready1(k)
          [] state \in Sleeping
                -> ready1([TickRm(k, u) EXCEPT !.tcb[u].blk_state = "ABORT"])
          [] OTHER
                -> LET off == PendListRm(TickRm(k, u), u)
                       k1 == ready1([off EXCEPT !.tcb[u].blk_state = "ABORT"])
                   IN  [MutexTaskPriReset(k1, u) EXCEPT !.tcb[u].blk_obj = NULL]

TaskWaitAbort(t, u) ==
    /\ Runs(t) /\ Alive(u)
    /\ Resched(WaitAborted(Kernel, u))

TaskCancel(t, u) ==
    LET marked == [Kernel EXCEPT !.tcb[u].cancel = TRUE]
    IN  /\ Runs(t)
        /\ IF Alive(u) THEN Resched(WaitAborted(marked, u)) ELSE NoResched(marked)

(* krhino_task_del frees the mutexes before it looks at the task's state; *)
(* nobody deletes a task that is deleted already.                         *)
TaskDel(t, u) ==
    /\ Runs(t) /\ Alive(u)
    /\ u = t => sched_lock = 0
    /\ CoreSched(TaskRemove(TaskMutexFree(Kernel, u), u), sched_lock)
    /\ call' = [call EXCEPT ![u] = NULL]
    /\ change' = [change EXCEPT ![u] = NULL]

TaskCreate(t, u, state) ==
    LET k == [Kernel EXCEPT !.tcb[u] = NewTcb(InitPrio[u], state)]
    IN  /\ Runs(t) /\ ~Alive(u)
        /\ IF state = "RDY" THEN Resched(ReadyAdd(k, u)) ELSE NoResched(k)

SchedDisable(t) ==
    /\ Runs(t) /\ sched_lock < MaxLock
    /\ sched_lock' = sched_lock + 1
    /\ UNCHANGED <<kernelVars, active, call, change>>

SchedEnable(t) ==
    /\ Runs(t) /\ sched_lock > 0
    /\ CoreSched(Kernel, sched_lock - 1)
    /\ UNCHANGED <<call, change>>

(* The tick interrupt: krhino_tick_proc, then krhino_intrpt_exit. *)
Tick == Up /\ Resched(TimeSliceUpdate(TickListUpdate(Kernel)))
-----------------------------------------------------------------------------
MutexStep(t) == \E m \in Mutex :
    \/ MutexLockNested(t, m)
    \/ MutexLockOverflow(t, m)
    \/ MutexLockFree(t, m)
    \/ \E n \in Timeouts : MutexLockPend(t, m, n)
    \/ MutexUnlockNested(t, m)
    \/ MutexUnlock(t, m)
    \/ "mutex_del" \in Calls /\ MutexDel(t, m)
    \/ "mutex_create" \in Calls /\ MutexCreate(t, m)

SemStep(t) == \E s \in Sem :
    \/ SemTake(t, s)
    \/ \E n \in Timeouts : SemTakePend(t, s, n)
    \/ "count_set" \in Calls /\ SemCountSet(t, s)
    \/ "sem_del" \in Calls /\ SemDel(t, s)
    \/ "sem_create" \in Calls /\ SemCreate(t, s)

TaskStep(t) == \E u \in Task :
    \/ "suspend" \in Calls /\ TaskSuspend(t, u)
    \/ "suspend" \in Calls /\ TaskResume(t, u)
    \/ \E p \in Prio : TaskPriChangeCall(t, u, p)
    \/ "abort" \in Calls /\ TaskWaitAbort(t, u)
    \/ "cancel" \in Calls /\ TaskCancel(t, u)
    \/ "task_del" \in Calls /\ TaskDel(t, u)
    \/ "task_create" \in Calls /\ \E s \in {"RDY", "SUSPENDED"} : TaskCreate(t, u, s)

SchedStep(t) ==
    \/ "sleep" \in Calls /\ \E n \in Timeouts : TaskSleep(t, n)
    \/ "yield" \in Calls /\ TaskYield(t)
    \/ SchedDisable(t)
    \/ SchedEnable(t)

(* soc_err_proc: while(1). *)
Stopped == ~Up /\ UNCHANGED vars

Next ==
    \/ \E t \in Task : \/ PendEnd(t) \/ TaskPriChangeMake(t)
                       \/ MutexStep(t) \/ SemStep(t) \/ TaskStep(t) \/ SchedStep(t)
    \/ \E s \in Sem : SemGive(s) \/ SemGiveAll(s)
    \/ Tick
    \/ Stopped

Spec == Init /\ [][Next]_vars

(* The timer interrupt stops only when the system does.  This is           *)
(* WF_tick(Tick): the tick interrupt is enabled unless k_err_proc was      *)
(* called, and it changes the tick list exactly when the list is not       *)
(* empty.  Written without ENABLED, which TLC evaluates too slowly on this *)
(* action.  Nothing is assumed about the tasks.                            *)
TickGoesOn == []<>(tick = <<>> \/ ~Up) \/ []<><<Tick>>_tick

FairSpec == Spec /\ TickGoesOn
=============================================================================
