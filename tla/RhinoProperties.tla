------------------------- MODULE RhinoProperties -------------------------
(***************************************************************************)
(* What the Rhino kernel guarantees about tasks, mutexes and semaphores.   *)
(***************************************************************************)
EXTENDS RhinoKernel

(* Every variable has the shape its C type gives it; a task outside kernel *)
(* calls is not blocked, and one whose blocking call is over knows why.    *)
TypeOK ==
    /\ \A t \in AllTask :
         /\ tcb[t].state \in TaskState
         /\ {tcb[t].prio, tcb[t].b_prio} \subseteq Prio
         /\ tcb[t].suspend \in 0..MaxSuspend
         /\ tcb[t].cancel \in BOOLEAN
         /\ tcb[t].blk_state \in BlkState
         /\ tcb[t].blk_obj \in Obj \cup {NULL}
         /\ tcb[t].mutex_list \in Mutex \cup {NULL}
         /\ tcb[t].slice \in 1..TimeSlice
    /\ ready \in [Prio -> Seq(AllTask)]
    /\ tick \in Seq([task : Task, left : Nat \ {0}])
    /\ waitq \in [Obj -> Seq(Task)]
    /\ live \subseteq Obj
    /\ mtx \in [Mutex -> [task : Task \cup {NULL}, next : Mutex \cup {NULL},
                          nested : 0..MaxNested]]
    /\ count \in [Sem -> 0..MaxCount]
    /\ kerr \in KernelError
    /\ active \in AllTask
    /\ sched_lock \in 0..MaxLock
    /\ call \in [Task -> Obj \cup {NULL, "sleep"}]
    /\ change \in [Task -> (Task \X Prio) \cup {NULL}]
    /\ \A t \in Task :
         IF call[t] = NULL THEN tcb[t].state \notin Pending \cup Sleeping
         ELSE tcb[t].state \in {"RDY", "SUSPENDED"} => tcb[t].blk_state # "STALE"

SortedBy(s, key(_)) == \A i, j \in DOMAIN s : i < j => key(s[i]) <= key(s[j])

(* The ready queue holds exactly the ready tasks, each once and on the     *)
(* list of its current priority, whatever wakes, suspends, deletes or      *)
(* re-prioritises them; and the running task is ready.                     *)
ReadyQueueSound ==
    /\ \A p \in Prio : /\ IsInjective(ready[p])
                       /\ Range(ready[p]) =
                            {t \in AllTask : tcb[t].state = "RDY" /\ tcb[t].prio = p}
    /\ tcb[active].state = "RDY"

(* With the scheduler unlocked the processor never runs a task while one   *)
(* of higher priority, or one queued before it, is ready: no kernel call   *)
(* and no interrupt forgets to reschedule.                                 *)
RunsHighest == sched_lock = 0 => active = Preferred(Kernel)

(* A blocked list holds exactly the tasks that wait for its object, sorted *)
(* by current priority although priorities change while tasks wait, and    *)
(* nobody waits for a deleted object.                                      *)
WaitListsSound ==
    \A o \in Obj :
        /\ IsInjective(waitq[o])
        /\ Range(waitq[o]) = {t \in Task : /\ tcb[t].state \in Pending
                                           /\ tcb[t].blk_obj = o}
        /\ SortedBy(waitq[o], LAMBDA t : tcb[t].prio)
        /\ waitq[o] # <<>> => o \in live

(* The tick list is sorted, lists a task once, lists every sleeper and     *)
(* nothing but sleepers and waiters: a task that was woken, aborted or     *)
(* deleted leaves no entry behind that would expire later.                 *)
TickListSound ==
    LET tasks == [i \in DOMAIN tick |-> tick[i].task]
    IN  /\ IsInjective(tasks)
        /\ SortedBy(tick, LAMBDA e : e.left)
        /\ \A t \in Range(tasks) : tcb[t].state \in Pending \cup Sleeping
        /\ \A t \in Task : tcb[t].state \in Sleeping => t \in Range(tasks)

(* A mutex somebody waits for has a live owner that is not itself among    *)
(* the waiters; otherwise the waiters could never be woken by an unlock.   *)
(* With inheritance, a task's list links exactly the mutexes it owns.      *)
OwnersSound ==
    /\ \A m \in Mutex : waitq[m] # <<>> =>
        /\ mtx[m].task # NULL
        /\ Alive(mtx[m].task)
        /\ mtx[m].task \notin Range(waitq[m])
    /\ INHERIT => \A t \in Task : Alive(t) =>
        /\ LET node == Links(Kernel, t)
           IN  \A i, j \in DOMAIN node : node[i] = node[j] /\ node[i] # NULL => i = j
        /\ Held(Kernel, t) = {m \in live \cap Mutex : mtx[m].task = t}

(* With inheritance, a task's priority is always the better of its base    *)
(* priority and the priorities of those waiting for its mutexes: no boost  *)
(* is missed and none is kept after a timeout, an abort, a deletion or a   *)
(* priority change of a waiter further down the chain.                     *)
PriorityInherited ==
    INHERIT => \A t \in Task : Alive(t) =>
        tcb[t].prio = Min({tcb[t].b_prio} \cup
            {tcb[w].prio : w \in UNION {Range(waitq[m]) :
                               m \in {x \in live \cap Mutex : mtx[x].task = t}}})

(* No unbounded inversion: while a task waits for a mutex whose owner      *)
(* could run, nothing of lower priority than the waiter is running.        *)
NoInversion ==
    INHERIT /\ sched_lock = 0 =>
        \A m \in Mutex, w \in Task :
            w \in Range(waitq[m]) /\ tcb[mtx[m].task].state = "RDY"
                => tcb[active].prio <= tcb[w].prio

(* A semaphore with a free count has no waiter: a give between the take    *)
(* that blocks and the moment the task is queued is not lost.              *)
NoLostGive == \A s \in Sem : waitq[s] # <<>> => count[s] = 0

(* k_err_proc stops the system for two reasons only: the running task      *)
(* locks its mutex more often than the nesting count holds, or it changes  *)
(* the priority of a task that was deleted after krhino_task_pri_change    *)
(* looked at it.  No list and no chain of waiting tasks and owners leads   *)
(* to a task in a state it must not be in, and task_pri_change ends, also  *)
(* when tasks wait for each other in a circle.                             *)
StopsOnlyOnMisuse ==
    CASE kerr = "NONE" -> TRUE
      [] kerr = "MUTEX_NESTED_OVF"
           -> \E m \in Mutex : mtx[m].task = active /\ mtx[m].nested = MaxNested
      [] kerr = "INV_TASK_STATE"
           -> active # Idle /\ change[active] # NULL /\ ~Alive(change[active][1])
      [] OTHER -> FALSE

-----------------------------------------------------------------------------
(* k_mutex.c:404 "mutex must be released by itself": an owned mutex        *)
(* changes hands only when its owner unlocks it, or is deleted, or the     *)
(* mutex is deleted.                                                       *)
ReleasedByOwner ==
    [][\A m \in live \cap Mutex :
          LET owner == mtx[m].task
          IN  owner # NULL /\ mtx'[m].task # owner
                => \/ Runs(owner) /\ mtx[m].nested = 1
                   \/ Alive(owner) /\ tcb'[owner].state = "DELETED"
      ]_vars

(* krhino_mutex_lock tells the truth when it returns, however long after   *)
(* the wake-up that is and whatever tasks were deleted or aborted in       *)
(* between: SUCCESS if and only if the caller owns the mutex, and then it  *)
(* holds it once, so that one unlock releases it again (k_mutex.c:308, "if *)
(* the same task get the same mutex again, it causes mutex owner nested"). *)
LockResultTrue ==
    [][\A t \in Task : call[t] \in Mutex \cap live /\ call'[t] = NULL /\ tcb'[t].state # "DELETED" =>
          LET m == mtx[call[t]]
          IN  IF PendStateEnd(t) = "FINISH" THEN m.task = t /\ m.nested = 1
              ELSE m.task # t
      ]_vars

(* k_task.c:905 "free all the mutex which task hold": a deleted task owns  *)
(* no mutex.                                                               *)
DeletedOwnsNothing ==
    \A m \in live \cap Mutex : mtx[m].task # NULL => Alive(mtx[m].task)

(* A wait or a sleep with a timeout ends; suspending the task does not     *)
(* stop its clock.                                                         *)
TimedWaitEnds ==
    \A t \in Task : (\E i \in DOMAIN tick : tick[i].task = t)
                        ~> (tcb[t].state \notin Pending \cup Sleeping)
=============================================================================
