----------------------------- MODULE WorkQueue -----------------------------
(***************************************************************************)
(* Rhino work queues (components/rhino/k_workqueue.c).  Any task, a        *)
(* handler included, hands works to the worker task of a queue; a delayed  *)
(* work is handed over by the callback of its software timer.  One action  *)
(* is one critical section or one call into the kernel.                    *)
(***************************************************************************)
EXTENDS Naturals, Sequences

CONSTANTS
    NULL,
    Task,       \* tasks that use the queues
    Timer,      \* the timer task
    Queue,      \* the queues; also their worker tasks
    Work,
    Delayed,    \* works with dly > 0
    Home,       \* the queue each work is run on
    Deletable,  \* the queues that may be deleted
    Calling,    \* the queues whose handlers run or cancel works themselves
    MaxCmd      \* bound of the model: commands on their way to a timer

Caller == Task \cup Queue \cup {Timer}

ASSUME WorkQueueAssumption ==
    /\ NULL \notin Work \cup Queue
    /\ Timer \notin Task \cup Queue /\ Task \cap Queue = {}
    /\ Delayed \subseteq Work /\ Deletable \subseteq Queue
    /\ Calling \subseteq Queue
    /\ Home \in [Work -> Queue]
    /\ \A w \in Delayed : Home[w] \notin Deletable
    /\ MaxCmd \in Nat \ {0}

VARIABLES
    work_list,     \* of each queue
    work_current,
    sem,           \* tokens of queue->sem
    worker,        \* take: in krhino_sem_take; got: has a token; run: in a
                   \* handler; wild: took the head of an empty list; gone
    wq, work_exit, \* of each work
    timer,         \* commands sent to the timer of a work, and is it active
    caller,        \* give: is about to give the semaphore of q; cancel: has
                   \* read work->wq
    del,           \* how far krhino_workqueue_del has come
    cancelled      \* works whose cancel succeeded after the last run

queueVars == <<work_list, work_current, sem, worker, del>>
vars == <<queueVars, wq, work_exit, timer, caller, cancelled>>

Ready   == [pc |-> "ready", q |-> NULL, w |-> NULL]
Stopped == [cmds |-> <<>>, on |-> FALSE]

Init ==
    /\ work_list = [q \in Queue |-> <<>>]
    /\ work_current = [q \in Queue |-> NULL]
    /\ sem = [q \in Queue |-> 0]
    /\ worker = [q \in Queue |-> "take"]
    /\ del = [q \in Queue |-> "no"]
    /\ wq = [w \in Work |-> NULL] /\ work_exit = [w \in Work |-> 0]
    /\ timer = [w \in Work |-> Stopped]
    /\ caller = [c \in Caller |-> Ready]
    /\ cancelled = {}

(* Worker tasks call from their handlers; the timer task does not call. *)
MayCall(c) ==
    /\ c # Timer /\ caller[c] = Ready
    /\ IF c \in Queue THEN c \in Calling /\ worker[c] = "run" ELSE TRUE

(* Fault: a work that is already queued is queued again. *)
MayQueueTwice(q, w) == work_current[q] # w

(* What krhino_work_run and work_timer_cb test. *)
MayQueue(q, w) == work_current[q] # w /\ work_exit[w] = 0

(* klist_insert puts the work at the end of the list. *)
Insert(c, q, w) ==
    /\ work_list' = [work_list EXCEPT ![q] = Append(@, w)]
    /\ wq' = [wq EXCEPT ![w] = q]
    /\ work_exit' = [work_exit EXCEPT ![w] = 1]
    /\ caller' = [caller EXCEPT ![c] = [pc |-> "give", q |-> q, w |-> NULL]]

-----------------------------------------------------------------------------
(* krhino_work_run: a work without delay is inserted, *)
WorkRun(c, w) ==
    /\ w \notin Delayed /\ MayCall(c) /\ del[Home[w]] # "gone"
    /\ MayQueue(Home[w], w)
    /\ Insert(c, Home[w], w)
    /\ cancelled' = cancelled \ {w}
    /\ UNCHANGED <<work_current, sem, worker, del, timer>>

(* Fault: the semaphore is given twice. *)
SemGiveTwice(c) ==
    /\ caller[c].pc = "give"
    /\ sem' = [sem EXCEPT ![caller[c].q] = @ + 2]
    /\ caller' = [caller EXCEPT ![c] = Ready]
    /\ UNCHANGED <<work_list, work_current, worker, del, wq, work_exit, timer,
                   cancelled>>

(* Fault: the give is forgotten. *)
SemGiveNone(c) ==
    /\ caller[c].pc = "give"
    /\ caller' = [caller EXCEPT ![c] = Ready]
    /\ UNCHANGED <<queueVars, wq, work_exit, timer, cancelled>>

(* and the semaphore is given outside the critical section; a deleted one *)
(* refuses.                                                               *)
SemGive(c) ==
    /\ caller[c].pc = "give"
    /\ LET q == caller[c].q
       IN  sem' = IF del[q] \in {"sem", "gone"} THEN sem
                  ELSE [sem EXCEPT ![q] = @ + 1]
    /\ caller' = [caller EXCEPT ![c] = Ready]
    /\ UNCHANGED <<work_list, work_current, worker, del, wq, work_exit, timer,
                   cancelled>>

(* A work with a delay: a command restarts its timer. *)
SendCmd(w, cmd) ==
    /\ Len(timer[w].cmds) < MaxCmd
    /\ timer' = [timer EXCEPT ![w].cmds = Append(@, cmd)]

WorkRunDelayed(c, w) ==
    /\ w \in Delayed /\ MayCall(c)
    /\ SendCmd(w, "start")
    /\ cancelled' = cancelled \ {w}
    /\ UNCHANGED <<queueVars, wq, work_exit, caller>>

(* The timer task carries out a command, *)
TimerCmd(w) ==
    /\ caller[Timer] = Ready /\ timer[w].cmds # <<>>
    /\ timer' = [timer EXCEPT ![w] = [cmds |-> Tail(@.cmds),
                                      on   |-> Head(@.cmds) = "start"]]
    /\ UNCHANGED <<queueVars, wq, work_exit, caller, cancelled>>

(* or the timer expires: work_timer_cb drops a work that runs or is queued. *)
WorkTimerCb(w) ==
    /\ caller[Timer] = Ready /\ timer[w].on
    /\ timer' = [timer EXCEPT ![w].on = FALSE]
    /\ IF MayQueue(Home[w], w) THEN Insert(Timer, Home[w], w)
       ELSE UNCHANGED <<work_list, wq, work_exit, caller>>
    /\ UNCHANGED <<work_current, sem, worker, del, cancelled>>

-----------------------------------------------------------------------------
(* krhino_work_cancel reads work->wq outside its critical section.  It     *)
(* succeeds also when the queue of the timers refuses the command.         *)
WorkCancel(c, w) ==
    /\ MayCall(c)
    /\ IF wq[w] = NULL
       THEN /\ (w \in Delayed /\ SendCmd(w, "stop")) \/ UNCHANGED timer
            /\ cancelled' = cancelled \cup {w}
            /\ UNCHANGED caller
       ELSE /\ caller' = [caller EXCEPT ![c] =
                            [pc |-> "cancel", q |-> wq[w], w |-> w]]
            /\ UNCHANGED <<timer, cancelled>>
    /\ UNCHANGED <<queueVars, wq, work_exit>>

(* Fault: a work that runs is cancelled. *)
MayCancelRunning(q, w) == work_exit[w] = 0

(* A work that runs or is queued is refused. *)
MayCancel(q, w) == work_current[q] # w /\ work_exit[w] = 0

WorkCancelEnd(c) ==
    /\ caller[c].pc = "cancel"
    /\ LET w == caller[c].w
       IN  IF MayCancel(caller[c].q, w)
           THEN wq' = [wq EXCEPT ![w] = NULL] /\ cancelled' = cancelled \cup {w}
           ELSE UNCHANGED <<wq, cancelled>>
    /\ caller' = [caller EXCEPT ![c] = Ready]
    /\ UNCHANGED <<queueVars, work_exit, timer>>

-----------------------------------------------------------------------------
(* worker_task. *)
WorkerTake(q) ==
    /\ worker[q] = "take" /\ sem[q] > 0
    /\ sem' = [sem EXCEPT ![q] = @ - 1]
    /\ worker' = [worker EXCEPT ![q] = "got"]
    /\ UNCHANGED <<work_list, work_current, del, wq, work_exit, timer, caller,
                   cancelled>>

(* The first entry is taken without a look whether there is one. *)
WorkerGet(q) ==
    /\ worker[q] = "got"
    /\ IF work_list[q] = <<>>
       THEN /\ worker' = [worker EXCEPT ![q] = "wild"]
            /\ UNCHANGED <<work_list, work_current, work_exit>>
       ELSE /\ work_list' = [work_list EXCEPT ![q] = Tail(@)]
            /\ work_current' = [work_current EXCEPT ![q] = Head(work_list[q])]
            /\ work_exit' = [work_exit EXCEPT ![Head(work_list[q])] = 0]
            /\ worker' = [worker EXCEPT ![q] = "run"]
    /\ UNCHANGED <<sem, del, wq, timer, caller, cancelled>>

WorkerDone(q) ==
    /\ worker[q] = "run" /\ caller[q] = Ready
    /\ work_current' = [work_current EXCEPT ![q] = NULL]
    /\ worker' = [worker EXCEPT ![q] = "take"]
    /\ UNCHANGED <<work_list, sem, del, wq, work_exit, timer, caller, cancelled>>

(* krhino_workqueue_del: the test, then the worker, the semaphore and the  *)
(* entry in the list of queues, each in a critical section of its own.     *)
WorkqueueDel(q) ==
    /\ q \in Deletable /\ del[q] = "no"
    /\ work_list[q] = <<>> /\ work_current[q] = NULL
    /\ del' = [del EXCEPT ![q] = "tested"]
    /\ UNCHANGED <<work_list, work_current, sem, worker, wq, work_exit, timer,
                   caller, cancelled>>

DelWorker(q) ==
    /\ del[q] = "tested"
    /\ del' = [del EXCEPT ![q] = "worker"]
    /\ worker' = [worker EXCEPT ![q] = "gone"]
    /\ caller' = [caller EXCEPT ![q] = Ready]
    /\ UNCHANGED <<work_list, work_current, sem, wq, work_exit, timer, cancelled>>

DelEnd(q) ==
    /\ del[q] \in {"worker", "sem"}
    /\ del' = [del EXCEPT ![q] = IF @ = "worker" THEN "sem" ELSE "gone"]
    /\ UNCHANGED <<work_list, work_current, sem, worker, wq, work_exit, timer,
                   caller, cancelled>>

-----------------------------------------------------------------------------
Next ==
    \/ \E c \in Caller :
          \/ \E w \in Work : WorkRun(c, w) \/ WorkRunDelayed(c, w) \/ WorkCancel(c, w)
          \/ SemGive(c) \/ WorkCancelEnd(c)
    \/ \E w \in Work : TimerCmd(w) \/ WorkTimerCb(w)
    \/ \E q \in Queue :
          \/ WorkerTake(q) \/ WorkerGet(q) \/ WorkerDone(q)
          \/ WorkqueueDel(q) \/ DelWorker(q) \/ DelEnd(q)

Spec == Init /\ [][Next]_vars

(* The kernel runs every task that is ready, and handlers return; one that *)
(* calls again and again ends at last.                                     *)
Fairness ==
    /\ \A c \in Caller : WF_vars(SemGive(c)) /\ WF_vars(WorkCancelEnd(c))
    /\ \A w \in Work : WF_vars(TimerCmd(w)) /\ WF_vars(WorkTimerCb(w))
    /\ \A q \in Queue : /\ WF_vars(WorkerTake(q)) /\ WF_vars(WorkerGet(q))
                        /\ SF_vars(WorkerDone(q))

FairSpec == Spec /\ Fairness
=============================================================================
