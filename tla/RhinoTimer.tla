----------------------------- MODULE RhinoTimer -----------------------------
(***************************************************************************)
(* Software timers (components/rhino: k_timer.c, and the buffer queue of   *)
(* k_buf_queue.c that carries their commands).  Callers only send commands *)
(* to g_timer_queue; the timer task alone keeps the list of active timers. *)
(* Its steps are cut where it reads the tick, receives, or calls back: in  *)
(* between, ticks pass and other tasks and the callbacks themselves send.  *)
(*                                                                         *)
(* g_tick_count is 64 bits wide and only its differences are ever used, so *)
(* the model keeps these: how far behind it g_timer_count is, and how many *)
(* ticks are left until a timer's match.                                   *)
(***************************************************************************)
EXTENDS Integers, KList

CONSTANTS
    Timer, NULL,
    Dynamic,     \* the timers made by krhino_timer_dyn_create
    Setting,     \* the pairs of first and round that callers ask for
    Arg,         \* arguments of callbacks
    Command,     \* the commands that callers send
    MsgNum,      \* RHINO_CONFIG_TIMER_MSG_NUM, 20
    MaxTicks,    \* RHINO_MAX_TICKS
    MaxLag       \* ticks the task, when ready, may take from one reading
                 \* of the tick to the next

(* Bound of the model: differences of ticks are counted as far as this. *)
Cap == 2 * MaxTicks

Commands == {"START", "STOP", "CHG", "ARG_CHG", "ARG_CHG_AUTO", "DEL", "DYN_DEL"}

(* k_timer_queue_cb; age is history: ticks since a start was asked for. *)
Message ==
    [cmd : {"STOP", "DEL", "DYN_DEL"}, timer : Timer]
    \cup [cmd : {"START"}, timer : Timer, age : 0..MaxTicks]
    \cup [cmd : {"CHG"}, timer : Timer, set : Setting]
    \cup [cmd : {"ARG_CHG"}, timer : Timer, arg : Arg]
    \cup [cmd : {"ARG_CHG_AUTO"}, timer : Timer, arg : Arg, age : 0..MaxTicks]

ASSUME TimerAssumption ==
    /\ NULL \notin Timer \cup Message /\ Dynamic \subseteq Timer /\ Command \subseteq Commands
    /\ MaxTicks \in Nat \ {0}
    /\ Setting \subseteq [first : 1..MaxTicks, round : 0..MaxTicks]
    /\ MsgNum \in Nat \ {0} /\ MaxLag \in Nat

VARIABLES
    behind,  \* g_tick_count - g_timer_count, the task's last reading of it;
             \* not counted further than Cap
    queue,   \* g_timer_queue
    list,    \* g_timer_head; a timer has its to_head exactly while it is in it
    timer,   \* the ktimer_t of each timer; due is match - g_tick_count while
             \* it is active, not counted below -Cap; else 0
    pc,      \* where the timer task is
    inner,   \* it is inside while (!is_klist_empty(&g_timer_head))
    left,    \* ticks left of its wait
    msg,     \* the command received, NULL if none
    cur,     \* q of timer_cb_proc, NULL for the list head
    lag,     \* ticks since it last read the tick or was made ready again
    age      \* history: ticks since the first call that is still to come was
             \* asked for, as far as MaxTicks; NULL if none is to come

task == <<behind, list, pc, inner, left, msg, cur>>
vars == <<queue, timer, task, lag, age>>

NoTimer == [exists |-> FALSE, active |-> FALSE, due |-> 0,
            first |-> 0, round |-> 0, arg |-> NULL]

Init ==
    /\ behind = 0 /\ lag = 0
    /\ queue = <<>> /\ list = <<>>
    /\ timer = [t \in Timer |-> NoTimer]
    /\ age = [t \in Timer |-> NULL]
    /\ pc = "recv" /\ inner = FALSE /\ left = 0 /\ msg = NULL /\ cur = NULL

-----------------------------------------------------------------------------
(* The callers: tasks, and the callbacks. *)

Full == pc # "blocked" /\ Len(queue) = MsgNum

(* Fault: nobody looks whether the queue is full. *)
BufQueueSendUnbounded(m) ==
    IF pc = "blocked"
    THEN msg' = m /\ pc' = "got" /\ left' = 0 /\ UNCHANGED queue
    ELSE queue' = Append(queue, m) /\ UNCHANGED <<msg, pc, left>>

(* krhino_buf_queue_send: to the task that waits, else into the queue.     *)
(* When that is full the caller gets RHINO_BUF_QUEUE_FULL.                 *)
BufQueueSend(m) ==
    IF pc = "blocked"
    THEN msg' = m /\ pc' = "got" /\ left' = 0 /\ UNCHANGED queue
    ELSE /\ queue' = IF Full THEN queue ELSE Append(queue, m)
         /\ UNCHANGED <<msg, pc, left>>

Deleting(t) ==
    \E m \in Range(queue) \cup ({msg} \ {NULL}) : m.timer = t /\ m.cmd = "DYN_DEL"

(* A timer may be commanded once it was created; one from the heap, until  *)
(* its deletion was asked for, for its memory goes away with it.           *)
Usable(t) == timer[t].exists \/ (t \notin Dynamic /\ timer[t].first # 0)

StartMsg(c, t) == [cmd |-> c, timer |-> t, age |-> 0]

Messages(t) ==
    [cmd : Command \cap {"STOP", "DEL", "DYN_DEL"}, timer : {t}]
    \cup {StartMsg(c, t) : c \in Command \cap {"START"}}
    \cup [cmd : Command \cap {"CHG"}, timer : {t}, set : Setting]
    \cup [cmd : Command \cap {"ARG_CHG"}, timer : {t}, arg : Arg]
    \cup [cmd : Command \cap {"ARG_CHG_AUTO"}, timer : {t}, arg : Arg, age : {0}]

(* krhino_timer_start, _stop, _change, _arg_change, _arg_change_auto, _del *)
(* and _dyn_del.                                                           *)
Send(t) ==
    /\ Usable(t) /\ ~Deleting(t)
    /\ \E m \in Messages(t) : BufQueueSend(m)
    /\ UNCHANGED <<behind, list, timer, inner, cur, lag, age>>

(* timer_create, and krhino_timer_dyn_create, which gives the memory back  *)
(* when the start fails.  The space is not one whose deletion is queued.   *)
Create(t, s, a, autoRun) ==
    /\ ~timer[t].exists
    /\ IF autoRun /\ Full /\ t \in Dynamic THEN UNCHANGED timer
       ELSE timer' = [timer EXCEPT ![t] =
                        [exists |-> TRUE, active |-> FALSE, due |-> 0,
                         first |-> s.first, round |-> s.round, arg |-> a]]
    /\ IF autoRun THEN BufQueueSend(StartMsg("START", t))
       ELSE UNCHANGED <<queue, msg, pc, left>>
    /\ UNCHANGED <<behind, list, inner, cur, lag, age>>

-----------------------------------------------------------------------------
(* The list. *)

(* Fault: a new timer goes to the end. *)
PriInsertLast(l, t, val) == Append(l, t)

(* timer_list_pri_insert: in front of the first timer that has more ticks  *)
(* left, counted without a sign: an overdue one has very many.             *)
PriInsert(l, t, val) ==
    LET i == SelectInSeq(l, LAMBDA u : timer[u].due + behind < 0 \/ timer[u].due + behind > val)
    IN  InsertBefore(l, i, t)

First(l) == IF l = <<>> THEN NULL ELSE Head(l)

After(l, t) ==
    LET i == SelectInSeq(l, LAMBDA u : u = t)
    IN  IF i = Len(l) THEN NULL ELSE l[i + 1]

-----------------------------------------------------------------------------
(* cmd_proc and timer_cmd_proc. *)

(* Fault: an active timer is started again. *)
StartActive(t, m) ==
    /\ list' = PriInsert(list, t, timer[t].first)
    /\ timer' = [timer EXCEPT ![t].active = TRUE,
                              ![t].due = timer[t].first - behind]
    /\ age' = [age EXCEPT ![t] = m.age]

Start(t, m) ==
    IF timer[t].active THEN UNCHANGED <<list, timer, age>>
    ELSE /\ list' = PriInsert(list, t, timer[t].first)
         /\ timer' = [timer EXCEPT ![t].active = TRUE,
                                   ![t].due = timer[t].first - behind]
         /\ age' = [age EXCEPT ![t] = m.age]

Stop(t) ==
    /\ list' = IF timer[t].active THEN Unlink(list, t) ELSE list
    /\ timer' = [timer EXCEPT ![t].active = FALSE, ![t].due = 0]
    /\ age' = [age EXCEPT ![t] = NULL]

(* Stopped, changed and started: nothing in between fails. *)
ArgChgAuto(t, m) ==
    /\ list' = PriInsert(Unlink(list, t), t, timer[t].first)
    /\ timer' = [timer EXCEPT ![t].active = TRUE, ![t].arg = m.arg,
                              ![t].due = timer[t].first - behind]
    /\ age' = [age EXCEPT ![t] = m.age]

(* The rest is only done to a timer that does not run. *)
Change(t, m) ==
    /\ timer' = IF timer[t].active THEN timer
                ELSE CASE m.cmd = "CHG" ->
                            [timer EXCEPT ![t].first = m.set.first,
                                          ![t].round = m.set.round]
                       [] m.cmd = "ARG_CHG" -> [timer EXCEPT ![t].arg = m.arg]
                       [] m.cmd = "DEL" ->
                            [timer EXCEPT ![t].exists = @ /\ t \in Dynamic]
                       [] m.cmd = "DYN_DEL" ->
                            [timer EXCEPT ![t].exists = @ /\ t \notin Dynamic]
    /\ UNCHANGED <<list, age>>

CmdProc(m) ==
    LET t == m.timer
    IN  IF ~timer[t].exists THEN UNCHANGED <<list, timer, age>>
        ELSE \/ m.cmd = "START" /\ Start(t, m)
             \/ m.cmd = "STOP" /\ Stop(t)
             \/ m.cmd = "ARG_CHG_AUTO" /\ ArgChgAuto(t, m)
             \/ m.cmd \in {"CHG", "ARG_CHG", "DEL", "DYN_DEL"} /\ Change(t, m)

-----------------------------------------------------------------------------
(* timer_task. *)

(* krhino_buf_queue_recv, forever or for the ticks left. *)
Recv ==
    /\ pc = "recv"
    /\ IF queue = <<>>
       THEN pc' = "blocked" /\ lag' = 0 /\ UNCHANGED <<queue, msg, left>>
       ELSE /\ pc' = "got" /\ msg' = Head(queue) /\ queue' = Tail(queue)
            /\ left' = 0 /\ UNCHANGED lag
    /\ UNCHANGED <<behind, list, timer, inner, cur, age>>

(* Fault: the tick is not read again. *)
GotStale ==
    /\ pc = "got"
    /\ lag' = 0
    /\ IF inner THEN pc' = "cb" /\ cur' = First(list) ELSE pc' = "cmd" /\ UNCHANGED cur
    /\ UNCHANGED <<behind, queue, list, timer, inner, left, msg, age>>

(* A command was received; inside the loop, expired timers come first. *)
Got ==
    /\ pc = "got"
    /\ behind' = 0 /\ lag' = 0
    /\ IF inner THEN pc' = "cb" /\ cur' = First(list) ELSE pc' = "cmd" /\ UNCHANGED cur
    /\ UNCHANGED <<queue, list, timer, inner, left, msg, age>>

(* RHINO_BLK_TIMEOUT. *)
TimedOut ==
    /\ pc = "timeout"
    /\ behind' = 0 /\ lag' = 0
    /\ pc' = "cb" /\ cur' = First(list)
    /\ UNCHANGED <<queue, list, timer, inner, left, msg, age>>

Cmd ==
    /\ pc = "cmd"
    /\ CmdProc(msg)
    /\ msg' = NULL
    /\ IF inner THEN pc' = "cb" /\ cur' = First(list') ELSE pc' = "look" /\ UNCHANGED cur
    /\ UNCHANGED <<behind, queue, inner, left, lag>>

(* Fault: it waits for ever, as it does when there is no timer. *)
LookForever ==
    /\ pc = "look"
    /\ inner' = FALSE /\ pc' = "recv"
    /\ lag' = 0
    /\ UNCHANGED <<behind, queue, list, timer, left, msg, cur, age>>

(* The head of the loop: wait for the first timer unless it is overdue. *)
Look ==
    /\ pc = "look"
    /\ inner' = (list # <<>>)
    /\ lag' = 0
    /\ LET delta == timer[Head(list)].due
       IN  IF list = <<>> THEN pc' = "recv" /\ UNCHANGED <<left, cur, behind>>
           ELSE IF delta > 0 THEN pc' = "recv" /\ left' = delta /\ UNCHANGED <<cur, behind>>
           ELSE pc' = "cb" /\ behind' = 0 /\ cur' = First(list) /\ UNCHANGED left
    /\ UNCHANGED <<queue, list, timer, msg, age>>

Expired(t) == timer[t].due + behind <= 0

(* One round of timer_cb_proc.  A timer that goes on is put back first, so *)
(* the loop continues behind its new place.                                *)
Fire(t) ==
    /\ pc = "cb" /\ cur = t /\ Expired(t)
    /\ LET rest == Unlink(list, t)
           again == PriInsert(rest, t, timer[t].round)
       IN  IF timer[t].round > 0
           THEN /\ list' = again /\ cur' = After(again, t)
                /\ timer' = [timer EXCEPT ![t].due = timer[t].round - behind]
           ELSE /\ list' = rest /\ cur' = After(list, t)
                /\ timer' = [timer EXCEPT ![t].active = FALSE, ![t].due = 0]
    /\ age' = [age EXCEPT ![t] = NULL]
    /\ UNCHANGED <<behind, queue, pc, inner, left, msg, lag>>

CbEnd ==
    /\ pc = "cb" /\ (cur # NULL => ~Expired(cur))
    /\ pc' = IF msg # NULL THEN "cmd" ELSE "look"
    /\ cur' = NULL
    /\ UNCHANGED <<behind, queue, list, timer, inner, left, msg, lag, age>>

TimerTask == Recv \/ Got \/ TimedOut \/ Cmd \/ Look \/ CbEnd \/ \E t \in Timer : Fire(t)

-----------------------------------------------------------------------------
(* The tick, which also ends the wait of the timer task (tick_list_update). *)
Older(n) == IF n = NULL \/ n = MaxTicks THEN n ELSE n + 1

Nearer(due) == IF due = -Cap THEN due ELSE due - 1

Aged(m) == IF m # NULL /\ "age" \in DOMAIN m THEN [m EXCEPT !.age = Older(@)] ELSE m

Tick ==
    /\ pc # "blocked" => lag < MaxLag
    /\ behind' = IF behind = Cap THEN behind ELSE behind + 1
    /\ timer' = [t \in Timer |-> IF timer[t].active
                                 THEN [timer[t] EXCEPT !.due = Nearer(@)] ELSE timer[t]]
    /\ IF pc # "blocked" THEN lag' = lag + 1 /\ UNCHANGED <<left, pc>>
       ELSE /\ lag' = 0
            /\ IF inner THEN left' = left - 1 /\ pc' = IF left = 1 THEN "timeout" ELSE pc
               ELSE UNCHANGED <<left, pc>>
    /\ age' = [t \in Timer |-> Older(age[t])]
    /\ queue' = [i \in DOMAIN queue |-> Aged(queue[i])]
    /\ msg' = Aged(msg)
    /\ UNCHANGED <<list, inner, cur>>

Callers ==
    \E t \in Timer :
        \/ Send(t)
        \/ \E s \in Setting, a \in Arg, autoRun \in BOOLEAN : Create(t, s, a, autoRun)

Next == TimerTask \/ Tick \/ Callers

Spec == Init /\ [][Next]_vars

(* The timer task has a high priority, and time goes on. *)
FairSpec == Spec /\ WF_vars(TimerTask) /\ WF_vars(Tick)
=============================================================================
