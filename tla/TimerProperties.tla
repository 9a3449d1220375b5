-------------------------- MODULE TimerProperties --------------------------
(***************************************************************************)
(* What the software timers guarantee.                                     *)
(***************************************************************************)
EXTENDS RhinoTimer

Ktimer == [exists : BOOLEAN, active : BOOLEAN, due : (-Cap)..MaxTicks,
           first : 0..MaxTicks, round : 0..MaxTicks, arg : Arg \cup {NULL}]

(* The queue holds at most MsgNum commands, and the timer task is where it *)
(* can be, with a command exactly where it has one to carry out.           *)
Typed ==
    /\ behind \in 0..Cap /\ lag \in 0..MaxLag
    /\ queue \in Seq(Message) /\ Len(queue) <= MsgNum
    /\ list \in Seq(Timer)
    /\ timer \in [Timer -> Ktimer]
    /\ pc \in {"recv", "blocked", "got", "timeout", "cmd", "cb", "look"}
    /\ inner \in BOOLEAN /\ left \in 0..MaxTicks
    /\ msg \in Message \cup {NULL} /\ cur \in Timer \cup {NULL}
    /\ pc \in {"got", "cmd"} => msg # NULL
    /\ pc \in {"recv", "blocked", "timeout", "look"} => msg = NULL
    /\ age \in [Timer -> 0..MaxTicks \cup {NULL}]

(* And no timer is overdue as far as the model counts. *)
TypeOK == Typed /\ \A t \in Timer : timer[t].due > -Cap

(* A timer is in g_timer_head once, exactly while it is TIMER_ACTIVE; a    *)
(* deleted one is not, so that nothing points into memory that is free.    *)
ListMatchesState ==
    /\ \A t \in Timer : timer[t].active <=> t \in Range(list)
    /\ IsInjective(list)
    /\ \A t \in Range(list) : timer[t].exists

(* k_timer.h: g_timer_head is sorted by match; asked when the task waits.  *)
SortedByMatch ==
    pc = "blocked" =>
        \A i, j \in 1..Len(list) :
            i < j => timer[list[i]].due <= timer[list[j]].due

(* While the timer task waits, no timer is going to be later than the task *)
(* itself was: it is woken for the earliest, whatever was started, stopped *)
(* and called back since it last looked.  This is so for two timers, and   *)
(* for any number if the task is never late; else see SortedByMatch.       *)
WokenInTime ==
    pc = "blocked" =>
        \A t \in Range(list) :
            inner /\ timer[t].due - left >= -MaxLag

(* A callback is never called before first ticks have passed since the     *)
(* call of krhino_timer_start it answers, however long that was queued.    *)
NeverEarly ==
    [][\A t \in Timer : age[t] # NULL /\ Fire(t) => age[t] >= timer[t].first]_vars

(* A timer that stays active, and is not restarted again and again, is     *)
(* called again and again, or for the last time: no other timer and no     *)
(* flood of commands keeps it waiting for ever.                            *)
Restarting(t) ==
    \E m \in Range(queue) \cup {msg} : m # NULL /\ m.cmd = "ARG_CHG_AUTO" /\ m.timer = t

ActiveIsCalled ==
    \A t \in Timer :
        <>[](timer[t].active /\ ~Restarting(t)) => []<><<Fire(t)>>_vars
=============================================================================
