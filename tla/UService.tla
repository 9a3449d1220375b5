------------------------------ MODULE UService ------------------------------
(***************************************************************************)
(* Service tasks (components/uservice: uservice.c, utask.c, rpc.c): tasks  *)
(* of the application and the service tasks themselves send requests into  *)
(* the queue of a service task, some wait for the answer, with or without  *)
(* a timeout.  The buffer of a request is shared between the caller and    *)
(* the side that answers; each gives it up once with rpc_deinit, and the   *)
(* second one frees it.  One action is one critical section, one operation *)
(* on a queue or semaphore.                                                *)
(***************************************************************************)
EXTENDS Naturals, Sequences

CONSTANTS
    NULL,
    App,      \* tasks that only call
    Utask,    \* service tasks; their handlers call too
    Calls,    \* <<c, t, k>>: c makes calls of kind k to services of t
    Buf,      \* the rpc_buffer_t the heap has room for
    Depth,    \* queue_count
    Tries     \* how often uservice_call tries to send

Caller == App \cup Utask
Kind   == {"forever", "timed", "param", "bare"}
    \* the calls: uservice_call_sync, with a timeout_ms of one's own,
    \* uservice_call_async with and without a parameter

ASSUME UServiceAssumption ==
    /\ NULL \notin Buf \cup Utask
    /\ NULL \notin [from : Caller, data : Buf \cup {NULL}, done : BOOLEAN]
    /\ App \cap Utask = {}
    /\ Calls \subseteq Caller \X Utask \X Kind
    /\ Depth \in Nat \ {0} /\ Tries \in Nat \ {0}

VARIABLES
    heap,    \* the buffers: kind of the call, count of the semaphore, and
             \* whether it is in the rpc_buffer_gc_cache of its task
    queue,   \* utask->queue: requests
    cur,     \* the request utask_entry handles; done: it has been answered
    kept,    \* requests whose handlers returned a negative value and kept
             \* a copy of the rpc_t, which may be answered later
    dropped, \* requests with a buffer that nobody on the service's side
             \* knows any more, though they were not answered
    call     \* what each task's call of uservice_call is doing

vars == <<heap, queue, cur, kept, dropped, call>>

Freed      == [kind |-> "free", sem |-> 0, gc |-> FALSE]
NewBuf(k)  == [kind |-> k, sem |-> 0, gc |-> FALSE]
HasSem(b)  == b # NULL /\ heap[b].kind \in {"forever", "timed"}
Request(c, b) == [from |-> c, data |-> b, done |-> FALSE]
NoCall == [pc |-> "idle", to |-> NULL, data |-> NULL, tries |-> 0, ret |-> "none"]

Init ==
    /\ heap  = [b \in Buf |-> Freed]
    /\ queue = [t \in Utask |-> <<>>]
    /\ cur   = [t \in Utask |-> NULL]
    /\ kept  = {}
    /\ dropped = {}
    /\ call  = [c \in Caller |-> NoCall]

(* A service task calls from its handler. *)
Handling(t)  == cur[t] # NULL
Running(c)   == IF c \in App THEN TRUE ELSE Handling(c) /\ ~cur[c].done
FreeBuf      == {b \in Buf : heap[b].kind = "free"}

(* Fault: the first of the two frees the buffer. *)
RpcDeinitAtOnce(b) == IF b = NULL THEN heap ELSE [heap EXCEPT ![b] = Freed]
(* Fault: the cache is not searched. *)
RpcDeinitCached(b) == IF b = NULL THEN heap ELSE [heap EXCEPT ![b].gc = TRUE]

(* rpc_deinit: the first call puts the buffer into the cache, the second   *)
(* one finds it there and frees it. *)
RpcDeinit(b) ==
    IF b = NULL THEN heap
    ELSE IF heap[b].gc THEN [heap EXCEPT ![b] = Freed]
    ELSE [heap EXCEPT ![b].gc = TRUE]

(* Fault: the caller does not notice that it calls itself. *)
OwnTaskUnseen(c, t, k) == FALSE

(* uservice_call refuses to wait for the calling task itself. *)
OwnTask(c, t, k) == c = t /\ k \in {"forever", "timed"}

-----------------------------------------------------------------------------
(* The caller.  rpc_init, or rpc_put_buffer when nobody will wait,         *)
(* allocates the buffer; which free one does not matter.                   *)
Begin(c, t, k) ==
    /\ <<c, t, k>> \in Calls /\ call[c].pc = "idle" /\ Running(c)
    /\ k # "bare" => FreeBuf # {}
    /\ LET b == IF k = "bare" THEN NULL ELSE CHOOSE x \in FreeBuf : TRUE
           own == OwnTask(c, t, k)
       IN  /\ heap' = IF b = NULL THEN heap ELSE [heap EXCEPT ![b] = NewBuf(k)]
           /\ call' = [call EXCEPT ![c] =
                [pc    |-> IF own THEN "deinit" ELSE "send",
                 to    |-> t,
                 data  |-> b,
                 tries |-> IF own THEN 0 ELSE Tries,
                 ret   |-> IF own THEN "refused" ELSE "none"]]
    /\ UNCHANGED <<queue, cur, kept, dropped>>

(* rpc_init or rpc_put_buffer returns -ENOMEM, and so does the call. *)
BeginNoMem(c, t, k) ==
    /\ <<c, t, k>> \in Calls /\ call[c].pc = "idle" /\ Running(c)
    /\ k # "bare" /\ FreeBuf = {}
    /\ call' = [call EXCEPT ![c] =
            [NoCall EXCEPT !.pc = "deinit", !.ret = "refused"]]
    /\ UNCHANGED <<heap, queue, cur, kept, dropped>>

(* Fault: one request too many is accepted. *)
FullLate(t) == Len(queue[t]) > Depth

Full(t) == Len(queue[t]) >= Depth

(* aos_queue_send, then rpc_wait, which returns at once without semaphore. *)
Send(c) ==
    /\ call[c].pc = "send" /\ ~Full(call[c].to)
    /\ queue' = [queue EXCEPT ![call[c].to] = Append(@, Request(c, call[c].data))]
    /\ call' = [call EXCEPT ![c] =
            IF HasSem(@.data) THEN [@ EXCEPT !.pc = "wait", !.tries = 0]
            ELSE [@ EXCEPT !.pc = "deinit", !.tries = 0, !.ret = "ok"]]
    /\ UNCHANGED <<heap, cur, kept, dropped>>

(* The queue is full: sleep and try again, or give up. *)
SendFull(c) ==
    /\ call[c].pc = "send" /\ Full(call[c].to)
    /\ call' = [call EXCEPT ![c] =
            IF @.tries > 1 THEN [@ EXCEPT !.tries = call[c].tries - 1]
            ELSE [@ EXCEPT !.pc = "deinit", !.tries = 0, !.ret = "refused"]]
    /\ UNCHANGED <<heap, queue, cur, kept, dropped>>

(* rpc_wait: aos_sem_wait succeeds, or times out. *)
Answered(c) ==
    /\ call[c].pc = "wait" /\ heap[call[c].data].sem > 0
    /\ heap' = [heap EXCEPT ![call[c].data].sem = @ - 1]
    /\ call' = [call EXCEPT ![c].pc = "deinit", ![c].ret = "ok"]
    /\ UNCHANGED <<queue, cur, kept, dropped>>

(* Fault: rpc_wait loses the result of aos_sem_wait. *)
TimedOutOk(c) ==
    /\ call[c].pc = "wait"
    /\ heap[call[c].data].kind = "timed" /\ heap[call[c].data].sem = 0
    /\ call' = [call EXCEPT ![c].pc = "deinit", ![c].ret = "ok"]
    /\ UNCHANGED <<heap, queue, cur, kept, dropped>>

TimedOut(c) ==
    /\ call[c].pc = "wait"
    /\ heap[call[c].data].kind = "timed" /\ heap[call[c].data].sem = 0
    /\ call' = [call EXCEPT ![c].pc = "deinit", ![c].ret = "timeout"]
    /\ UNCHANGED <<heap, queue, cur, kept, dropped>>

(* The answer has been copied; the caller gives the buffer up and returns. *)
Return(c) ==
    /\ call[c].pc = "deinit"
    /\ heap' = RpcDeinit(call[c].data)
    /\ call' = [call EXCEPT ![c] = NoCall]
    /\ UNCHANGED <<queue, cur, kept, dropped>>

-----------------------------------------------------------------------------
(* The service task. *)
Recv(t) ==
    /\ ~Handling(t) /\ queue[t] # <<>>
    /\ cur' = [cur EXCEPT ![t] = Head(queue[t])]
    /\ queue' = [queue EXCEPT ![t] = Tail(@)]
    /\ UNCHANGED <<heap, kept, dropped, call>>

(* rpc_reply: the semaphore is signalled, if there is one ... *)
Signal(b) == IF HasSem(b) THEN [heap EXCEPT ![b].sem = @ + 1] ELSE heap

(* The handler returned: uservice_process answers, *)
Reply(t) ==
    /\ Handling(t) /\ ~cur[t].done /\ call[t].pc = "idle"
    /\ heap' = Signal(cur[t].data)
    /\ cur' = [cur EXCEPT ![t] = IF @.data = NULL THEN NULL
                                 ELSE [@ EXCEPT !.done = TRUE]]
    /\ UNCHANGED <<queue, kept, dropped, call>>

(* ... and then rpc_deinit gives the buffer up. *)
ReplyDeinit(t) ==
    /\ Handling(t) /\ cur[t].done
    /\ heap' = RpcDeinit(cur[t].data)
    /\ cur' = [cur EXCEPT ![t] = NULL]
    /\ UNCHANGED <<queue, kept, dropped, call>>

(* or it does not, and the handler has kept a copy of the rpc_t. *)
Keep(t) ==
    /\ Handling(t) /\ ~cur[t].done /\ call[t].pc = "idle"
    /\ kept' = IF cur[t].data = NULL THEN kept ELSE kept \cup {cur[t]}
    /\ cur' = [cur EXCEPT ![t] = NULL]
    /\ UNCHANGED <<heap, queue, dropped, call>>

(* or nobody has: the command is unknown, or the handler returned a        *)
(* negative value without keeping the rpc_t.                               *)
Drop(t) ==
    /\ Handling(t) /\ ~cur[t].done /\ call[t].pc = "idle"
    /\ dropped' = IF cur[t].data = NULL THEN dropped ELSE dropped \cup {cur[t]}
    /\ cur' = [cur EXCEPT ![t] = NULL]
    /\ UNCHANGED <<heap, queue, kept, call>>

(* Some task calls rpc_reply for a request that was kept. *)
KeptReply(r) ==
    /\ ~r.done
    /\ heap' = Signal(r.data)
    /\ kept' = (kept \ {r}) \cup {[r EXCEPT !.done = TRUE]}
    /\ UNCHANGED <<queue, cur, dropped, call>>

KeptDeinit(r) ==
    /\ r.done
    /\ heap' = RpcDeinit(r.data)
    /\ kept' = kept \ {r}
    /\ UNCHANGED <<queue, cur, dropped, call>>

(* The next request takes the place of one that was kept, before anybody   *)
(* has begun to answer that.                                               *)
Forget(r) ==
    /\ ~r.done
    /\ kept' = kept \ {r}
    /\ dropped' = dropped \cup {r}
    /\ UNCHANGED <<heap, queue, cur, call>>

-----------------------------------------------------------------------------
CallStep(c) == Send(c) \/ SendFull(c) \/ Answered(c) \/ TimedOut(c) \/ Return(c)

Next ==
    \/ \E c \in Caller, t \in Utask, k \in Kind :
            Begin(c, t, k) \/ BeginNoMem(c, t, k)
    \/ \E c \in Caller : CallStep(c)
    \/ \E t \in Utask : Recv(t) \/ Reply(t) \/ ReplyDeinit(t) \/ Keep(t) \/ Drop(t)
    \/ \E r \in kept : KeptReply(r) \/ KeptDeinit(r) \/ Forget(r)

Spec == Init /\ [][Next]_vars

(* Tasks run; handlers return, so that one that calls again and again ends *)
(* at last.  Nothing says that what a handler keeps is ever answered.      *)
Fairness ==
    /\ \A c \in Caller : WF_vars(CallStep(c))
    /\ \A t \in Utask : /\ WF_vars(Recv(t)) /\ WF_vars(ReplyDeinit(t))
                        /\ SF_vars(Reply(t) \/ Keep(t) \/ Drop(t))

FairSpec == Spec /\ Fairness
=============================================================================
