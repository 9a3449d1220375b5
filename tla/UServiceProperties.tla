------------------------- MODULE UServiceProperties -------------------------
(***************************************************************************)
(* What service tasks and their callers have to guarantee.                 *)
(***************************************************************************)
EXTENDS UService, FiniteSets, Functions

RequestType == [from : Caller, data : Buf \cup {NULL}, done : BOOLEAN]
CallType == [pc : {"idle", "send", "wait", "deinit"},
             to : Utask \cup {NULL}, data : Buf \cup {NULL}, tries : 0..Tries,
             ret : {"none", "ok", "timeout", "refused"}]

(* The requests that a handler did not answer. *)
Left == kept \cup dropped

(* Every variable stays in its type; a queue never holds more than         *)
(* queue_count requests.                                                   *)
TypeOK ==
    /\ heap \in [Buf -> [kind : Kind \cup {"free"}, sem : {0, 1}, gc : BOOLEAN]]
    /\ DOMAIN queue = Utask
    /\ \A t \in Utask : queue[t] \in Seq(RequestType) /\ Len(queue[t]) <= Depth
    /\ cur \in [Utask -> RequestType \cup {NULL}]
    /\ Left \subseteq RequestType
    /\ call \in [Caller -> CallType]

(* Whose buffers a caller, and the side that answers, will still use. *)
CallerHolds == {call[c].data : c \in {d \in Caller : call[d].pc # "idle"}}
ServiceHolds ==
    (UNION {{r.data : r \in Range(queue[t])} : t \in Utask})
    \cup {cur[t].data : t \in {u \in Utask : Handling(u)}}
    \cup {r.data : r \in kept}
Held == (CallerHolds \cup ServiceHolds) \ {NULL}

(* No buffer is used after it is freed: whatever times out, is refused or  *)
(* is answered late, rpc_deinit frees a buffer when the other side has     *)
(* given it up.                                                            *)
HeldIsLive == \A b \in Held : heap[b].kind # "free"

(* A buffer stays behind in the rpc_buffer_gc_cache for ever only when one *)
(* of the two sides never calls rpc_deinit: uservice_call refused the      *)
(* request, and the service never saw it; or the service dropped it        *)
(* unanswered.  A caller that times out, or an answer that comes late,     *)
(* loses none.                                                             *)
Lost == {b \in Buf \ Held : heap[b].kind # "free"}
Refused(b) == \E c \in Caller : /\ call[c].pc = "deinit" /\ call[c].ret = "refused"
                                /\ call[c].data = b
Ignored(b) == \E r \in dropped : r.data = b
LostOnlyUnanswered ==
    [][\A b \in Lost' \ Lost : Refused(b) \/ Ignored(b)']_vars

(* No answer reaches the wrong caller, none is taken for another one, and  *)
(* what was refused is not carried out: calls implement CallSpec.          *)
Waiting(c) == call[c].pc = "wait"
Own(c, r)  == Waiting(c) /\ r.from = c /\ r.data = call[c].data
Loose(c, r) == r.from = c /\ ~r.done /\ ~Own(c, r)
LooseCount(c) ==
    Cardinality({p \in Utask \X (1..Depth) :
                    p[2] \in DOMAIN queue[p[1]] /\ Loose(c, queue[p[1]][p[2]])})
        + Cardinality({t \in Utask : Handling(t) /\ Loose(c, cur[t])})
        + Cardinality({r \in Left : Loose(c, r)})
CarriedOut(c) ==
    /\ \A t \in Utask : \A r \in Range(queue[t]) : ~Own(c, r)
    /\ \A t \in Utask : Handling(t) /\ Own(c, cur[t]) => cur[t].done
    /\ \A r \in Left : Own(c, r) => r.done
Mine(c) ==
    IF call[c].pc \in {"idle", "deinit"} THEN "none"
    ELSE IF call[c].pc = "send" THEN "asked"
    ELSE IF CarriedOut(c) THEN "carried out" ELSE "waiting"

Abstract == INSTANCE CallSpec WITH
            mine   <- [c \in Caller |-> Mine(c)],
            loose  <- [c \in Caller |-> LooseCount(c)],
            result <- [c \in Caller |-> call[c].ret]
CallsKept == Abstract!Spec

(* Who waits without a timeout for an answer that the code does not        *)
(* promise: to a request that was kept or dropped; or from a task of which *)
(* the same is true.                                                       *)
Deserted(c)  == \E r \in Left : Own(c, r) /\ ~r.done
Behind(c, t) == \/ \E r \in Range(queue[t]) : Own(c, r)
                \/ Handling(t) /\ Own(c, cur[t]) /\ ~cur[t].done
Closed(D) ==
    \A c \in Caller :
        (/\ Waiting(c) /\ heap[call[c].data].kind = "forever"
         /\ Deserted(c) \/ \E t \in D \cap Utask : Behind(c, t)) => c \in D
Stranded == {c \in Caller : \A D \in SUBSET Caller : Closed(D) => c \in D}

(* Every call returns, but one that stays stranded, when the calls without *)
(* a timeout have no circle but those of a task to itself, which are       *)
(* refused: no task waits for itself, and none waits for ever unless its   *)
(* request, or that of the task it waits for, was kept or dropped.  A call *)
(* with a timeout, and one that does not wait, returns even then.          *)
CallsReturn ==
    \A c \in Caller : []<>(call[c].pc = "idle") \/ <>[](c \in Stranded)
=============================================================================
