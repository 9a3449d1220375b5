------------------------- MODULE WorkQueueProperties -------------------------
(***************************************************************************)
(* What a work queue has to guarantee.                                     *)
(***************************************************************************)
EXTENDS WorkQueue, FiniteSets

(* The worker takes a token and then the first work without looking: every *)
(* token, in the semaphore, taken, or about to be given, stands for one    *)
(* work in the list, whatever is refused, cancelled or dropped.            *)
Giving(q) == {c \in Caller : caller[c].pc = "give" /\ caller[c].q = q}
TokensMatch ==
    \A q \in Queue : del[q] \in {"no", "tested"} =>
        Len(work_list[q]) = sem[q] + Cardinality(Giving(q))
                                   + (IF worker[q] = "got" THEN 1 ELSE 0)

(* A work is queued at most once, and work_exit says whether it is.        *)
Entry == UNION {{q} \X DOMAIN work_list[q] : q \in Queue}
Places(w) == {p \in Entry : work_list[p[1]][p[2]] = w}
QueuedOnce == \A w \in Work : Cardinality(Places(w)) = work_exit[w]

(* After krhino_work_cancel returned RHINO_SUCCESS the handler of a work   *)
(* without delay neither runs nor starts, until it is run again.           *)
CancelHolds == \A w \in cancelled \ Delayed : \A q \in Queue : work_current[q] # w

(* A work that was accepted is carried out, unless its queue is being      *)
(* deleted; so is a delayed one whose timer expires.                       *)
Queued(q, w)   == \E i \in DOMAIN work_list[q] : work_list[q][i] = w
AcceptedIsDone ==
    \A w \in Work :
        Queued(Home[w], w) ~> work_current[Home[w]] = w \/ del[Home[w]] # "no"
=============================================================================
