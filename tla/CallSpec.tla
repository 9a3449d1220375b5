------------------------------ MODULE CallSpec ------------------------------
(***************************************************************************)
(* What a caller of a service may rely on.  A request that is refused is   *)
(* never carried out.  One that is accepted is carried out at most once;   *)
(* a caller that waits is told "ok" only when its own request has been     *)
(* carried out, and a request it stops waiting for may still be.  Nothing  *)
(* says that what is accepted is ever carried out: one without a buffer    *)
(* that the service drops counts as carried out here.                      *)
(***************************************************************************)
EXTENDS Naturals

CONSTANT Caller

VARIABLES
    mine,    \* what became of the request of each call in progress
    loose,   \* how many accepted requests of each caller are outstanding
             \* that nobody waits for
    result   \* what a call that has come to its end returns

vars == <<mine, loose, result>>

Init ==
    /\ mine = [c \in Caller |-> "none"]
    /\ loose = [c \in Caller |-> 0]
    /\ result = [c \in Caller |-> "none"]

Ask(c) ==
    /\ mine[c] = "none" /\ result[c] = "none"
    /\ mine' = [mine EXCEPT ![c] = "asked"]
    /\ UNCHANGED <<loose, result>>

Accept(c) ==
    /\ mine[c] = "asked" /\ mine' = [mine EXCEPT ![c] = "waiting"]
    /\ UNCHANGED <<loose, result>>

CarryOut(c) ==
    /\ mine[c] = "waiting" /\ mine' = [mine EXCEPT ![c] = "carried out"]
    /\ UNCHANGED <<loose, result>>

CarryOutLoose(c) ==
    /\ loose[c] > 0 /\ loose' = [loose EXCEPT ![c] = @ - 1]
    /\ UNCHANGED <<mine, result>>

End(c, r, l) ==
    /\ result[c] = "none"
    /\ mine' = [mine EXCEPT ![c] = "none"]
    /\ result' = [result EXCEPT ![c] = r]
    /\ loose' = [loose EXCEPT ![c] = @ + l]

(* A caller that does not wait is told that its request is accepted. *)
Post(c)    == mine[c] = "asked" /\ End(c, "ok", 1)
Succeed(c) == mine[c] = "carried out" /\ End(c, "ok", 0)
GiveUp(c)  == mine[c] = "waiting" /\ End(c, "timeout", 1)
Refuse(c)  == mine[c] \in {"none", "asked"} /\ End(c, "refused", 0)

Return(c) ==
    /\ result[c] # "none" /\ result' = [result EXCEPT ![c] = "none"]
    /\ UNCHANGED <<mine, loose>>

Next ==
    \E c \in Caller :
        \/ Ask(c) \/ Accept(c) \/ CarryOut(c) \/ CarryOutLoose(c)
        \/ Post(c) \/ Succeed(c) \/ GiveUp(c) \/ Refuse(c) \/ Return(c)

Spec == Init /\ [][Next]_vars
=============================================================================
