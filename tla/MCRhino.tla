------------------------------ MODULE MCRhino ------------------------------
(* Small instances of the kernel: at most three tasks, two mutexes and one *)
(* semaphore.                                                              *)
EXTENDS RhinoProperties

CONSTANTS t1, t2, t3, m1, m2, s1

(* One task per priority, the highest first. *)
MCPrio3 == t1 :> 0 @@ t2 :> 1 @@ t3 :> 2
MCPrio2 == t1 :> 0 @@ t2 :> 1

(* Two tasks share a priority. *)
MCPrioShared == t1 :> 0 @@ t2 :> 1 @@ t3 :> 1

(* The lowest task lowers the highest, which is its waiter at times, and   *)
(* is itself raised by the other one.                                      *)
MCChanges == {<<t3, t1, 2>>, <<t2, t3, 0>>}

(* The lowest task sets the priority of one that may be deleted before it  *)
(* gets to it.                                                             *)
MCChangesLate == {<<t3, t2, 1>>}
=============================================================================
