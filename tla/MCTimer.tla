------------------------------- MODULE MCTimer -------------------------------
(* Small instances of the software timers. *)
EXTENDS TimerProperties

CONSTANTS t1, t2, t3, a1

(* One-shot and periodic. *)
MCSettings == {[first |-> 1, round |-> 2], [first |-> 3, round |-> 0]}
MCPeriodic == {[first |-> 2, round |-> 2]}
=============================================================================
