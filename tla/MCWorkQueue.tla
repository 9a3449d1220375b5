---------------------------- MODULE MCWorkQueue ----------------------------
EXTENDS WorkQueueProperties

CONSTANTS q1, q2, w1, w2, w3

(* Two works, one of them delayed, on a queue that stays; one on a queue   *)
(* that may be deleted at any time.                                        *)
MCHome == [w \in Work |-> IF w = w3 THEN q2 ELSE q1]
=============================================================================
