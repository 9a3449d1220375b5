------------------------------- MODULE KList -------------------------------
(***************************************************************************)
(* The kernel's doubly linked lists (components/rhino/include/k_list.h) as *)
(* the sequences of their elements, from head->next on.                    *)
(***************************************************************************)
EXTENDS Naturals, Sequences, SequencesExt

(* klist_insert: x goes before the place i, or to the end when the search  *)
(* for a place came back to the list head (i = 0).                         *)
InsertBefore(l, i, x) == IF i = 0 THEN Append(l, x) ELSE InsertAt(l, i, x)

(* klist_rm: nothing happens to an element that is in no list. *)
Unlink(l, x) ==
    IF x \notin Range(l) THEN l ELSE RemoveAt(l, CHOOSE i \in DOMAIN l : l[i] = x)
=============================================================================
