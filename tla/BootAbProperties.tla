-------------------------- MODULE BootAbProperties --------------------------
(***************************************************************************)
(* What the A/B boot table has to guarantee.                               *)
(***************************************************************************)
EXTENDS BootAb

Flag == [ver : 0..Erased, rb : {"blank", "en", "off"}, finish : BOOLEAN,
         cnt : 0..Limit]

(* Every variable stays in its type. *)
TypeOK ==
    /\ flags \in [Slot -> Flag]
    /\ image \in [Slot -> Image]
    /\ pc \in {"off", "hung", "init", "app", "finish", "end"}
    /\ cur \in Slot \cup {NULL}
    /\ done \in BOOLEAN /\ fb \in {0, 1}
    /\ reason \in {"por", "soft"} /\ losses \in 0..MaxLoss

OnTrial == flags[Selected(flags)].rb = "en"
Kept    == IF OnTrial THEN Another(Selected(flags)) ELSE Selected(flags)

(* Some slot can always be started: the table never rejects both sectors,  *)
(* and the slot that is relied on, the selected one or during its trial    *)
(* the other, passes check_ab_valid and holds a whole image that works.    *)
KeptWorks ==
    /\ Selected(flags) # NULL
    /\ check_ab_valid(flags[Kept]) /\ image[Kept] = "good"

(* otaab_finish marks "present slot is workable" (ota_ab.h): the slot that *)
(* runs is the one the next boot starts, before the call and after it,     *)
(* until otaab_upgrade_end has made the other sector valid.                *)
PresentKept ==
    cur # NULL /\ (done => ~flags[Another(cur)].finish) => Selected(flags) = cur

(* The table, its torn writes and its boot counts implement the abstract   *)
(* pair of slots: no step of the code writes the slot that is relied on.   *)
Slots == INSTANCE SlotSpec WITH
            next  <- Selected(flags),
            trial <- OnTrial
SlotsKept == Slots!Spec

(* Whatever was installed, the device starts up again: a slot that does    *)
(* not start is given up after at most Limit counted boots.                *)
Up == pc \in {"app", "finish", "end"} /\ Works
StartsUp == []<>Up
=============================================================================
