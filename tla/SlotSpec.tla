------------------------------ MODULE SlotSpec ------------------------------
(***************************************************************************)
(* What the A/B update promises (components/bootab/include/yoc/ota_ab.h):  *)
(* one slot is started next; after an update it is the new one, on trial,  *)
(* with "fallback to old system if new system boot failed".  The slot that *)
(* is relied on is the next one, or during a trial the one to fall back    *)
(* to; it holds a whole image and nothing writes it.                       *)
(***************************************************************************)
CONSTANTS Slot, Image, PART   \* PART: an image that is not completely written

VARIABLES next,    \* the slot the next boot starts
          trial,   \* it may still be given up for the other one
          image    \* what each slot holds

vars == <<next, trial, image>>

Other(s) == CHOOSE t \in Slot : t # s
Kept     == IF trial THEN Other(next) ELSE next

Init ==
    /\ next \in Slot /\ trial = FALSE
    /\ image \in [Slot -> Image] /\ image[next] # PART

Overwrite(i) ==
    /\ image' = [image EXCEPT ![Other(Kept)] = i]
    /\ UNCHANGED <<next, trial>>

Install ==
    /\ ~trial /\ image[Other(next)] # PART
    /\ next' = Other(next) /\ trial' = TRUE
    /\ UNCHANGED image

Confirm ==
    /\ trial /\ image[next] # PART
    /\ trial' = FALSE
    /\ UNCHANGED <<next, image>>

GiveUp ==
    /\ trial
    /\ next' = Kept /\ trial' = FALSE
    /\ UNCHANGED image

Next ==
    \/ \E i \in Image : Overwrite(i)
    \/ Install \/ Confirm \/ GiveUp

Spec == Init /\ [][Next]_vars
=============================================================================
