------------------------------- MODULE BootAb -------------------------------
(***************************************************************************)
(* The A/B boot table (components/bootab: bootab.c, ota_ab.c), the loader  *)
(* that reads it (components/boot: boot_main.c, boot_virtual.c) and an     *)
(* application that updates itself.  Each slot has a sector of flags in    *)
(* the partition "envab" and partitions for its images.  One action is at  *)
(* most one operation on the flash; power fails between any two of them    *)
(* and inside the write of bootab_set_valid.                               *)
(***************************************************************************)
EXTENDS Naturals

CONSTANTS
    NULL,
    Erased,       \* active_ver of an erased sector, g_erase_flag, 2^32 - 1
    Limit,        \* BOOT_LIMIT
    Fallbacks,    \* the arguments the application passes to otaab_finish
    FinishWhole,  \* otaab_finish is not cut between its two writes
    MaxLoss       \* bound of the model: how often the power fails

Slot  == {"a", "b"}
PART  == "part"
Image == {PART, "good", "bad"}   \* a bad image is whole and does not start up

ASSUME BootAbAssumption ==
    /\ NULL \notin Slot
    /\ Erased \in Nat /\ Erased > 1
    /\ Limit \in Nat \ {0} /\ MaxLoss \in Nat
    /\ Fallbacks \subseteq {0, 1} /\ FinishWhole \in BOOLEAN

VARIABLES
    flags,   \* the sector of each slot: bootab_flag_t and the count in W
    image,   \* what the image partitions of each slot hold
    pc,      \* off, init: jumped to an application, app, or inside a call
    cur,     \* g_cur_slot of the application
    done,    \* otaab_finish returned since the last boot
    fb,      \* the argument of the call of otaab_finish in progress
    reason,  \* soc_get_boot_reason at the next boot
    losses   \* power losses so far

vars == <<flags, image, pc, cur, done, fb, reason, losses>>

Blank == [ver |-> Erased, rb |-> "blank", finish |-> FALSE, cnt |-> 0]

(* Fault: a sector counts although its last field was never written. *)
check_ab_validUnfinished(f) == f.ver # 0

check_ab_valid(f) == f.ver = Erased \/ (f.finish /\ f.ver # 0)

(* Fault: equal versions select b. *)
SelectedLast(f) ==
    IF check_ab_valid(f["a"]) /\ f["a"].ver < f["b"].ver THEN "a" ELSE "b"

(* bootab_get_current_ab: the smaller active_ver is the later one. *)
Selected(f) ==
    IF \A s \in Slot : check_ab_valid(f[s])
    THEN IF f["a"].ver <= f["b"].ver THEN "a" ELSE "b"
    ELSE IF check_ab_valid(f["a"]) THEN "a"
    ELSE IF check_ab_valid(f["b"]) THEN "b"
    ELSE NULL

(* The slot that is not ab; "a" also when there is no current slot. *)
Another(ab) == IF ab = "a" THEN "b" ELSE "a"

(* bootab_init: without a slot to select the whole partition is erased. *)
AfterInit(f) == IF Selected(f) = NULL THEN [s \in Slot |-> Blank] ELSE f

(* bootab_set_fallback_enable and _disable; flash bits are only cleared.   *)
EnableFallback(f) ==
    IF f.rb = "blank" /\ f.ver # Erased THEN [f EXCEPT !.rb = "en"] ELSE f
(* Fault: the flag is written only once it is off. *)
DisableFallbackLate(f) == IF f.rb = "off" THEN [f EXCEPT !.rb = "off"] ELSE f

DisableFallback(f) == IF f.rb = "en" THEN [f EXCEPT !.rb = "off"] ELSE f

(* bootab_set_valid writes bootab_flag_t from its first field to its last; *)
(* n of them arrive.                                                       *)
SetValid(f, other, n) ==
    [ver    |-> IF n = 0 THEN f.ver
                ELSE IF other.ver = 0 THEN Erased ELSE other.ver - 1,
     rb     |-> IF n >= 2 THEN "en" ELSE f.rb,
     finish |-> IF n >= 3 THEN TRUE ELSE f.finish,
     cnt    |-> f.cnt]

Init ==
    /\ flags = [s \in Slot |-> Blank]
    /\ image = [s \in Slot |-> IF s = "a" THEN "good" ELSE PART]
    /\ pc = "off" /\ cur = NULL /\ done = FALSE /\ fb = 0
    /\ reason = "por" /\ losses = 0

Restart(why) ==
    /\ pc' = "off" /\ reason' = why
    /\ cur' = NULL /\ done' = FALSE /\ fb' = 0

-----------------------------------------------------------------------------
(* The loader: bootab_init, which leaves it hung without a slot to select; *)
(* bootab_fallback counts a boot or gives the slot up; mtb_image_verify of *)
(* what will be started makes it reboot when the image is not whole.       *)
(* Fault: a slot is never given up. *)
CountOrGiveUpNever(ab) ==
    IF flags[ab].rb = "en" /\ reason = "soft"
    THEN [flags EXCEPT ![ab].cnt = @ + 1] ELSE flags

(* Fault: the test of the boot reason is the wrong way round. *)
CountOrGiveUpCold(ab) ==
    IF flags[ab].rb # "en" THEN flags
    ELSE IF flags[ab].cnt >= Limit THEN [flags EXCEPT ![ab].ver = 0]
    ELSE IF reason # "soft" THEN [flags EXCEPT ![ab].cnt = @ + 1]
    ELSE flags

CountOrGiveUp(ab) ==
    IF flags[ab].rb # "en" THEN flags
    ELSE IF flags[ab].cnt >= Limit THEN [flags EXCEPT ![ab].ver = 0]
    ELSE IF reason = "soft" THEN [flags EXCEPT ![ab].cnt = @ + 1]
    ELSE flags

Boot ==
    /\ pc = "off"
    /\ LET ab     == Selected(flags)
           giveup == flags[ab].rb = "en" /\ flags[ab].cnt >= Limit
           to     == IF giveup THEN Another(ab) ELSE ab
       IN  IF ab = NULL
           THEN flags' = AfterInit(flags) /\ pc' = "hung" /\ UNCHANGED reason
           ELSE /\ flags' = CountOrGiveUp(ab)
                /\ IF image[to] = PART
                   THEN pc' = "off" /\ reason' = "soft"
                   ELSE pc' = "init" /\ UNCHANGED reason
    /\ UNCHANGED <<image, cur, done, fb, losses>>

(* The application calls bootab_init of its own. *)
AppInit ==
    /\ pc = "init"
    /\ flags' = AfterInit(flags)
    /\ cur' = Selected(flags)
    /\ pc' = "app"
    /\ UNCHANGED <<image, done, fb, reason, losses>>

-----------------------------------------------------------------------------
(* The application.  A bad image does nothing: the watchdog ends it.  A    *)
(* good one calls otaab_finish once it has started up, before any upgrade. *)
Works == IF cur = NULL THEN TRUE ELSE image[cur] = "good"

(* otaab_finish: clear_flags of the other slot, then the fallback flag of  *)
(* this one; the second call refuses a slot that is NULL.                  *)
FinishClear(arg) ==
    /\ pc = "app" /\ ~done /\ Works
    /\ flags' = [flags EXCEPT ![Another(cur)] = Blank]
    /\ pc' = "finish" /\ fb' = arg
    /\ UNCHANGED <<image, cur, done, reason, losses>>

FinishFallback ==
    /\ pc = "finish"
    /\ flags' = IF cur = NULL THEN flags
                ELSE [flags EXCEPT ![cur] = IF fb = 1 THEN EnableFallback(@)
                                            ELSE DisableFallback(@)]
    /\ pc' = "app" /\ done' = TRUE /\ fb' = 0
    /\ UNCHANGED <<image, cur, reason, losses>>

(* Versions count down from 2^32 - 1: a bound of the model. *)
MayUpgrade == pc = "app" /\ done /\ cur # NULL /\ flags[cur].ver > 1

(* bootab_upgrade_partition_slice into the other slot; the last slice      *)
(* completes an image that fota_data_verify accepts.                       *)
UpgradeSlice(i) ==
    /\ MayUpgrade
    /\ image' = [image EXCEPT ![Another(cur)] = i]
    /\ UNCHANGED <<flags, pc, cur, done, fb, reason, losses>>

(* otaab_upgrade_end, up to bootab_set_valid. *)
UpgradeClear ==
    /\ MayUpgrade /\ image[Another(cur)] # PART
    /\ flags' = [flags EXCEPT ![Another(cur)] = EnableFallback(Blank)]
    /\ pc' = "end"
    /\ UNCHANGED <<image, cur, done, fb, reason, losses>>

(* A write that reports an error may have written a part. *)
UpgradeEnd(n) ==
    /\ pc = "end"
    /\ flags' = [flags EXCEPT ![Another(cur)] = SetValid(@, flags[cur], n)]
    /\ pc' = "app"
    /\ UNCHANGED <<image, cur, done, fb, reason, losses>>

-----------------------------------------------------------------------------
Cut == pc = "finish" => ~FinishWhole

(* A reboot asked for by the application, or the watchdog. *)
SoftReset ==
    /\ pc \in {"app", "finish", "end"} /\ Cut
    /\ Restart("soft")
    /\ UNCHANGED <<flags, image, losses>>

PowerLoss ==
    /\ losses < MaxLoss /\ losses' = losses + 1
    /\ Cut
    /\ Restart("por")
    /\ UNCHANGED <<flags, image>>

(* The power fails inside the write of bootab_set_valid. *)
TornValid(n) ==
    /\ losses < MaxLoss /\ losses' = losses + 1
    /\ pc = "end"
    /\ flags' = [flags EXCEPT ![Another(cur)] = SetValid(@, flags[cur], n)]
    /\ Restart("por")
    /\ UNCHANGED image

Next ==
    \/ Boot \/ AppInit
    \/ \E arg \in Fallbacks : FinishClear(arg)
    \/ FinishFallback
    \/ \E i \in Image : UpgradeSlice(i)
    \/ UpgradeClear
    \/ \E n \in 0..3 : UpgradeEnd(n) \/ TornValid(n)
    \/ SoftReset \/ PowerLoss

Spec == Init /\ [][Next]_vars

(* The loader runs, and the watchdog ends an application that hangs.  A     *)
(* healthy application may run for ever.                                    *)
Fairness ==
    /\ WF_vars(Boot) /\ WF_vars(AppInit)
    /\ WF_vars(~Works /\ SoftReset)

FairSpec == Spec /\ Fairness
=============================================================================
