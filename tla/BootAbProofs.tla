---------------------------- MODULE BootAbProofs ----------------------------
(***************************************************************************)
(* Proofs about the A/B boot table, for every boot limit, every number of  *)
(* power losses and every range of versions, of an application that turns  *)
(* the fallback off in otaab_finish and is not cut inside that call.       *)
(***************************************************************************)
EXTENDS BootAbProperties, TLAPS

(* Outside otaab_finish: the slot relied on is valid, works, has no        *)
(* fallback of its own, and would not lose against an erased sector.       *)
Steady ==
    /\ Selected(flags) # NULL
    /\ check_ab_valid(flags[Kept]) /\ flags[Kept].rb # "en"
    /\ image[Kept] = "good"
    /\ Kept = "b" => flags["b"].ver # Erased

(* Inside it: the other sector is erased already, so the present slot must *)
(* win against that, and its fallback is still possible.                   *)
Finishing ==
    /\ flags[Another(cur)] = Blank
    /\ check_ab_valid(flags[cur])
    /\ image[cur] = "good"
    /\ cur = "b" => flags["b"].ver # Erased
    /\ flags[cur].rb = "en" => image[Another(cur)] = "good"

Ending ==
    /\ done
    /\ flags[Another(cur)] = Blank
    /\ image[Another(cur)] # PART
    /\ flags[cur].ver > 1

IInv ==
    /\ TypeOK
    /\ \A s \in Slot : flags[s].ver = Erased => flags[s].rb # "en"
    /\ fb = 0 /\ pc # "hung"
    /\ cur = NULL <=> pc \in {"off", "init"}
    /\ done => pc \in {"app", "end"}
    /\ pc # "finish" => Steady
    /\ pc = "finish" => Finishing
    /\ cur # NULL => IF done THEN Kept = cur ELSE Selected(flags) = cur
    /\ pc = "end" => Ending

(* One application: fallback off after otaab_finish, which is not cut. *)
Calm == Fallbacks = {0} /\ FinishWhole = TRUE

USE BootAbAssumption DEF Slot, Image, PART

LEMMA InitInv == ASSUME Init PROVE IInv
<1>1. Selected(flags) = "a" /\ ~OnTrial /\ Kept = "a"
  BY DEF Init, Blank, Selected, check_ab_valid, OnTrial, Kept
<1>2. TypeOK
  <2>1. Blank \in Flag
    BY DEF Blank, Flag
  <2>2. flags \in [Slot -> Flag] /\ image \in [Slot -> Image]
    BY <2>1 DEF Init
  <2>3. cur \in Slot \cup {NULL} /\ fb \in {0, 1} /\ losses \in 0..MaxLoss
    BY DEF Init
  <2> QED
    BY <2>2, <2>3 DEF Init, TypeOK
<1> QED
  BY <1>1, <1>2 DEF Init, Blank, IInv, Steady, check_ab_valid

(* What the invariant implies for the properties. *)
LEMMA InvKept == ASSUME IInv PROVE KeptWorks
<1>1. CASE pc # "finish"
  BY <1>1 DEF IInv, Steady, KeptWorks
<1>2. CASE pc = "finish"
  <2>1. cur \in Slot /\ Selected(flags) = cur
    BY <1>2 DEF IInv, TypeOK
  <2>2. Kept = IF flags[cur].rb = "en" THEN Another(cur) ELSE cur
    BY <2>1 DEF Kept, OnTrial
  <2>3. check_ab_valid(flags[Another(cur)])
    BY <1>2 DEF IInv, Finishing, Blank, check_ab_valid
  <2> QED
    BY <1>2, <2>1, <2>2, <2>3 DEF IInv, Finishing, KeptWorks
<1> QED
  BY <1>1, <1>2

LEMMA InvPresent == ASSUME IInv PROVE PresentKept
<1> SUFFICES ASSUME cur # NULL, done, ~flags[Another(cur)].finish
             PROVE  Selected(flags) = cur
  BY DEF IInv, PresentKept
<1>1. cur \in Slot /\ Kept = cur /\ Steady
  BY DEF IInv, TypeOK
<1>2. Selected(flags) \in Slot
  BY <1>1 DEF Selected, Steady
<1>3. check_ab_valid(flags[Selected(flags)])
  BY <1>1 DEF Selected, Steady
<1>4. CASE OnTrial
  <2>1. flags[Selected(flags)].ver # Erased
    BY <1>2, <1>4 DEF IInv, OnTrial
  <2>2. flags[Selected(flags)].finish
    BY <1>3, <2>1 DEF check_ab_valid
  <2> QED
    BY <1>1, <1>2, <1>4, <2>2 DEF Kept, Another
<1>5. CASE ~OnTrial
  BY <1>1, <1>5 DEF Kept
<1> QED
  BY <1>4, <1>5

-----------------------------------------------------------------------------
(* Selection depends on nothing but the two sectors.  A slot wins against  *)
(* an erased or a half written sector, and against none newer than itself. *)
LEMMA SelectedWins ==
    ASSUME NEW f \in [Slot -> Flag], NEW s \in Slot,
           check_ab_valid(f[s]),
           \/ ~check_ab_valid(f[Another(s)])
           \/ f[Another(s)].ver = Erased /\ (s = "b" => f["b"].ver # Erased)
    PROVE  Selected(f) = s
<1>1. f["a"].ver \in 0..Erased /\ f["b"].ver \in 0..Erased
  BY DEF Flag
<1> QED
  BY <1>1 DEF Selected, Another

LEMMA SelectedLoses ==
    ASSUME NEW f \in [Slot -> Flag], NEW s \in Slot,
           check_ab_valid(f[s]), check_ab_valid(f[Another(s)]),
           f[Another(s)].ver < f[s].ver
    PROVE  Selected(f) = Another(s)
<1>1. f["a"].ver \in 0..Erased /\ f["b"].ver \in 0..Erased
  BY DEF Flag
<1> QED
  BY <1>1 DEF Selected, Another

LEMMA SelectedValid ==
    ASSUME NEW f \in [Slot -> Flag], Selected(f) # NULL
    PROVE  Selected(f) \in Slot /\ check_ab_valid(f[Selected(f)])
BY DEF Selected

LEMMA BlankFlag ==
    /\ Blank \in Flag /\ check_ab_valid(Blank) /\ Blank.rb # "en"
    /\ Blank.ver = Erased /\ EnableFallback(Blank) = Blank
BY DEF Blank, Flag, check_ab_valid, EnableFallback

LEMMA AnotherSlot ==
    ASSUME NEW s \in Slot
    PROVE  Another(s) \in Slot /\ Another(s) # s /\ Another(Another(s)) = s
BY DEF Another

(* bootab_set_valid over an erased sector: whole, or not valid yet. *)
LEMMA SetValidFlag ==
    ASSUME NEW f \in Flag, f.ver > 1, NEW n \in 0..3
    PROVE  LET g == SetValid(Blank, f, n)
           IN  /\ g \in Flag
               /\ g.ver = Erased => g.rb # "en"
               /\ n = 0 => g = Blank
               /\ n \in {1, 2} => ~check_ab_valid(g)
               /\ n = 3 => check_ab_valid(g) /\ g.ver < f.ver /\ g.rb = "en"
<1> DEFINE g == SetValid(Blank, f, n)
<1>1. f.ver \in 2..Erased
  BY DEF Flag
<1>2. /\ g.ver = IF n = 0 THEN Erased ELSE f.ver - 1
      /\ g.rb = IF n >= 2 THEN "en" ELSE "blank"
      /\ g.finish = IF n >= 3 THEN TRUE ELSE FALSE
      /\ g.cnt = 0
  BY <1>1 DEF SetValid, Blank
<1>3. g \in Flag
  BY <1>1, <1>2 DEF Flag, SetValid, Blank
<1>4. n = 0 => g = Blank
  BY <1>2 DEF SetValid, Blank
<1> QED
  BY <1>1, <1>2, <1>3, <1>4 DEF check_ab_valid

(* Nothing but versions and finish flags selects. *)
LEMMA SelectedSame ==
    ASSUME NEW f \in [Slot -> Flag], NEW g \in [Slot -> Flag],
           \A s \in Slot : g[s].ver = f[s].ver /\ g[s].finish = f[s].finish
    PROVE  /\ Selected(g) = Selected(f)
           /\ \A s \in Slot : check_ab_valid(g[s]) <=> check_ab_valid(f[s])
BY DEF Selected, check_ab_valid

-----------------------------------------------------------------------------
(* The loader. *)
LEMMA BootCounts ==
    ASSUME IInv, Boot, flags' # flags,
           ~(OnTrial /\ flags[Selected(flags)].cnt >= Limit)
    PROVE  /\ flags' \in [Slot -> Flag]
           /\ \A s \in Slot : /\ flags'[s].ver = flags[s].ver
                             /\ flags'[s].finish = flags[s].finish
                             /\ flags'[s].rb = flags[s].rb
<1>1. Selected(flags) \in Slot /\ flags \in [Slot -> Flag]
  BY SelectedValid DEF IInv, Boot, Steady, TypeOK
<1> DEFINE ab == Selected(flags)
<1>2. flags' = [flags EXCEPT ![ab].cnt = @ + 1] /\ ~(flags[ab].cnt >= Limit)
  BY <1>1 DEF Boot, CountOrGiveUp, OnTrial
<1>3. flags[ab] \in Flag /\ flags[ab].cnt + 1 \in 0..Limit
  BY <1>1, <1>2 DEF Flag
<1>4. [flags[ab] EXCEPT !.cnt = flags[ab].cnt + 1] \in Flag
  BY <1>3 DEF Flag
<1>5. flags' = [flags EXCEPT ![ab] = [flags[ab] EXCEPT !.cnt = flags[ab].cnt + 1]]
  BY <1>2
<1>6. flags' \in [Slot -> Flag]
  BY <1>1, <1>4, <1>5
<1>7. \A s \in Slot : /\ flags'[s].ver = flags[s].ver
                     /\ flags'[s].finish = flags[s].finish
                     /\ flags'[s].rb = flags[s].rb
  BY <1>1, <1>5 DEF Flag
<1> QED
  BY <1>6, <1>7

LEMMA BootGivesUp ==
    ASSUME IInv, Boot, OnTrial, flags[Selected(flags)].cnt >= Limit
    PROVE  /\ flags' \in [Slot -> Flag]
           /\ Selected(flags') = Kept
           /\ check_ab_valid(flags'[Kept])
           /\ flags'[Kept] = flags[Kept]
           /\ \A s \in Slot : flags'[s].ver = Erased => flags'[s].rb # "en"
<1> DEFINE ab == Selected(flags)
<1>1. ab \in Slot /\ flags \in [Slot -> Flag] /\ Steady /\ ab # NULL
  BY SelectedValid DEF IInv, Boot, Steady, TypeOK
<1>2. Kept = Another(ab) /\ Kept \in Slot /\ Kept # ab /\ Another(Kept) = ab
  BY <1>1, AnotherSlot DEF Kept
<1>3. flags' = [flags EXCEPT ![ab].ver = 0]
  BY <1>1 DEF Boot, CountOrGiveUp, OnTrial
<1>4. flags[ab] \in Flag /\ [flags[ab] EXCEPT !.ver = 0] \in Flag
  BY <1>1 DEF Flag
<1>5. flags' = [flags EXCEPT ![ab] = [flags[ab] EXCEPT !.ver = 0]]
  BY <1>3
<1>6. flags' \in [Slot -> Flag] /\ flags'[Kept] = flags[Kept]
  BY <1>1, <1>2, <1>4, <1>5
<1>7. flags'[ab].ver = 0
  BY <1>1, <1>5 DEF Flag
<1>8. ~check_ab_valid(flags'[ab])
  BY <1>7 DEF check_ab_valid
<1>9. check_ab_valid(flags'[Kept])
  BY <1>1, <1>6 DEF Steady
<1>10. Selected(flags') = Kept
  BY <1>2, <1>6, <1>8, <1>9, SelectedWins
<1>11. \A s \in Slot : flags'[s].ver = Erased => flags'[s].rb # "en"
  BY <1>1, <1>5, <1>7 DEF IInv
<1> QED
  BY <1>6, <1>9, <1>10, <1>11

LEMMA BootInv == ASSUME IInv, Boot PROVE IInv'
<1>1. /\ flags \in [Slot -> Flag] /\ Steady /\ cur = NULL /\ ~done
      /\ Selected(flags) # NULL /\ Selected(flags) \in Slot
  BY SelectedValid DEF IInv, Boot, Steady, TypeOK
<1>2. /\ UNCHANGED <<image, cur, done, fb, losses>>
      /\ pc' \in {"off", "init"} /\ reason' \in {"por", "soft"}
  BY <1>1 DEF Boot, IInv, TypeOK
<1>3. Kept \in Slot
  BY <1>1, AnotherSlot DEF Kept
<1>4. CASE OnTrial /\ flags[Selected(flags)].cnt >= Limit
  <2>1. /\ flags' \in [Slot -> Flag]
        /\ Selected(flags') = Kept
        /\ check_ab_valid(flags'[Kept])
        /\ flags'[Kept] = flags[Kept]
        /\ \A s \in Slot : flags'[s].ver = Erased => flags'[s].rb # "en"
    BY <1>4, BootGivesUp
  <2>2. ~OnTrial' /\ Kept' = Kept
    BY <1>1, <2>1 DEF OnTrial, Kept, Steady
  <2>3. Steady'
    BY <1>1, <1>2, <1>3, <2>1, <2>2 DEF Steady
  <2> QED
    BY <1>1, <1>2, <2>1, <2>3 DEF IInv, TypeOK
<1>5. CASE flags' # flags /\ ~(OnTrial /\ flags[Selected(flags)].cnt >= Limit)
  <2>1. /\ flags' \in [Slot -> Flag]
        /\ \A s \in Slot : /\ flags'[s].ver = flags[s].ver
                          /\ flags'[s].finish = flags[s].finish
                          /\ flags'[s].rb = flags[s].rb
    BY <1>5, BootCounts
  <2>2. /\ Selected(flags') = Selected(flags)
        /\ \A s \in Slot : check_ab_valid(flags'[s]) <=> check_ab_valid(flags[s])
    BY <1>1, <2>1, SelectedSame
  <2>3. Kept' = Kept
    BY <1>1, <2>1, <2>2 DEF OnTrial, Kept
  <2>4. Steady'
    BY <1>1, <1>2, <1>3, <2>1, <2>2, <2>3 DEF Steady
  <2> QED
    BY <1>1, <1>2, <2>1, <2>4 DEF IInv, TypeOK
<1>6. CASE flags' = flags
  BY <1>1, <1>2, <1>6 DEF IInv, TypeOK, Steady, Kept, OnTrial
<1> QED
  BY <1>4, <1>5, <1>6

LEMMA AppInitInv == ASSUME IInv, AppInit PROVE IInv'
<1>1. /\ flags \in [Slot -> Flag] /\ Steady /\ ~done
      /\ Selected(flags) # NULL /\ Selected(flags) \in Slot
  BY SelectedValid DEF IInv, AppInit, Steady, TypeOK
<1>2. flags' = flags
  BY <1>1 DEF AppInit, AfterInit
<1>3. Steady'
  BY <1>1, <1>2 DEF AppInit, Steady, Kept, OnTrial
<1> QED
  BY <1>1, <1>2, <1>3 DEF IInv, TypeOK, AppInit

-----------------------------------------------------------------------------
(* otaab_finish.  Erasing the other sector leaves the selection alone. *)
LEMMA FinishClearInv == ASSUME IInv, Calm, NEW arg \in Fallbacks, FinishClear(arg)
                        PROVE  IInv'
<1>1. /\ flags \in [Slot -> Flag] /\ Steady /\ cur \in Slot /\ cur # NULL
      /\ Selected(flags) = cur /\ image[cur] = "good" /\ arg = 0
      /\ check_ab_valid(flags[cur])
  BY SelectedValid DEF IInv, FinishClear, TypeOK, Works, Steady, Calm
<1>2. flags' = [flags EXCEPT ![Another(cur)] = Blank]
  BY DEF FinishClear
<1>3. /\ flags' \in [Slot -> Flag]
      /\ flags'[cur] = flags[cur] /\ flags'[Another(cur)] = Blank
  BY <1>1, <1>2, AnotherSlot, BlankFlag
<1>4. cur = "b" => flags["b"].ver # Erased
  <2> SUFFICES ASSUME cur = "b", flags["b"].ver = Erased PROVE FALSE
    OBVIOUS
  <2>1. flags["b"].rb # "en"
    BY <1>1 DEF IInv
  <2>2. Kept = "b"
    BY <1>1, <2>1 DEF Kept, OnTrial
  <2> QED
    BY <1>1, <2>2 DEF Steady
<1>5. flags[cur].rb = "en" => image[Another(cur)] = "good"
  BY <1>1 DEF Steady, Kept, OnTrial
<1>6. Selected(flags') = cur
  BY <1>1, <1>3, <1>4, BlankFlag, SelectedWins
<1>7. \A s \in Slot : flags'[s].ver = Erased => flags'[s].rb # "en"
  BY <1>1, <1>2, BlankFlag DEF IInv
<1>8. Finishing'
  BY <1>1, <1>3, <1>4, <1>5 DEF Finishing, FinishClear
<1> QED
  BY <1>1, <1>3, <1>6, <1>7, <1>8 DEF IInv, TypeOK, FinishClear

LEMMA FinishFallbackInv == ASSUME IInv, FinishFallback PROVE IInv'
<1>1. /\ flags \in [Slot -> Flag] /\ cur \in Slot /\ cur # NULL
      /\ Selected(flags) = cur /\ Finishing /\ fb = 0
  BY DEF IInv, TypeOK, FinishFallback
<1>2. flags' = [flags EXCEPT ![cur] = DisableFallback(flags[cur])]
  BY <1>1 DEF FinishFallback
<1>3. /\ DisableFallback(flags[cur]) \in Flag
      /\ DisableFallback(flags[cur]).rb # "en"
      /\ DisableFallback(flags[cur]).ver = flags[cur].ver
      /\ DisableFallback(flags[cur]).finish = flags[cur].finish
  BY <1>1 DEF DisableFallback, Flag
<1>4. /\ flags' \in [Slot -> Flag]
      /\ flags'[cur] = DisableFallback(flags[cur])
      /\ flags'[Another(cur)] = flags[Another(cur)]
  BY <1>1, <1>2, <1>3, AnotherSlot
<1>5. \A s \in Slot : /\ flags'[s].ver = flags[s].ver
                     /\ flags'[s].finish = flags[s].finish
  BY <1>1, <1>2, <1>3
<1>6. /\ Selected(flags') = cur
      /\ check_ab_valid(flags'[cur])
  BY <1>1, <1>4, <1>5, SelectedSame DEF Finishing
<1>7. Kept' = cur /\ cur' = cur /\ image' = image
  BY <1>3, <1>4, <1>6 DEF Kept, OnTrial, FinishFallback
<1>8. Steady'
  BY <1>1, <1>3, <1>4, <1>6, <1>7 DEF Steady, Finishing
<1>9. \A s \in Slot : flags'[s].ver = Erased => flags'[s].rb # "en"
  BY <1>1, <1>2, <1>3 DEF IInv
<1> QED
  BY <1>1, <1>4, <1>7, <1>8, <1>9 DEF IInv, TypeOK, FinishFallback

-----------------------------------------------------------------------------
(* The update writes the slot that is not relied on. *)
LEMMA Updating ==
    ASSUME IInv, MayUpgrade
    PROVE  /\ flags \in [Slot -> Flag] /\ image \in [Slot -> Image]
           /\ Steady /\ cur \in Slot /\ cur # NULL /\ Kept = cur
           /\ check_ab_valid(flags[cur]) /\ Another(cur) \in Slot
           /\ Another(cur) # cur
BY AnotherSlot DEF IInv, MayUpgrade, TypeOK, Steady

LEMMA UpgradeSliceInv == ASSUME IInv, NEW i \in Image, UpgradeSlice(i) PROVE IInv'
<1>1. /\ Steady /\ Kept = cur /\ cur \in Slot /\ Another(cur) # cur
      /\ image \in [Slot -> Image]
  BY Updating DEF UpgradeSlice
<1>2. image' \in [Slot -> Image] /\ image'[cur] = image[cur]
  BY <1>1, AnotherSlot DEF UpgradeSlice
<1>3. Steady'
  BY <1>1, <1>2 DEF Steady, UpgradeSlice, Kept, OnTrial
<1> QED
  BY <1>2, <1>3 DEF IInv, TypeOK, UpgradeSlice, MayUpgrade, Kept, OnTrial

LEMMA UpgradeClearInv == ASSUME IInv, UpgradeClear PROVE IInv'
<1>1. /\ flags \in [Slot -> Flag] /\ Steady /\ cur \in Slot /\ cur # NULL
      /\ Kept = cur /\ check_ab_valid(flags[cur]) /\ Another(cur) \in Slot
      /\ Another(cur) # cur
  BY Updating DEF UpgradeClear
<1>2. /\ flags' = [flags EXCEPT ![Another(cur)] = Blank]
      /\ cur' = cur /\ image' = image /\ done' = done /\ done
  BY BlankFlag DEF UpgradeClear, MayUpgrade
<1>3. /\ flags' \in [Slot -> Flag]
      /\ flags'[cur] = flags[cur] /\ flags'[Another(cur)] = Blank
  BY <1>1, <1>2, BlankFlag
<1>4. Selected(flags') = cur
  BY <1>1, <1>3, BlankFlag, SelectedWins DEF Steady
<1>5. Kept' = cur
  BY <1>1, <1>3, <1>4 DEF Kept, OnTrial, Steady
<1>6. Steady'
  BY <1>1, <1>2, <1>3, <1>4, <1>5 DEF Steady
<1>7. \A s \in Slot : flags'[s].ver = Erased => flags'[s].rb # "en"
  BY <1>1, <1>2, BlankFlag DEF IInv
<1>8. Ending'
  BY <1>2, <1>3 DEF Ending, UpgradeClear, MayUpgrade
<1> QED
  BY <1>1, <1>2, <1>3, <1>5, <1>6, <1>7, <1>8 DEF IInv, TypeOK, UpgradeClear, MayUpgrade

(* Whatever part of the last write arrives. *)
Written(n) == flags' = [flags EXCEPT ![Another(cur)] = SetValid(@, flags[cur], n)]

LEMMA WrittenKept ==
    ASSUME IInv, pc = "end", NEW n \in 0..3, Written(n), UNCHANGED image
    PROVE  /\ flags' \in [Slot -> Flag] /\ cur \in Slot
           /\ Kept' = cur /\ Kept = cur /\ Steady'
           /\ \A s \in Slot : flags'[s].ver = Erased => flags'[s].rb # "en"
           /\ Selected(flags) = cur /\ ~OnTrial
           /\ IF n = 3 THEN Selected(flags') = Another(cur) /\ OnTrial'
              ELSE Selected(flags') = cur /\ ~OnTrial'
<1>1. /\ flags \in [Slot -> Flag] /\ cur \in Slot /\ cur # NULL /\ done
      /\ Steady /\ Kept = cur /\ Ending /\ check_ab_valid(flags[cur])
      /\ flags[cur].rb # "en" /\ (cur = "b" => flags["b"].ver # Erased)
  BY DEF IInv, TypeOK, Steady, Ending
<1> DEFINE g == SetValid(Blank, flags[cur], n)
<1>2. /\ g \in Flag /\ (g.ver = Erased => g.rb # "en")
      /\ n = 0 => g = Blank
      /\ n \in {1, 2} => ~check_ab_valid(g)
      /\ n = 3 => check_ab_valid(g) /\ g.ver < flags[cur].ver /\ g.rb = "en"
  BY <1>1, SetValidFlag DEF Ending
<1>3. /\ flags' \in [Slot -> Flag] /\ flags'[cur] = flags[cur]
      /\ flags'[Another(cur)] = g /\ Another(cur) \in Slot
  BY <1>1, <1>2, AnotherSlot DEF Written, Ending
<1>4. \A s \in Slot : flags'[s].ver = Erased => flags'[s].rb # "en"
  <2>1. \A s \in Slot : s = cur \/ s = Another(cur)
    BY <1>1 DEF Another
  <2> QED
    BY <1>1, <1>2, <1>3, <2>1
<1>5. Selected(flags) = cur /\ ~OnTrial
  <2>1. Selected(flags) = cur
    BY <1>1, BlankFlag, SelectedWins DEF Ending
  <2> QED
    BY <1>1, <2>1 DEF OnTrial
<1>6. CASE n = 3
  <2>1. Selected(flags') = Another(cur)
    BY <1>1, <1>2, <1>3, <1>6, SelectedLoses
  <2>2. OnTrial' /\ Kept' = cur
    BY <1>1, <1>2, <1>3, <1>6, <2>1, AnotherSlot DEF OnTrial, Kept
  <2>3. Steady'
    BY <1>1, <1>3, <2>1, <2>2, AnotherSlot DEF Steady
  <2> QED
    BY <1>1, <1>3, <1>4, <1>5, <1>6, <2>1, <2>2, <2>3
<1>7. CASE n # 3
  <2>1. n = 0 \/ n \in {1, 2}
    BY <1>7
  <2>2. \/ ~check_ab_valid(flags'[Another(cur)])
        \/ flags'[Another(cur)].ver = Erased
    BY <1>2, <1>3, <2>1, BlankFlag
  <2>3. Selected(flags') = cur
    BY <1>1, <1>3, <2>2, SelectedWins
  <2>4. ~OnTrial' /\ Kept' = cur
    BY <1>1, <1>3, <2>3 DEF OnTrial, Kept
  <2>5. Steady'
    BY <1>1, <1>3, <2>3, <2>4 DEF Steady
  <2> QED
    BY <1>1, <1>3, <1>4, <1>5, <1>7, <2>3, <2>4, <2>5
<1> QED
  BY <1>6, <1>7

LEMMA UpgradeEndInv == ASSUME IInv, NEW n \in 0..3, UpgradeEnd(n) PROVE IInv'
<1>1. pc = "end" /\ Written(n) /\ UNCHANGED image
  BY DEF UpgradeEnd, Written
<1>2. /\ flags' \in [Slot -> Flag] /\ Kept' = cur /\ Steady'
      /\ \A s \in Slot : flags'[s].ver = Erased => flags'[s].rb # "en"
  BY <1>1, WrittenKept
<1>3. done
  BY <1>1 DEF IInv, Ending
<1> QED
  BY <1>2, <1>3 DEF IInv, TypeOK, UpgradeEnd

LEMMA TornValidInv == ASSUME IInv, NEW n \in 0..3, TornValid(n) PROVE IInv'
<1>1. pc = "end" /\ Written(n) /\ UNCHANGED image
  BY DEF TornValid, Written
<1>2. /\ flags' \in [Slot -> Flag] /\ Steady'
      /\ \A s \in Slot : flags'[s].ver = Erased => flags'[s].rb # "en"
  BY <1>1, WrittenKept
<1>3. losses' \in 0..MaxLoss
  BY DEF IInv, TypeOK, TornValid
<1> QED
  BY <1>2, <1>3 DEF IInv, TypeOK, TornValid, Restart

-----------------------------------------------------------------------------
(* A reset keeps the flash, and may come anywhere but inside otaab_finish. *)
LEMMA ResetInv == ASSUME IInv, Calm, SoftReset \/ PowerLoss PROVE IInv'
<1>1. pc # "finish" /\ Steady /\ UNCHANGED <<flags, image>>
  BY DEF IInv, SoftReset, PowerLoss, Cut, Calm
<1>2. Steady'
  BY <1>1 DEF Steady, Kept, OnTrial
<1>3. losses' \in 0..MaxLoss
  BY DEF IInv, TypeOK, SoftReset, PowerLoss
<1>4. /\ pc' = "off" /\ reason' \in {"por", "soft"} /\ cur' = NULL
      /\ done' = FALSE /\ fb' = 0
  BY DEF SoftReset, PowerLoss, Restart
<1> QED
  BY <1>1, <1>2, <1>3, <1>4 DEF IInv, TypeOK

LEMMA NextInv == ASSUME IInv, Calm, [Next]_vars PROVE IInv'
<1>1. CASE UNCHANGED vars
  BY <1>1 DEF IInv, TypeOK, vars, Steady, Finishing, Ending, Kept, OnTrial
<1>2. CASE Next
  BY <1>2, BootInv, AppInitInv, FinishClearInv, FinishFallbackInv, UpgradeSliceInv,
     UpgradeClearInv, UpgradeEndInv, TornValidInv, ResetInv DEF Next
<1> QED
  BY <1>1, <1>2

LEMMA AlwaysInv == ASSUME Calm PROVE Spec => []IInv
<1>1. Init => IInv
  BY InitInv
<1>2. IInv /\ [Next]_vars => IInv'
  BY NextInv
<1> QED
  BY <1>1, <1>2, PTL DEF Spec

(* The variables keep their types; in particular the count of boots never  *)
(* passes the limit and no version wraps below zero.                       *)
THEOREM TypeCorrect == ASSUME Calm PROVE Spec => []TypeOK
<1>1. IInv => TypeOK
  BY DEF IInv
<1> QED
  BY <1>1, AlwaysInv, PTL

(* However the power fails, also inside the last write of an update, the   *)
(* loader finds a valid slot whose image is whole and starts up.           *)
THEOREM KeptAlways == ASSUME Calm PROVE Spec => []KeptWorks
<1>1. IInv => KeptWorks
  BY InvKept
<1> QED
  BY <1>1, AlwaysInv, PTL

(* The slot that runs stays the one that is started next, until an update  *)
(* has been written to its end.                                            *)
THEOREM PresentAlways == ASSUME Calm PROVE Spec => []PresentKept
<1>1. IInv => PresentKept
  BY InvPresent
<1> QED
  BY <1>1, AlwaysInv, PTL

-----------------------------------------------------------------------------
(* The refinement: every step is a step of the abstract slots or none. *)
LEMMA OtherIsAnother == ASSUME NEW s \in Slot PROVE Slots!Other(s) = Another(s)
<1>1. \E t \in Slot : t # s
  OBVIOUS
<1>2. (CHOOSE t \in Slot : t # s) \in Slot /\ (CHOOSE t \in Slot : t # s) # s
  BY <1>1
<1> QED
  BY <1>2 DEF Slots!Other, Another

LEMMA SlotsStutter ==
    ASSUME Selected(flags') = Selected(flags), OnTrial' = OnTrial, image' = image
    PROVE  [Slots!Next]_Slots!vars
BY DEF Slots!vars

LEMMA SlotsGiveUp ==
    ASSUME OnTrial, ~OnTrial', Selected(flags) \in Slot, Selected(flags') = Kept,
           UNCHANGED image
    PROVE  Slots!GiveUp
BY OtherIsAnother DEF Slots!GiveUp, Slots!Kept, Kept

LEMMA BootMaps == ASSUME IInv, Boot PROVE [Slots!Next]_Slots!vars
<1>1. /\ Selected(flags) \in Slot /\ Steady /\ UNCHANGED image
      /\ flags \in [Slot -> Flag]
  BY SelectedValid DEF IInv, Boot, Steady, TypeOK
<1>2. CASE OnTrial /\ flags[Selected(flags)].cnt >= Limit
  <2>1. Selected(flags') = Kept /\ flags'[Kept] = flags[Kept]
    BY <1>2, BootGivesUp
  <2>2. ~OnTrial'
    BY <1>1, <2>1 DEF OnTrial, Steady
  <2> QED
    BY <1>1, <1>2, <2>1, <2>2, SlotsGiveUp DEF Slots!Next
<1>3. CASE flags' # flags /\ ~(OnTrial /\ flags[Selected(flags)].cnt >= Limit)
  <2>1. /\ flags' \in [Slot -> Flag]
        /\ \A s \in Slot : /\ flags'[s].ver = flags[s].ver
                          /\ flags'[s].finish = flags[s].finish
                          /\ flags'[s].rb = flags[s].rb
    BY <1>3, BootCounts
  <2>2. Selected(flags') = Selected(flags)
    BY <1>1, <2>1, SelectedSame
  <2>3. OnTrial' = OnTrial
    BY <1>1, <2>1, <2>2 DEF OnTrial
  <2> QED
    BY <1>1, <2>2, <2>3, SlotsStutter
<1>4. CASE flags' = flags
  BY <1>1, <1>4, SlotsStutter DEF OnTrial
<1> QED
  BY <1>2, <1>3, <1>4

LEMMA FinishMaps ==
    ASSUME IInv, IInv', Calm,
           (\E arg \in Fallbacks : FinishClear(arg)) \/ FinishFallback
    PROVE  [Slots!Next]_Slots!vars
<1>1. /\ flags \in [Slot -> Flag] /\ cur \in Slot /\ UNCHANGED <<cur, image>>
      /\ Selected(flags) = cur /\ cur # NULL /\ image[cur] = "good"
  BY DEF IInv, TypeOK, FinishClear, FinishFallback, Works, Finishing
<1>2. Another(cur) \in Slot /\ Another(cur) # cur
  BY <1>1, AnotherSlot
<1>3. CASE \E arg \in Fallbacks : FinishClear(arg)
  <2>1. Selected(flags') = cur
    BY <1>1, <1>3 DEF IInv, FinishClear
  <2>2. flags'[cur] = flags[cur]
    BY <1>1, <1>2, <1>3 DEF FinishClear
  <2> QED
    BY <1>1, <2>1, <2>2, SlotsStutter DEF OnTrial
<1>4. CASE FinishFallback
  <2>1. flags' = [flags EXCEPT ![cur] = DisableFallback(flags[cur])]
    BY <1>1, <1>4 DEF FinishFallback, IInv
  <2>2. flags'[cur].rb # "en" /\ (flags[cur].rb # "en" => flags' = flags)
    BY <1>1, <2>1 DEF DisableFallback, Flag
  <2>3. Selected(flags') = cur
    <3>1. Kept' = cur /\ Steady' /\ flags' \in [Slot -> Flag]
      BY <1>1, <1>4 DEF IInv, TypeOK, FinishFallback
    <3>2. /\ DisableFallback(flags[cur]) \in Flag
          /\ DisableFallback(flags[cur]).ver = flags[cur].ver
          /\ DisableFallback(flags[cur]).finish = flags[cur].finish
      BY <1>1 DEF DisableFallback, Flag
    <3>3. \A s \in Slot : /\ flags'[s].ver = flags[s].ver
                         /\ flags'[s].finish = flags[s].finish
      BY <1>1, <2>1, <3>2
    <3> QED
      BY <1>1, <3>1, <3>3, SelectedSame
  <2>4. ~OnTrial'
    BY <1>1, <2>2, <2>3 DEF OnTrial
  <2>5. CASE OnTrial
    BY <1>1, <2>3, <2>4, <2>5 DEF Slots!Next, Slots!Confirm
  <2>6. CASE ~OnTrial
    BY <1>1, <2>2, <2>3, <2>4, <2>6, SlotsStutter DEF OnTrial
  <2> QED
    BY <2>5, <2>6
<1> QED
  BY <1>3, <1>4

LEMMA SliceMaps == ASSUME IInv, NEW i \in Image, UpgradeSlice(i)
                   PROVE  [Slots!Next]_Slots!vars
<1>1. /\ Selected(flags) \in Slot /\ Kept = cur /\ cur \in Slot
      /\ flags \in [Slot -> Flag]
  BY Updating, SelectedValid DEF UpgradeSlice, Steady
<1>2. Slots!Kept = cur
  BY <1>1, OtherIsAnother DEF Slots!Kept, Kept
<1>3. Slots!Overwrite(i)
  BY <1>1, <1>2, OtherIsAnother DEF Slots!Overwrite, UpgradeSlice, OnTrial
<1> QED
  BY <1>3 DEF Slots!Next

LEMMA ClearMaps == ASSUME IInv, IInv', UpgradeClear PROVE [Slots!Next]_Slots!vars
<1>1. /\ flags \in [Slot -> Flag] /\ Steady /\ cur \in Slot /\ Kept = cur
      /\ check_ab_valid(flags[cur]) /\ Another(cur) \in Slot /\ Another(cur) # cur
  BY Updating DEF UpgradeClear
<1>2. /\ flags' = [flags EXCEPT ![Another(cur)] = Blank]
      /\ cur' = cur /\ UNCHANGED image
  BY BlankFlag DEF UpgradeClear
<1>3. flags'[cur] = flags[cur] /\ flags'[Another(cur)] = Blank
  BY <1>1, <1>2, BlankFlag
<1>4. flags' \in [Slot -> Flag]
  BY <1>1, <1>2, BlankFlag
<1>5. Selected(flags') = cur
  BY <1>1, <1>3, <1>4, BlankFlag, SelectedWins DEF Steady
<1>6. ~OnTrial'
  BY <1>1, <1>3, <1>5 DEF OnTrial, Steady
<1>7. CASE OnTrial
  <2>1. Selected(flags) \in Slot
    BY <1>1, SelectedValid DEF Steady
  <2> QED
    BY <1>1, <1>2, <1>5, <1>6, <1>7, <2>1, SlotsGiveUp DEF Slots!Next
<1>8. CASE ~OnTrial
  <2>1. Selected(flags) = cur
    BY <1>1, <1>8 DEF Kept
  <2> QED
    BY <1>2, <1>5, <1>6, <1>8, <2>1, SlotsStutter DEF OnTrial
<1> QED
  BY <1>7, <1>8

LEMMA WriteMaps ==
    ASSUME IInv, NEW n \in 0..3, pc = "end", Written(n), UNCHANGED image
    PROVE  [Slots!Next]_Slots!vars
<1>1. /\ cur \in Slot /\ Selected(flags) = cur /\ ~OnTrial
      /\ IF n = 3 THEN Selected(flags') = Another(cur) /\ OnTrial'
         ELSE Selected(flags') = cur /\ ~OnTrial'
  BY WrittenKept
<1>2. image[Another(cur)] # PART
  BY DEF IInv, Ending
<1>3. CASE n = 3
  BY <1>1, <1>2, <1>3, OtherIsAnother DEF Slots!Next, Slots!Install
<1>4. CASE n # 3
  BY <1>1, <1>4, SlotsStutter DEF OnTrial
<1> QED
  BY <1>3, <1>4

LEMMA NextMaps == ASSUME IInv, IInv', Calm, [Next]_vars PROVE [Slots!Next]_Slots!vars
<1>1. CASE UNCHANGED <<flags, image>>
  BY <1>1, SlotsStutter DEF OnTrial
<1>2. CASE AppInit
  <2>1. UNCHANGED <<flags, image>>
    BY <1>2 DEF AppInit, AfterInit, IInv, Steady
  <2> QED
    BY <1>1, <2>1
<1>3. CASE \E n \in 0..3 : UpgradeEnd(n) \/ TornValid(n)
  BY <1>3, WriteMaps DEF UpgradeEnd, TornValid, Written
<1>4. CASE SoftReset \/ PowerLoss
  BY <1>1, <1>4 DEF SoftReset, PowerLoss
<1> QED
  BY <1>1, <1>2, <1>3, <1>4, BootMaps, FinishMaps, SliceMaps, ClearMaps DEF Next, vars

(* The table, with its torn writes, its boot counts and its order of       *)
(* versions, implements the abstract pair of slots: the slot that is       *)
(* relied on is never written, a trial ends by a working application or by *)
(* the return to the slot before it.                                       *)
THEOREM TableImplementsSlots == ASSUME Calm PROVE Spec => SlotsKept
<1>1. Init => Slots!Init
  <2> SUFFICES ASSUME Init PROVE Slots!Init
    OBVIOUS
  <2>1. Selected(flags) = "a" /\ ~OnTrial
    BY DEF Init, Blank, Selected, check_ab_valid, OnTrial
  <2>2. image \in [Slot -> Image] /\ image["a"] = "good"
    BY DEF Init
  <2> QED
    BY <2>1, <2>2 DEF Slots!Init, OnTrial
<1>2. IInv /\ IInv' /\ [Next]_vars => [Slots!Next]_Slots!vars
  BY NextMaps
<1> QED
  BY <1>1, <1>2, AlwaysInv, PTL DEF Spec, SlotsKept, Slots!Spec
=============================================================================
