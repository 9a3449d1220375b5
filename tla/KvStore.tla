------------------------------ MODULE KvStore ------------------------------
(***************************************************************************)
(* The key-value store on NOR flash (components/kv: kvset.c, block.c).     *)
(* Every flash write and every erase is a step of its own, so a power loss *)
(* may fall between any two of them, or into the middle of a write.  Calls *)
(* are serialised by kv_lock (kv_aos.c), so there is one call at a time.   *)
(*                                                                         *)
(* Lengths are counted in words; the last word of a node is its erase      *)
(* flag, which is written when the node is removed.  A read-only (factory) *)
(* node has version 0, as kvblock_search gives it; a node that is written  *)
(* has 1..MaxVer.                                                          *)
(***************************************************************************)
EXTENDS Integers, FiniteSets

CONSTANTS
    Key, Val, NULL,
    GARBAGE,     \* what a torn node that comes to life reads as
    NBlock,      \* kv->num
    Words,       \* words of a block, without its last one
    Scan,        \* words kvblock_calc looks at for junk: the first 127
    Size,        \* length of a node with a given value
    MaxVer,      \* 255, the largest version; 1 follows it
    Factory,     \* the read-only nodes of the factory image
    Torn,        \* what a write cut by a power loss may leave: "none",
                 \* "junk" without a whole header, or "header"
    BadFlash     \* TRUE if a write may fail its verification at any time

SizeRange == 16384   \* kv_size is a uint16_t and counts bytes

Block == 0..(NBlock-1)
Ver   == 1..MaxVer
Node  == [blk : Block, at : 0..(Words-1), key : Key, val : Val \cup {GARBAGE},
          ver : 0..MaxVer, len : 1..Words]

ASSUME KvAssumption ==
    /\ NULL \notin Val \cup {GARBAGE} \cup Node \cup Block
    /\ GARBAGE \notin Val
    /\ NBlock \in Nat \ {0} /\ Words \in 1..(SizeRange-1) /\ Scan \in 0..Words
    /\ Size \in [Val -> 2..Words]
    /\ MaxVer \in Nat /\ MaxVer >= 3
    /\ Factory \subseteq Node /\ IsFiniteSet(Factory)
    /\ \A f \in Factory : f.ver = 0 /\ f.at + f.len <= Words
    /\ \A f, g \in Factory : f # g /\ f.blk = g.blk =>
           f.at + f.len <= g.at \/ g.at + g.len <= f.at
    /\ Torn \in {"none", "junk", "header"} /\ BadFlash \in BOOLEAN

VARIABLES
    nodes,   \* flash: the nodes whose erase flag is still unwritten
    tail,    \* flash: per block, the end of the last node, erased or not
    used,    \* flash: per block, the end of everything that is not blank
    torn,    \* flash: whole headers of nodes whose end is missing
    wo,      \* block->write_offset
    cnt,     \* block->count
    roc,     \* block->ro_count
    kvsz,    \* block->kv_size
    bid,     \* kv->bid, the block written next
    gc,      \* kv->gc_bid, NULL for -1
    op       \* the call in progress

flash == <<nodes, tail, used, torn>>
ram   == <<wo, cnt, roc, kvsz, bid, gc>>
vars  == <<flash, ram, op>>

Rw(n) == n.ver # 0
NodesIn(b) == {n \in nodes : n.blk = b}
Copies(k)  == {n \in nodes : n.key = k /\ Rw(n)}

NextVer(v) == IF v = MaxVer THEN 1 ELSE v + 1

(* Fault: versions are compared as numbers only. *)
OlderByNumber(m, n) == m.ver < n.ver

(* kvblock_check_version: m is the node it would delete of the two. *)
Older(m, n) ==
    CASE m.ver = MaxVer /\ n.ver = 1 -> TRUE
      [] m.ver = 1 /\ n.ver = MaxVer -> FALSE
      [] OTHER -> m.ver < n.ver

(* kv_find prefers a node that can be written over a factory node. *)
Found(k) ==
    LET all == {n \in nodes : n.key = k}
    IN  IF Copies(k) # {} THEN CHOOSE n \in Copies(k) : TRUE
        ELSE IF all # {} THEN CHOOSE n \in all : TRUE
        ELSE NULL

Free(b) == Words - wo[b]

Larger(a, b) == IF a > b THEN a ELSE b

Resting(pc) == [pc |-> pc, call |-> "none"]

-----------------------------------------------------------------------------
(* Flash operations (block.c). *)

(* __kvblock_gc leaves ro_count as it is. *)
EraseBlock(b) ==
    /\ nodes' = nodes \ NodesIn(b)
    /\ torn' = {g \in torn : g.blk # b}
    /\ tail' = [tail EXCEPT ![b] = 0]
    /\ used' = [used EXCEPT ![b] = 0]
    /\ wo'   = [wo EXCEPT ![b] = 0]
    /\ cnt'  = [cnt EXCEPT ![b] = 0]
    /\ kvsz' = [kvsz EXCEPT ![b] = 0]
    /\ UNCHANGED roc

(* Fault: kv_size is left as it was. *)
MarkErasedSizeKept(n) ==
    /\ nodes' = nodes \ {n}
    /\ cnt' = [cnt EXCEPT ![n.blk] = @ - 1]
    /\ UNCHANGED <<tail, used, torn, wo, roc, kvsz>>

MarkErased(n) ==
    /\ nodes' = nodes \ {n}
    /\ cnt'  = [cnt EXCEPT ![n.blk] = @ - 1]
    /\ kvsz' = [kvsz EXCEPT ![n.blk] = (@ - n.len) % SizeRange]
    /\ UNCHANGED <<tail, used, torn, wo, roc>>

(* Fault: off by one; the block is erased with one node left. *)
KvnodeRmEarly(n) ==
    IF cnt[n.blk] - roc[n.blk] > 2 THEN MarkErased(n) ELSE EraseBlock(n.blk)

KvnodeRm(n) ==
    IF Rw(n)
    THEN IF cnt[n.blk] - roc[n.blk] > 1 THEN MarkErased(n) ELSE EraseBlock(n.blk)
    ELSE UNCHANGED <<flash, wo, cnt, roc, kvsz>>

NewNode(b, k, v, ver, len) ==
    [blk |-> b, at |-> wo[b], key |-> k, val |-> v, ver |-> ver, len |-> len]

(* Fault: the reserved last word is given away. *)
HasRoomToTheEnd(b, len) == wo[b] + len <= Words + 1

HasRoom(b, len) == wo[b] + len <= Words

End(n) == n.at + n.len

(* Torn headers that a node ending where they claim to end completes: from *)
(* then on kvblock_search reads the torn node, and skips what lies in it.  *)
Completed(n) == {g \in torn : g.blk = n.blk /\ g.at < n.at /\ End(g) = End(n)}

Visible(n) ==
    IF Completed(n) = {} THEN nodes \cup {n}
    ELSE LET g == CHOOSE g \in Completed(n) : \A h \in Completed(n) : g.at <= h.at
         IN  {m \in nodes : m.blk # n.blk \/ m.at < g.at} \cup {g}

(* kvblock_set, once the room is allocated: the node reads back as         *)
(* written, which it may also do over junk.                                *)
WriteVerified(n) ==
    /\ nodes' = Visible(n)
    /\ tail' = [tail EXCEPT ![n.blk] = End(n)]
    /\ used' = [used EXCEPT ![n.blk] = Larger(@, End(n))]
    /\ torn' = {g \in torn : g.blk # n.blk \/ (g.at < n.at /\ End(g) > End(n))}
    /\ wo'   = [wo EXCEPT ![n.blk] = @ + n.len]
    /\ cnt'  = [cnt EXCEPT ![n.blk] = @ + 1]
    /\ kvsz' = [kvsz EXCEPT ![n.blk] = (@ + n.len) % SizeRange]
    /\ UNCHANGED roc

(* It does not: the flash is bad, or held junk that was never noticed.     *)
(* The space stays allocated, and the erase flag written behind it may or  *)
(* may not make a node of it.                                              *)
WriteRejected(n) ==
    /\ BadFlash \/ wo[n.blk] < used[n.blk]
    /\ tail' \in {tail, [tail EXCEPT ![n.blk] = End(n)]}
    /\ used' = [used EXCEPT ![n.blk] = Larger(@, End(n))]
    /\ torn' = {g \in torn : g.blk # n.blk}
    /\ wo'   = [wo EXCEPT ![n.blk] = @ + n.len]
    /\ UNCHANGED <<nodes, cnt, roc, kvsz>>

(* The power fails when the node's first j words were (partly) written.    *)
WriteTorn(n) ==
    /\ Torn # "none"
    /\ \E j \in 1..(n.len-1) :
         /\ used' = [used EXCEPT ![n.blk] = Larger(@, n.at + j)]
         /\ \/ torn' = torn
            \/ /\ Torn = "header" /\ j < n.len - 1 /\ wo[n.blk] >= used[n.blk]
               /\ torn' = torn \cup {[n EXCEPT !.val = GARBAGE]}
    /\ UNCHANGED <<nodes, tail>>

-----------------------------------------------------------------------------
(* Power-up: kv_init. *)

(* What calloc leaves in kv->blocks before kv_init fills it. *)
NoRam ==
    /\ wo' = [b \in Block |-> 0] /\ cnt' = [b \in Block |-> 0]
    /\ roc' = [b \in Block |-> 0] /\ kvsz' = [b \in Block |-> 0]
    /\ bid' = 0 /\ gc' = NULL
    /\ op' = Resting("off")

Init ==
    /\ nodes = Factory
    /\ tail = [b \in Block |-> IF NodesIn(b) = {} THEN 0
                 ELSE CHOOSE e \in {End(n) : n \in NodesIn(b)} :
                          \A n \in NodesIn(b) : End(n) <= e]
    /\ used = tail
    /\ torn = {}
    /\ wo = [b \in Block |-> 0] /\ cnt = [b \in Block |-> 0]
    /\ roc = [b \in Block |-> 0] /\ kvsz = [b \in Block |-> 0]
    /\ bid = 0 /\ gc = NULL
    /\ op = Resting("off")

(* Fault: erased nodes are overlooked. *)
WriteOffsetLive(b) ==
    CHOOSE e \in {End(n) : n \in NodesIn(b)} : \A n \in NodesIn(b) : End(n) <= e

(* kvblock_calc: behind the last node, then behind junk near the start. *)
WriteOffset(b) ==
    Larger(tail[b], IF used[b] < Scan THEN used[b] ELSE Scan)

LiveWords(b) == {s \in 0..(Words-1) : \E n \in NodesIn(b) : n.at <= s /\ s < End(n)}

(* kv_init visits the blocks in order; it keeps as gc block the last one   *)
(* whose free space was not less than that of any block before it.         *)
GcCandidate(free, b) == free[b] > 0 /\ \A c \in Block : c < b => free[c] <= free[b]

KvInit ==
    LET empty == {b \in Block : NodesIn(b) = {}}
        offset == [b \in Block |-> IF b \in empty THEN 0 ELSE WriteOffset(b)]
        free == [b \in Block |-> Words - offset[b]]
        candidates == {b \in Block : GcCandidate(free, b)}
        others == {b \in Block \ candidates : b # 0}
    IN  /\ op.pc = "off"
        /\ tail' = [b \in Block |-> IF b \in empty THEN 0 ELSE tail[b]]
        /\ used' = [b \in Block |-> IF b \in empty THEN 0 ELSE used[b]]
        /\ torn' = {g \in torn : g.blk \notin empty}
        /\ wo' = offset
        /\ cnt' = [b \in Block |-> Cardinality(NodesIn(b))]
        /\ roc' = [b \in Block |-> Cardinality({n \in NodesIn(b) : ~Rw(n)})]
        /\ kvsz' = [b \in Block |-> Cardinality(LiveWords(b))]
        /\ gc' = IF candidates = {} THEN NULL
                 ELSE CHOOSE b \in candidates : \A c \in candidates : c <= b
        /\ bid' = IF others = {} THEN 0
                  ELSE CHOOSE b \in others : \A c \in others : b <= c
        /\ op' = Resting("verify")
        /\ UNCHANGED nodes

(* kv_verify: of two nodes with one key, the older one goes. *)
KvVerify(m, n) ==
    /\ op.pc = "verify"
    /\ m.key = n.key /\ Rw(m) /\ Older(m, n)
    /\ KvnodeRm(m)
    /\ UNCHANGED <<bid, gc, op>>

(* Fault: kv_init does not verify. *)
KvVerifiedAtOnce ==
    /\ op.pc = "verify"
    /\ op' = Resting("idle")
    /\ UNCHANGED <<flash, ram>>

KvVerified ==
    /\ op.pc = "verify"
    /\ \A m, n \in nodes : m.key = n.key /\ Rw(m) => ~Older(m, n)
    /\ op' = Resting("idle")
    /\ UNCHANGED <<flash, ram>>

PowerLoss == op.pc # "off" /\ NoRam /\ UNCHANGED flash

-----------------------------------------------------------------------------
(* kv_set. *)

Return(ok) == op' = [op EXCEPT !.pc = "return", !.ok = ok]

(* start1: look the key up; the same value need not be written again. *)
Lookup(k, v, gced) ==
    LET n == Found(k)
    IN  [pc |-> IF n # NULL /\ n.val = v THEN "return" ELSE "try",
         call |-> "set", key |-> k, val |-> v, old |-> n,
         ver |-> IF n = NULL THEN 1 ELSE NextVer(n.ver),
         start |-> bid, gced |-> gced, ok |-> n # NULL /\ n.val = v]

KvSet(k, v) ==
    /\ op.pc = "idle"
    /\ op' = Lookup(k, v, FALSE)
    /\ UNCHANGED <<flash, ram>>

Fits == bid # gc /\ roc[bid] = 0 /\ HasRoom(bid, Size[op.val])

Target == NewNode(bid, op.key, op.val, op.ver, Size[op.val])

TryOk ==
    /\ op.pc = "try" /\ Fits
    /\ WriteVerified(Target)
    /\ IF op.old = NULL THEN Return(TRUE) ELSE op' = [op EXCEPT !.pc = "rmold"]
    /\ UNCHANGED <<bid, gc>>

(* The next block; after a whole round, collect garbage or give up. *)
NextBlock ==
    /\ bid' = (bid + 1) % NBlock
    /\ IF bid' # op.start THEN UNCHANGED op
       ELSE IF op.gced THEN Return(FALSE)
       ELSE op' = [pc |-> "gc", call |-> "set", key |-> op.key, val |-> op.val,
                   old |-> op.old, ver |-> op.ver, newgc |-> NULL]
    /\ UNCHANGED gc

TryRejected == op.pc = "try" /\ Fits /\ WriteRejected(Target) /\ NextBlock

TrySkip ==
    /\ op.pc = "try" /\ ~Fits
    /\ NextBlock
    /\ UNCHANGED <<flash, wo, cnt, roc, kvsz>>

TryTorn == op.pc = "try" /\ Fits /\ WriteTorn(Target) /\ NoRam

RmOld ==
    /\ op.pc = "rmold"
    /\ KvnodeRm(op.old)
    /\ Return(TRUE)
    /\ UNCHANGED <<bid, gc>>

-----------------------------------------------------------------------------
(* kv_gc. *)

(* Fault: an empty block is collected again and again. *)
VictimsEmpty == {b \in Block : roc[b] = 0 /\ b # gc /\ kvsz[b] <= Free(gc)}

Victims == {b \in Block : /\ roc[b] = 0 /\ b # gc
                          /\ kvsz[b] > 0 /\ kvsz[b] <= Free(gc)}

(* The block with the least data, the first such. *)
GcPick ==
    /\ op.pc = "gc" /\ gc # NULL /\ Victims # {}
    /\ op' = [pc |-> "move", call |-> "set", key |-> op.key, val |-> op.val,
              old |-> op.old, ver |-> op.ver, newgc |-> op.newgc,
              cur |-> 0,
              victim |-> CHOOSE b \in Victims : \A c \in Victims :
                            kvsz[b] < kvsz[c] \/ (kvsz[b] = kvsz[c] /\ b <= c)]
    /\ UNCHANGED <<flash, ram>>

(* No block is left to collect: kv_set looks again, at most once. *)
GcEnd ==
    /\ op.pc = "gc" /\ gc # NULL /\ Victims = {}
    /\ IF op.newgc = NULL
       THEN /\ op' = [pc |-> "return", call |-> "set", key |-> op.key,
                      val |-> op.val, old |-> op.old, ok |-> FALSE]
            /\ UNCHANGED gc
       ELSE /\ gc' = op.newgc
            /\ op' = IF op.old # NULL THEN Lookup(op.key, op.val, TRUE)
                     ELSE [pc |-> "try", call |-> "set", key |-> op.key,
                           val |-> op.val, old |-> NULL, ver |-> op.ver,
                           start |-> bid, gced |-> TRUE, ok |-> FALSE]
    /\ UNCHANGED <<flash, wo, cnt, roc, kvsz, bid>>

(* gc_bid is -1: kv_gc reads and writes kv->blocks[-1]. *)
GcWild ==
    /\ op.pc = "gc" /\ gc = NULL
    /\ op' = [op EXCEPT !.pc = "wild"]
    /\ UNCHANGED <<flash, ram>>

(* kvblock_iter: the victim's nodes from the cursor on, in order. *)
Ahead == {n \in NodesIn(op.victim) : n.at >= op.cur}
Moved == CHOOSE n \in Ahead : \A m \in Ahead : n.at <= m.at
Copy  == NewNode(gc, Moved.key, Moved.val, NextVer(Moved.ver), Moved.len)

Skip == op' = [op EXCEPT !.cur = End(Moved)]

MoveOk ==
    /\ op.pc = "move" /\ Ahead # {} /\ HasRoom(gc, Moved.len)
    /\ WriteVerified(Copy)
    /\ op' = [op EXCEPT !.pc = "moved"]
    /\ UNCHANGED <<bid, gc>>

(* kvblock_set fails, in one way or the other: the node stays in the victim. *)
MoveFailed ==
    /\ op.pc = "move" /\ Ahead # {}
    /\ IF HasRoom(gc, Moved.len) THEN WriteRejected(Copy)
       ELSE UNCHANGED <<flash, wo, cnt, roc, kvsz>>
    /\ Skip
    /\ UNCHANGED <<bid, gc>>

MoveTorn ==
    /\ op.pc = "move" /\ Ahead # {} /\ HasRoom(gc, Moved.len)
    /\ WriteTorn(Copy)
    /\ NoRam

RmMoved ==
    /\ op.pc = "moved"
    /\ KvnodeRm(Moved)
    /\ op' = [op EXCEPT !.pc = "move", !.cur = End(Moved)]
    /\ UNCHANGED <<bid, gc>>

MoveEnd ==
    /\ op.pc = "move" /\ Ahead = {}
    /\ op' = [pc |-> "gc", call |-> "set", key |-> op.key, val |-> op.val,
              old |-> op.old, ver |-> op.ver,
              newgc |-> IF cnt[op.victim] = 0 THEN op.victim ELSE op.newgc]
    /\ UNCHANGED <<flash, ram>>

-----------------------------------------------------------------------------
(* kv_rm and kv_reset. *)

KvRm(k) ==
    /\ op.pc = "idle"
    /\ op' = [pc |-> IF Found(k) = NULL THEN "return" ELSE "rm",
              call |-> "rm", key |-> k, old |-> Found(k), ok |-> Found(k) # NULL]
    /\ UNCHANGED <<flash, ram>>

RmFound ==
    /\ op.pc = "rm"
    /\ KvnodeRm(op.old)
    /\ Return(TRUE)
    /\ UNCHANGED <<bid, gc>>

KvReset ==
    /\ op.pc = "idle"
    /\ op' = [pc |-> "reset", call |-> "reset", ok |-> TRUE]
    /\ UNCHANGED <<flash, ram>>

ResetNode(n) ==
    /\ op.pc = "reset" /\ Rw(n)
    /\ KvnodeRm(n)
    /\ UNCHANGED <<bid, gc, op>>

ResetEnd ==
    /\ op.pc = "reset" /\ \A n \in nodes : ~Rw(n)
    /\ Return(TRUE)
    /\ UNCHANGED <<flash, ram>>

KvReturn ==
    /\ op.pc = "return"
    /\ op' = Resting("idle")
    /\ UNCHANGED <<flash, ram>>

-----------------------------------------------------------------------------
Call == \/ \E k \in Key, v \in Val : KvSet(k, v)
        \/ \E k \in Key : KvRm(k)
        \/ KvReset

SetStep == TryOk \/ TryRejected \/ TrySkip \/ RmOld

GcStep == \/ GcPick \/ GcEnd \/ GcWild
          \/ MoveOk \/ MoveFailed \/ RmMoved \/ MoveEnd

OtherStep == \/ KvInit \/ KvVerified
             \/ \E m, n \in nodes : KvVerify(m, n)
             \/ RmFound \/ ResetEnd \/ KvReturn
             \/ \E n \in nodes : ResetNode(n)

PowerFails == PowerLoss \/ TryTorn \/ MoveTorn

Work == SetStep \/ GcStep \/ OtherStep

Next == Call \/ Work \/ PowerFails

Spec == Init /\ [][Next]_vars

(* The task inside kv_set, kv_rm or kv_reset holds kv_lock and keeps        *)
(* running; nothing is assumed of callers or of the power supply.           *)
FairSpec == Spec /\ WF_vars(Work)
=============================================================================
