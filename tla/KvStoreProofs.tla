--------------------------- MODULE KvStoreProofs ---------------------------
(***************************************************************************)
(* Proofs about the key-value store, for every number of blocks, every     *)
(* block size, every set of keys and values and every factory image.       *)
(***************************************************************************)
EXTENDS KvProperties, FiniteSetTheorems, TLAPS

(* A nonempty set of naturals has a least element. *)
LEMMA Least ==
    ASSUME NEW S \in SUBSET Nat, S # {}
    PROVE  \E x \in S : \A y \in S : x <= y
<1> DEFINE Less == {p \in Nat \X Nat : p[1] < p[2]}
<1>1. IsWellFoundedOn(Less, Nat)
  BY NatLessThanWellFounded DEF OpToRel
<1> HIDE DEF Less
<1>2. \E x \in S : \A y \in S : <<y, x>> \notin Less
  BY <1>1, WFMin
<1>3. \A x, y \in Nat : <<y, x>> \notin Less => x <= y
  BY DEF Less
<1> QED
  BY <1>2, <1>3

(* A nonempty set of naturals with a bound has a greatest element. *)
LEMMA Greatest ==
    ASSUME NEW N \in Nat, NEW S \in SUBSET (0..N), S # {}
    PROVE  \E x \in S : \A y \in S : y <= x
<1> DEFINE T == {N - s : s \in S}
<1>1. T \in SUBSET Nat
  OBVIOUS
<1>2. T # {}
  <2>1. PICK s \in S : TRUE
    OBVIOUS
  <2>2. N - s \in T
    BY <2>1
  <2> QED
    BY <2>2
<1>3. PICK t \in T : \A u \in T : t <= u
  <2> HIDE DEF T
  <2> QED
    BY <1>1, <1>2, Least
<1>4. PICK x \in S : t = N - x
  BY <1>3
<1>5. ASSUME NEW y \in S PROVE y <= x
  <2>1. N - y \in T
    OBVIOUS
  <2>2. N - x <= N - y
    BY <1>3, <1>4, <2>1
  <2>3. x \in Int /\ y \in Int
    OBVIOUS
  <2> QED
    BY <2>2, <2>3
<1> QED
  BY <1>5

-----------------------------------------------------------------------------
(* What the lengths and numbers are. *)
LEMMA Numbers ==
    /\ NBlock \in Nat \ {0} /\ Words \in Nat \ {0} /\ Words < SizeRange
    /\ SizeRange = 16384 /\ MaxVer \in Nat /\ MaxVer >= 3
    /\ 0 \in Block /\ Block \subseteq Nat
    /\ NULL \notin Val \cup {GARBAGE} \cup Node \cup Block
    /\ Size \in [Val -> 2..Words]
<1>1. NBlock \in Nat \ {0} /\ Words \in 1..(SizeRange-1)
  BY KvAssumption DEF KvAssumption
<1>2. /\ MaxVer \in Nat /\ MaxVer >= 3 /\ Size \in [Val -> 2..Words]
      /\ NULL \notin Val \cup {GARBAGE} \cup Node \cup Block
  BY KvAssumption DEF KvAssumption
<1>3. SizeRange = 16384
  BY DEF SizeRange
<1>4. Words \in Nat \ {0} /\ Words < SizeRange
  BY <1>1, <1>3
<1>5. 0 \in Block /\ Block \subseteq Nat
  BY <1>1 DEF Block
<1> QED
  BY <1>1, <1>2, <1>3, <1>4, <1>5

LEMMA NodeFields ==
    ASSUME NEW n \in Node
    PROVE  /\ n.blk \in Block /\ n.at \in 0..(Words-1) /\ n.key \in Key
           /\ n.val \in Val \cup {GARBAGE} /\ n.ver \in 0..MaxVer
           /\ n.len \in 1..Words /\ End(n) \in Nat /\ End(n) = n.at + n.len
  BY Numbers DEF Node, End

LEMMA FlashFields ==
    ASSUME FlashType, NEW b \in Block
    PROVE  /\ wo[b] \in 0..Words /\ wo[b] \in Nat
           /\ tail[b] \in 0..Words /\ tail[b] \in Nat
           /\ used[b] \in 0..Words /\ used[b] \in Nat
           /\ cnt[b] \in Nat /\ roc[b] \in Nat /\ kvsz[b] \in Int
<1>1. \A f, S : f \in [Block -> S] => f[b] \in S
  OBVIOUS
<1>2. wo[b] \in 0..Words /\ tail[b] \in 0..Words /\ used[b] \in 0..Words
  BY <1>1 DEF FlashType
<1>3. cnt[b] \in Nat /\ roc[b] \in Nat /\ kvsz[b] \in 0..(SizeRange-1)
  BY <1>1 DEF FlashType
<1>4. 0..(SizeRange-1) \subseteq Int /\ 0..Words \subseteq Nat
  OBVIOUS
<1> QED
  BY <1>2, <1>3, <1>4

LEMMA NextVerType == \A v \in 0..MaxVer : NextVer(v) \in Ver
  BY Numbers DEF NextVer, Ver

LEMMA NewNodeType ==
    ASSUME FlashType,
           NEW b \in Block, NEW k \in Key, NEW v \in Val \cup {GARBAGE},
           NEW ver \in Ver, NEW len \in 1..Words, HasRoom(b, len)
    PROVE  LET n == NewNode(b, k, v, ver, len)
           IN  /\ n \in Node /\ n.blk = b /\ n.at = wo[b] /\ n.len = len
               /\ n.ver = ver
               /\ End(n) = wo[b] + len /\ End(n) <= Words
<1> DEFINE n == NewNode(b, k, v, ver, len)
<1>1. n = [blk |-> b, at |-> wo[b], key |-> k, val |-> v, ver |-> ver, len |-> len]
  BY DEF NewNode
<1>2. wo[b] \in Nat /\ len \in Nat \ {0} /\ Words \in Nat
  BY FlashFields, Numbers
<1>3. wo[b] + len <= Words
  BY <1>2 DEF HasRoom
<1>4. wo[b] \in 0..(Words-1)
  BY <1>2, <1>3
<1>5. ver \in 0..MaxVer
  BY Numbers DEF Ver
<1>6. n \in Node
  BY <1>1, <1>4, <1>5 DEF Node
<1> QED
  BY <1>1, <1>3, <1>6 DEF End
-----------------------------------------------------------------------------
(* The flash operations keep the types. *)
FlashOK == FlashType /\ IsFiniteSet(nodes)

LEMMA EraseBlockType ==
    ASSUME FlashOK, NEW b \in Block, EraseBlock(b)
    PROVE  FlashOK'
<1>1. IsFiniteSet(nodes')
  BY FS_Subset DEF EraseBlock, FlashOK
<1>2. 0 \in 0..Words /\ 0 \in Nat /\ 0 \in 0..(SizeRange-1)
  BY Numbers
<1>3. nodes' \subseteq nodes /\ torn' \subseteq torn
  BY DEF EraseBlock
<1>4. tail' \in [Block -> 0..Words] /\ used' \in [Block -> 0..Words] /\ wo' \in [Block -> 0..Words]
  BY <1>2 DEF EraseBlock, FlashOK, FlashType
<1>5. cnt' \in [Block -> Nat] /\ roc' \in [Block -> Nat] /\ kvsz' \in [Block -> 0..(SizeRange-1)]
  BY <1>2 DEF EraseBlock, FlashOK, FlashType
<1> QED
  BY <1>1, <1>3, <1>4, <1>5 DEF FlashOK, FlashType

(* kv_size stays a 16-bit number. *)
LEMMA SizeType == \A x \in Int : x % SizeRange \in 0..(SizeRange-1)
  BY DEF SizeRange

LEMMA MarkErasedType ==
    ASSUME FlashOK, NEW n \in Node, cnt[n.blk] - roc[n.blk] > 1, MarkErased(n)
    PROVE  FlashOK'
<1>1. IsFiniteSet(nodes')
  BY FS_RemoveElement DEF MarkErased, FlashOK
<1>2. cnt[n.blk] - 1 \in Nat
  BY NodeFields DEF FlashOK, FlashType
<1>3. (kvsz[n.blk] - n.len) % SizeRange \in 0..(SizeRange-1)
  <2>1. kvsz[n.blk] \in Int /\ n.len \in Int
    BY NodeFields, Numbers, FlashFields DEF FlashOK
  <2> QED
    BY <2>1, SizeType
<1>4. cnt' \in [Block -> Nat] /\ kvsz' \in [Block -> 0..(SizeRange-1)]
  BY <1>2, <1>3 DEF MarkErased, FlashOK, FlashType
<1> QED
  BY <1>1, <1>4 DEF MarkErased, FlashOK, FlashType

LEMMA KvnodeRmType ==
    ASSUME FlashOK, NEW n \in Node, KvnodeRm(n)
    PROVE  FlashOK'
<1>1. CASE UNCHANGED <<flash, wo, cnt, roc, kvsz>>
  BY <1>1 DEF FlashOK, FlashType, flash
<1>2. CASE cnt[n.blk] - roc[n.blk] > 1 /\ MarkErased(n)
  BY <1>2, MarkErasedType
<1>3. CASE EraseBlock(n.blk)
  BY <1>3, EraseBlockType, NodeFields
<1> QED
  BY <1>1, <1>2, <1>3 DEF KvnodeRm

LEMMA LargerType ==
    \A a, b \in 0..Words : Larger(a, b) \in 0..Words /\ Larger(a, b) >= a /\ Larger(a, b) >= b
  BY Numbers DEF Larger

LEMMA VisibleType ==
    ASSUME FlashOK, NEW n \in Node, End(n) <= Words
    PROVE  /\ Visible(n) \subseteq Node /\ IsFiniteSet(Visible(n))
           /\ \A m \in Visible(n) : End(m) <= Words
           /\ \A m \in nodes : m.blk # n.blk => m \in Visible(n)
<1>1. CASE Completed(n) = {}
  BY <1>1, FS_AddElement DEF Visible, FlashOK, FlashType
<1>2. CASE Completed(n) # {}
  <2> DEFINE g == CHOOSE g \in Completed(n) : \A h \in Completed(n) : g.at <= h.at
             S == {h.at : h \in Completed(n)}
             Kept == {m \in nodes : m.blk # n.blk \/ m.at < g.at}
  <2>1. Completed(n) \subseteq torn
    BY DEF Completed
  <2>2. S \in SUBSET Nat /\ S # {}
    BY <1>2, <2>1, NodeFields DEF FlashOK, FlashType
  <2>3. \E h \in Completed(n) : \A j \in Completed(n) : h.at <= j.at
    <3> HIDE DEF S
    <3>1. PICK x \in S : \A y \in S : x <= y
      BY <2>2, Least
    <3> QED
      BY <3>1 DEF S
  <2>4. g \in Completed(n)
    BY <2>3
  <2>5. Visible(n) = Kept \cup {g}
    BY <1>2 DEF Visible
  <2>6. IsFiniteSet(Kept)
    BY FS_Subset DEF FlashOK
  <2> HIDE DEF g
  <2>7. IsFiniteSet(Kept \cup {g})
    BY <2>6, FS_AddElement
  <2> QED
    BY <2>1, <2>4, <2>5, <2>7 DEF FlashOK, FlashType
<1> QED
  BY <1>1, <1>2

LEMMA WriteVerifiedType ==
    ASSUME FlashOK, NEW n \in Node, n.at = wo[n.blk], HasRoom(n.blk, n.len),
           WriteVerified(n)
    PROVE  FlashOK'
<1>1. End(n) \in 0..Words /\ n.blk \in Block /\ n.len \in 1..Words
  BY NodeFields DEF HasRoom
<1>2. nodes' \subseteq Node /\ IsFiniteSet(nodes') /\ \A m \in nodes' : End(m) <= Words
  BY <1>1, VisibleType DEF WriteVerified
<1>3. torn' \subseteq torn
  BY DEF WriteVerified
<1>4. used' \in [Block -> 0..Words] /\ tail' \in [Block -> 0..Words]
  BY <1>1, LargerType DEF WriteVerified, FlashOK, FlashType
<1>5. wo' \in [Block -> 0..Words] /\ cnt' \in [Block -> Nat] /\ roc' \in [Block -> Nat]
  <2>1. wo[n.blk] \in Nat /\ cnt[n.blk] \in Nat
    BY <1>1, FlashFields DEF FlashOK
  <2>2. wo[n.blk] + n.len \in 0..Words /\ cnt[n.blk] + 1 \in Nat
    BY <1>1, <2>1, Numbers DEF HasRoom
  <2> QED
    BY <2>2 DEF WriteVerified, FlashOK, FlashType
<1>6. (kvsz[n.blk] + n.len) % SizeRange \in 0..(SizeRange-1)
  <2>1. kvsz[n.blk] \in Int
    BY <1>1, FlashFields DEF FlashOK
  <2> QED
    BY <1>1, <2>1, SizeType
<1>7. kvsz' \in [Block -> 0..(SizeRange-1)]
  BY <1>6 DEF WriteVerified, FlashOK, FlashType
<1> QED
  BY <1>2, <1>3, <1>4, <1>5, <1>7 DEF FlashOK, FlashType

LEMMA WriteRejectedType ==
    ASSUME FlashOK, NEW n \in Node, n.at = wo[n.blk], HasRoom(n.blk, n.len),
           WriteRejected(n)
    PROVE  FlashOK'
<1>1. End(n) \in 0..Words /\ n.blk \in Block /\ n.len \in 1..Words
  BY NodeFields DEF HasRoom
<1>2. torn' \subseteq torn /\ nodes' = nodes
  BY DEF WriteRejected
<1>3. used' \in [Block -> 0..Words] /\ tail' \in [Block -> 0..Words]
  BY <1>1, LargerType DEF WriteRejected, FlashOK, FlashType
<1>4. wo' \in [Block -> 0..Words]
  <2>1. wo[n.blk] \in Nat
    BY <1>1, FlashFields DEF FlashOK
  <2>2. wo[n.blk] + n.len \in 0..Words
    BY <1>1, <2>1, Numbers DEF HasRoom
  <2> QED
    BY <2>2 DEF WriteRejected, FlashOK, FlashType
<1> QED
  BY <1>2, <1>3, <1>4 DEF FlashOK, FlashType, WriteRejected

LEMMA NoRamType ==
    ASSUME NoRam
    PROVE  /\ wo' \in [Block -> 0..Words] /\ cnt' \in [Block -> Nat]
           /\ roc' \in [Block -> Nat] /\ kvsz' \in [Block -> 0..(SizeRange-1)]
           /\ bid' \in Block /\ gc' \in Block \cup {NULL}
           /\ op' = Resting("off") /\ op' \in RestOp
  BY Numbers DEF NoRam, Resting, RestOp

LEMMA WriteTornType ==
    ASSUME FlashOK, NEW n \in Node, n.at = wo[n.blk], HasRoom(n.blk, n.len),
           WriteTorn(n), NoRam
    PROVE  FlashOK'
<1>1. End(n) \in 0..Words /\ n.blk \in Block /\ n.len \in 1..Words
      /\ n.at \in 0..(Words-1) /\ End(n) = n.at + n.len
  BY NodeFields DEF HasRoom
<1>2. PICK j \in 1..(n.len-1) :
         /\ used' = [used EXCEPT ![n.blk] = Larger(@, n.at + j)]
         /\ torn' = torn \/ torn' = torn \cup {[n EXCEPT !.val = GARBAGE]}
  BY DEF WriteTorn
<1>3. n.at + j \in 0..Words
  BY <1>1, Numbers
<1>4. used' \in [Block -> 0..Words]
  BY <1>1, <1>2, <1>3, LargerType DEF FlashOK, FlashType
<1>5. [n EXCEPT !.val = GARBAGE] \in Node /\ End([n EXCEPT !.val = GARBAGE]) = End(n)
  BY DEF Node, End
<1> QED
  BY <1>1, <1>2, <1>4, <1>5, NoRamType DEF FlashOK, FlashType, WriteTorn
-----------------------------------------------------------------------------
(* The invariant that carries the types: kv_set removes the node it found, *)
(* and the garbage collection never moves a block into itself, so the node *)
(* it has copied is still where it was.                                    *)
TypeInv ==
    /\ FlashOK
    /\ bid \in Block /\ gc \in Block \cup {NULL}
    /\ op \in OpType
    /\ op.pc \in {"rmold", "rm"} => op.old \in Node
    /\ op.pc \in {"move", "moved"} => gc \in Block /\ op.victim # gc
    /\ op.pc = "moved" => Ahead # {}

LEMMA OpAt ==
    ASSUME op \in OpType
    PROVE  /\ op.pc \in {"off", "verify", "idle"} => op \in RestOp
           /\ op.pc \in {"try", "rmold"} => op \in TryOp
           /\ op.pc \in {"gc", "wild"} => op \in GcOp
           /\ op.pc \in {"move", "moved"} => op \in MoveOp
           /\ op.pc = "rm" => op \in RmOp
           /\ op.pc = "reset" => op \in ResetOp
  BY DEF OpType, RestOp, TryOp, GcOp, MoveOp, FullOp, RmOp, ResetOp

LEMMA FoundType ==
    ASSUME FlashOK, NEW k
    PROVE  /\ Found(k) \in MaybeNode
           /\ Found(k) # NULL => Found(k) \in nodes /\ Found(k) \in Node /\ Found(k).key = k
  BY DEF Found, FlashOK, FlashType, Copies, MaybeNode

LEMMA LookupType ==
    ASSUME FlashOK, bid \in Block, NEW k \in Key, NEW v \in Val, NEW g \in BOOLEAN
    PROVE  Lookup(k, v, g) \in TryOp /\ Lookup(k, v, g).pc \in {"try", "return"}
<1> DEFINE n == Found(k)
<1>1. n \in MaybeNode /\ (n # NULL => n \in Node)
  BY FoundType
<1>2. (IF n = NULL THEN 1 ELSE NextVer(n.ver)) \in Ver
  BY <1>1, NextVerType, NodeFields, Numbers DEF Ver
<1> HIDE DEF n
<1>3. Lookup(k, v, g) =
        [pc |-> IF n # NULL /\ n.val = v THEN "return" ELSE "try",
         call |-> "set", key |-> k, val |-> v, old |-> n,
         ver |-> IF n = NULL THEN 1 ELSE NextVer(n.ver),
         start |-> bid, gced |-> g, ok |-> n # NULL /\ n.val = v]
  BY DEF Lookup, n
<1> QED
  BY <1>1, <1>2, <1>3 DEF TryOp

LEMMA TargetType ==
    ASSUME TypeInv, op.pc = "try", Fits
    PROVE  /\ Target \in Node /\ Target.blk = bid /\ Target.at = wo[bid]
           /\ HasRoom(Target.blk, Target.len)
<1>1. op.key \in Key /\ op.val \in Val /\ op.ver \in Ver
  BY OpAt DEF TypeInv, TryOp
<1>2. Size[op.val] \in 1..Words
  BY <1>1, Numbers
<1> QED
  BY <1>1, <1>2, NewNodeType DEF Target, Fits, TypeInv, FlashOK

LEMMA MovedType ==
    ASSUME TypeInv, op.pc \in {"move", "moved"}, Ahead # {}
    PROVE  /\ Moved \in Ahead /\ Moved \in nodes /\ Moved \in Node
           /\ Moved.blk = op.victim /\ End(Moved) \in 0..Words
<1> DEFINE S == {n.at : n \in Ahead}
<1>1. Ahead \subseteq nodes /\ Ahead \subseteq Node
  BY DEF Ahead, NodesIn, TypeInv, FlashOK, FlashType
<1>2. S \in SUBSET Nat /\ S # {}
  BY <1>1, NodeFields
<1>3. \E n \in Ahead : \A m \in Ahead : n.at <= m.at
  <2> HIDE DEF S
  <2>1. PICK x \in S : \A y \in S : x <= y
    BY <1>2, Least
  <2> QED
    BY <2>1 DEF S
<1>4. Moved \in Ahead
  BY <1>3 DEF Moved
<1>5. Moved.blk = op.victim
  BY <1>4 DEF Ahead, NodesIn
<1>6. End(Moved) \in 0..Words
  BY <1>1, <1>4, NodeFields DEF TypeInv, FlashOK, FlashType
<1> QED
  BY <1>1, <1>4, <1>5, <1>6

LEMMA CopyType ==
    ASSUME TypeInv, op.pc = "move", Ahead # {}, HasRoom(gc, Moved.len)
    PROVE  /\ Copy \in Node /\ Copy.blk = gc /\ Copy.at = wo[gc]
           /\ HasRoom(Copy.blk, Copy.len)
<1>1. Moved \in Node
  BY MovedType
<1>2. Moved.key \in Key /\ Moved.val \in Val \cup {GARBAGE} /\ Moved.len \in 1..Words
      /\ NextVer(Moved.ver) \in Ver
  BY <1>1, NodeFields, NextVerType
<1>3. gc \in Block /\ FlashType
  BY DEF TypeInv, FlashOK
<1>4. Copy = NewNode(gc, Moved.key, Moved.val, NextVer(Moved.ver), Moved.len)
  BY DEF Copy
<1>5. /\ Copy \in Node /\ Copy.blk = gc /\ Copy.at = wo[gc] /\ Copy.len = Moved.len
  <2> DEFINE k == Moved.key  v == Moved.val  w == NextVer(Moved.ver)  l == Moved.len
  <2>1. k \in Key /\ v \in Val \cup {GARBAGE} /\ w \in Ver /\ l \in 1..Words
        /\ HasRoom(gc, l) /\ Copy = NewNode(gc, k, v, w, l)
    BY <1>2, <1>4
  <2> HIDE DEF k, v, w, l
  <2>2. LET n == NewNode(gc, k, v, w, l)
        IN  n \in Node /\ n.blk = gc /\ n.at = wo[gc] /\ n.len = l
    BY <1>3, <2>1, NewNodeType
  <2> QED
    BY <2>1, <2>2 DEF l
<1> QED
  BY <1>5

-----------------------------------------------------------------------------
LEMMA InitType == Init => TypeInv
<1> SUFFICES ASSUME Init PROVE TypeInv
  OBVIOUS
<1>1. nodes \subseteq Node /\ IsFiniteSet(nodes) /\ \A n \in nodes : End(n) <= Words
  BY KvAssumption DEF KvAssumption, Init, End
<1>2. ASSUME NEW b \in Block PROVE tail[b] \in 0..Words
  <2> DEFINE S == {End(n) : n \in NodesIn(b)}
  <2>1. tail[b] = IF NodesIn(b) = {} THEN 0
                  ELSE CHOOSE e \in S : \A n \in NodesIn(b) : End(n) <= e
    BY DEF Init
  <2>2. CASE NodesIn(b) = {}
    BY <2>1, <2>2, Numbers
  <2>3. CASE NodesIn(b) # {}
    <3>1. S \in SUBSET (0..Words) /\ S # {}
      BY <1>1, <2>3, NodeFields DEF NodesIn
    <3>2. \E e \in S : \A n \in NodesIn(b) : End(n) <= e
      <4>1. \A n \in NodesIn(b) : End(n) \in S
        OBVIOUS
      <4> HIDE DEF S
      <4>2. Words \in Nat
        BY Numbers
      <4>3. \E e \in S : \A y \in S : y <= e
        BY <3>1, <4>2, Greatest
      <4> QED
        BY <4>1, <4>3
    <3>3. tail[b] \in S
      BY <2>1, <2>3, <3>2
    <3> QED
      BY <3>1, <3>3
  <2> QED
    BY <2>2, <2>3
<1>3. tail \in [Block -> 0..Words] /\ used \in [Block -> 0..Words]
  <2>1. tail = [b \in Block |-> tail[b]] /\ used = tail
    BY DEF Init
  <2> QED
    BY <1>2, <2>1
<1>4. /\ wo \in [Block -> 0..Words] /\ cnt \in [Block -> Nat]
      /\ roc \in [Block -> Nat] /\ kvsz \in [Block -> 0..(SizeRange-1)]
  BY Numbers DEF Init
<1>5. bid \in Block /\ gc = NULL /\ op \in RestOp /\ op.pc = "off" /\ torn = {}
  BY Numbers DEF Init, Resting, RestOp
<1> QED
  BY <1>1, <1>3, <1>4, <1>5 DEF TypeInv, FlashOK, FlashType, OpType
-----------------------------------------------------------------------------
(* Each action keeps the types. *)
LEMMA Settle ==
    ASSUME FlashOK', bid' \in Block, gc' \in Block \cup {NULL}, op' \in OpType,
           op'.pc \notin {"rmold", "rm", "move", "moved"}
    PROVE  TypeInv'
  BY DEF TypeInv

LEMMA SameFlash == ASSUME FlashOK, UNCHANGED <<flash, wo, cnt, roc, kvsz>> PROVE FlashOK'
  BY DEF FlashOK, FlashType, flash

LEMMA ReturnType ==
    ASSUME op \in OpType, op.pc \in {"try", "rmold", "rm", "reset"},
           NEW ok \in BOOLEAN, Return(ok)
    PROVE  op' \in OpType /\ op'.pc = "return"
<1>1. CASE op.pc \in {"try", "rmold"}
  BY <1>1, OpAt DEF Return, OpType, TryOp
<1>2. CASE op.pc = "rm"
  BY <1>2, OpAt DEF Return, OpType, RmOp
<1>3. CASE op.pc = "reset"
  BY <1>3, OpAt DEF Return, OpType, ResetOp
<1> QED
  BY <1>1, <1>2, <1>3

LEMMA KvInitType == ASSUME TypeInv, KvInit PROVE TypeInv'
<1> DEFINE empty == {b \in Block : NodesIn(b) = {}}
           offset == [b \in Block |-> IF b \in empty THEN 0 ELSE WriteOffset(b)]
           free == [b \in Block |-> Words - offset[b]]
           candidates == {b \in Block : GcCandidate(free, b)}
           others == {b \in Block \ candidates : b # 0}
<1>1. FlashOK /\ IsFiniteSet(nodes)
  BY DEF TypeInv, FlashOK
<1>2. tail' \in [Block -> 0..Words] /\ used' \in [Block -> 0..Words]
  <2>1. /\ tail' = [b \in Block |-> IF b \in empty THEN 0 ELSE tail[b]]
        /\ used' = [b \in Block |-> IF b \in empty THEN 0 ELSE used[b]]
    BY DEF KvInit
  <2>2. \A b \in Block : tail[b] \in 0..Words /\ used[b] \in 0..Words
    BY <1>1, FlashFields DEF FlashOK
  <2>3. 0 \in 0..Words
    BY Numbers
  <2> HIDE DEF empty
  <2> QED
    BY <2>1, <2>2, <2>3
<1>3. wo' \in [Block -> 0..Words]
  <2>1. Scan \in 0..Words
    BY KvAssumption DEF KvAssumption
  <2>2. \A b \in Block : WriteOffset(b) \in 0..Words
    BY <1>1, <2>1, FlashFields, LargerType DEF WriteOffset, FlashOK
  <2>3. 0 \in 0..Words
    BY Numbers
  <2>4. offset \in [Block -> 0..Words]
    BY <2>2, <2>3
  <2>5. wo' = offset
    BY DEF KvInit
  <2> QED
    BY <2>4, <2>5
<1>4. cnt' \in [Block -> Nat] /\ roc' \in [Block -> Nat]
  <2>1. ASSUME NEW b \in Block
        PROVE  /\ Cardinality(NodesIn(b)) \in Nat
               /\ Cardinality({n \in NodesIn(b) : ~Rw(n)}) \in Nat
    <3>1. IsFiniteSet(NodesIn(b)) /\ IsFiniteSet({n \in NodesIn(b) : ~Rw(n)})
      BY <1>1, FS_Subset DEF NodesIn
    <3> QED
      BY <3>1, FS_CardinalityType
  <2> QED
    BY <2>1 DEF KvInit
<1>5. kvsz' \in [Block -> 0..(SizeRange-1)]
  <2>1. \A c \in Nat : c <= Words => c \in 0..(SizeRange-1)
    <3>1. Words \in Nat /\ Words < SizeRange /\ SizeRange \in Nat
      BY Numbers
    <3> QED
      BY <3>1
  <2>2. ASSUME NEW b \in Block PROVE Cardinality(LiveWords(b)) \in 0..(SizeRange-1)
    <3>1. IsFiniteSet(0..(Words-1)) /\ Cardinality(0..(Words-1)) = Words
      BY FS_Interval, Numbers
    <3>2. LiveWords(b) \in SUBSET (0..(Words-1))
      BY DEF LiveWords
    <3>3. /\ IsFiniteSet(LiveWords(b))
          /\ Cardinality(LiveWords(b)) <= Cardinality(0..(Words-1))
      BY <3>1, <3>2, FS_Subset
    <3>4. Cardinality(LiveWords(b)) \in Nat
      BY <3>3, FS_CardinalityType
    <3> QED
      BY <2>1, <3>1, <3>3, <3>4
  <2> QED
    BY <2>2 DEF KvInit
<1>6. nodes' = nodes /\ torn' \subseteq torn /\ op' = Resting("verify")
  BY DEF KvInit
<1>7. FlashOK'
  BY <1>1, <1>2, <1>3, <1>4, <1>5, <1>6 DEF FlashOK, FlashType
<1>8. gc' \in Block \cup {NULL}
  <2>1. gc' = IF candidates = {} THEN NULL
              ELSE CHOOSE b \in candidates : \A c \in candidates : c <= b
    BY DEF KvInit
  <2>2. candidates \in SUBSET (0..(NBlock-1)) /\ NBlock - 1 \in Nat
    BY Numbers DEF Block
  <2> HIDE DEF candidates
  <2>3. candidates # {} => \E b \in candidates : \A c \in candidates : c <= b
    BY <2>2, Greatest
  <2>4. candidates \subseteq Block
    BY <2>2 DEF Block
  <2> QED
    BY <2>1, <2>3, <2>4
<1>9. bid' \in Block
  <2>1. bid' = IF others = {} THEN 0
               ELSE CHOOSE b \in others : \A c \in others : b <= c
    BY DEF KvInit
  <2>2. others \subseteq Block
    OBVIOUS
  <2> HIDE DEF others
  <2>3. others # {} => \E b \in others : \A c \in others : b <= c
    BY <2>2, Least, Numbers
  <2>4. 0 \in Block
    BY Numbers
  <2> QED
    BY <2>1, <2>2, <2>3, <2>4
<1>10. op' \in OpType /\ op'.pc = "verify"
  BY <1>6 DEF Resting, OpType, RestOp
<1> QED
  BY <1>7, <1>8, <1>9, <1>10, Settle

LEMMA KvVerifyType ==
    ASSUME TypeInv, NEW m \in nodes, NEW n \in nodes, KvVerify(m, n)
    PROVE  TypeInv'
<1>1. m \in Node
  BY DEF TypeInv, FlashOK, FlashType
<1> QED
  BY <1>1, KvnodeRmType, Settle DEF KvVerify, TypeInv

LEMMA RestType ==
    ASSUME TypeInv, KvVerified \/ KvReturn
    PROVE  TypeInv'
<1>1. op' \in OpType /\ op'.pc = "idle"
  BY DEF KvVerified, KvReturn, Resting, OpType, RestOp
<1>2. FlashOK' /\ bid' = bid /\ gc' = gc
  BY SameFlash DEF KvVerified, KvReturn, ram, TypeInv
<1> QED
  BY <1>1, <1>2, Settle DEF TypeInv

LEMMA PowerLossType == ASSUME TypeInv, PowerLoss PROVE TypeInv'
<1>1. FlashOK'
  BY NoRamType DEF PowerLoss, TypeInv, FlashOK, FlashType, flash
<1> QED
  BY <1>1, NoRamType, Settle DEF PowerLoss, OpType, Resting

LEMMA CallType ==
    ASSUME TypeInv, Call
    PROVE  TypeInv'
<1>1. FlashOK' /\ bid' = bid /\ gc' = gc
  BY SameFlash DEF Call, KvSet, KvRm, KvReset, ram, TypeInv
<1>2. ASSUME NEW k \in Key, NEW v \in Val, KvSet(k, v) PROVE TypeInv'
  <2>1. op' \in TryOp /\ op'.pc \in {"try", "return"}
    BY <1>2, LookupType DEF KvSet, TypeInv
  <2> QED
    BY <1>1, <2>1, Settle DEF OpType, TypeInv
<1>3. ASSUME NEW k \in Key, KvRm(k) PROVE TypeInv'
  <2>1. /\ op' \in RmOp /\ op'.pc \in {"rm", "return"}
        /\ op'.pc = "rm" => op'.old \in Node
    BY <1>3, FoundType DEF KvRm, RmOp, TypeInv
  <2> QED
    BY <1>1, <2>1 DEF OpType, TypeInv
<1>4. ASSUME KvReset PROVE TypeInv'
  <2>1. op' \in ResetOp /\ op'.pc = "reset"
    BY <1>4 DEF KvReset, ResetOp
  <2> QED
    BY <1>1, <2>1, Settle DEF OpType, TypeInv
<1> QED
  BY <1>2, <1>3, <1>4 DEF Call
LEMMA NextBlockType ==
    ASSUME TypeInv, op.pc = "try", NextBlock
    PROVE  /\ bid' \in Block /\ gc' = gc /\ op' \in OpType
           /\ op'.pc \in {"try", "return", "gc"}
<1>1. op \in TryOp
  BY OpAt DEF TypeInv
<1>2. bid' \in Block
  BY Numbers DEF NextBlock, TypeInv, Block
<1>3. CASE UNCHANGED op
  BY <1>1, <1>2, <1>3 DEF NextBlock, OpType
<1>4. CASE Return(FALSE)
  BY <1>2, <1>4, ReturnType DEF NextBlock, TypeInv
<1>5. CASE op' = [pc |-> "gc", call |-> "set", key |-> op.key, val |-> op.val,
                  old |-> op.old, ver |-> op.ver, newgc |-> NULL]
  BY <1>1, <1>2, <1>5 DEF NextBlock, OpType, TryOp, GcOp
<1> QED
  BY <1>3, <1>4, <1>5 DEF NextBlock

LEMMA SetStepType == ASSUME TypeInv, SetStep PROVE TypeInv'
<1>1. FlashOK /\ bid \in Block /\ gc \in Block \cup {NULL} /\ op \in OpType
  BY DEF TypeInv
<1>2. ASSUME TryOk PROVE TypeInv'
  <2>1. FlashOK' /\ bid' = bid /\ gc' = gc
    BY <1>1, <1>2, TargetType, WriteVerifiedType DEF TryOk
  <2>2. op \in TryOp
    BY <1>1, <1>2, OpAt DEF TryOk
  <2>3. CASE op.old = NULL
    <3>1. op' \in OpType /\ op'.pc = "return"
      BY <1>1, <1>2, <2>3, ReturnType DEF TryOk
    <3> QED
      BY <1>1, <2>1, <3>1, Settle
  <2>4. CASE op.old # NULL
    <3>1. op' = [op EXCEPT !.pc = "rmold"]
      BY <1>2, <2>4 DEF TryOk
    <3>2. op' \in TryOp /\ op'.pc = "rmold" /\ op'.old \in Node
      BY <2>2, <2>4, <3>1 DEF TryOp, MaybeNode
    <3> QED
      BY <1>1, <2>1, <3>2 DEF TypeInv, OpType
  <2> QED
    BY <2>3, <2>4
<1>3. ASSUME TryRejected PROVE TypeInv'
  <2>1. FlashOK'
    BY <1>1, <1>3, TargetType, WriteRejectedType DEF TryRejected
  <2> QED
    BY <1>1, <1>3, <2>1, NextBlockType, Settle DEF TryRejected
<1>4. ASSUME TrySkip PROVE TypeInv'
  <2>1. FlashOK'
    BY <1>1, <1>4, SameFlash DEF TrySkip
  <2> QED
    BY <1>1, <1>4, <2>1, NextBlockType, Settle DEF TrySkip
<1>5. ASSUME RmOld PROVE TypeInv'
  <2>1. FlashOK'
    BY <1>1, <1>5, KvnodeRmType DEF RmOld, TypeInv
  <2>2. op' \in OpType /\ op'.pc = "return"
    BY <1>1, <1>5, ReturnType DEF RmOld
  <2> QED
    BY <1>1, <1>5, <2>1, <2>2, Settle DEF RmOld
<1> QED
  BY <1>2, <1>3, <1>4, <1>5 DEF SetStep

LEMMA PowerFailsType == ASSUME TypeInv, PowerFails PROVE TypeInv'
<1>1. ASSUME TryTorn PROVE TypeInv'
  <2>1. FlashOK'
    BY <1>1, TargetType, WriteTornType DEF TryTorn, TypeInv
  <2> QED
    BY <1>1, <2>1, NoRamType, Settle DEF TryTorn, OpType, Resting
<1>2. ASSUME MoveTorn PROVE TypeInv'
  <2>1. FlashOK'
    BY <1>2, CopyType, WriteTornType DEF MoveTorn, TypeInv
  <2> QED
    BY <1>2, <2>1, NoRamType, Settle DEF MoveTorn, OpType, Resting
<1> QED
  BY <1>1, <1>2, PowerLossType DEF PowerFails

(* The victim is the block with the least data, and the first of these. *)
LEMMA VictimType ==
    ASSUME TypeInv, Victims # {}
    PROVE  (CHOOSE b \in Victims : \A c \in Victims :
               kvsz[b] < kvsz[c] \/ (kvsz[b] = kvsz[c] /\ b <= c)) \in Victims
<1> DEFINE Smallest(v) == \A c \in Victims :
               kvsz[v] < kvsz[c] \/ (kvsz[v] = kvsz[c] /\ v <= c)
           Sizes == {kvsz[b] : b \in Victims}
<1>1. Victims \subseteq Block /\ Victims \subseteq Nat
  <2>1. Victims \subseteq Block
    BY DEF Victims
  <2> QED
    BY <2>1, Numbers
<1>2. \A b \in Block : kvsz[b] \in Nat
  BY DEF TypeInv, FlashOK, FlashType
<1>3. \E m \in Victims : \A c \in Victims : kvsz[m] <= kvsz[c]
  <2>1. Sizes \in SUBSET Nat /\ Sizes # {}
    BY <1>1, <1>2
  <2> HIDE DEF Sizes
  <2>2. PICK x \in Sizes : \A y \in Sizes : x <= y
    BY <2>1, Least
  <2> QED
    BY <2>2 DEF Sizes
<1>4. PICK m \in Victims : \A c \in Victims : kvsz[m] <= kvsz[c]
  BY <1>3
<1> DEFINE Equal == {b \in Victims : kvsz[b] = kvsz[m]}
<1>5. PICK b \in Equal : \A c \in Equal : b <= c
  <2>1. Equal \in SUBSET Nat /\ Equal # {}
    BY <1>1, <1>4
  <2> HIDE DEF Equal
  <2> QED
    BY <2>1, Least
<1>6. b \in Victims /\ Smallest(b)
  BY <1>1, <1>2, <1>4, <1>5
<1>7. (CHOOSE v \in Victims : Smallest(v)) \in Victims
  <2> HIDE DEF Smallest
  <2> QED
    BY <1>6
<1> QED
  BY <1>7

LEMMA MoveStepType == ASSUME TypeInv, MoveOk \/ MoveFailed PROVE TypeInv'
<1>1. FlashOK /\ bid \in Block /\ gc \in Block /\ op \in MoveOp /\ op.victim # gc
      /\ op.pc = "move"
  BY OpAt DEF TypeInv, MoveOk, MoveFailed
<1>2. Ahead # {} /\ bid' = bid /\ gc' = gc
  BY DEF MoveOk, MoveFailed, ram
<1>3. Moved \in Ahead /\ Moved \in nodes /\ Moved.blk = op.victim /\ End(Moved) \in 0..Words
  BY <1>1, <1>2, MovedType
<1>4. ASSUME MoveOk PROVE TypeInv'
  <2>1. Copy \in Node /\ Copy.blk = gc /\ Copy.at = wo[gc] /\ HasRoom(Copy.blk, Copy.len)
    BY <1>1, <1>2, <1>4, CopyType DEF MoveOk
  <2>2. FlashOK'
    BY <1>1, <1>4, <2>1, WriteVerifiedType DEF MoveOk
  <2>3. op' = [op EXCEPT !.pc = "moved"]
    BY <1>4 DEF MoveOk
  <2>4. op' \in MoveOp /\ op'.pc = "moved" /\ op'.victim = op.victim /\ op'.cur = op.cur
    BY <1>1, <2>3 DEF MoveOp
  <2>5. Moved \in nodes'
    <3>1. End(Copy) <= Words
      BY <2>1 DEF HasRoom, End
    <3>2. Moved \in Visible(Copy)
      BY <1>1, <1>3, <2>1, <3>1, VisibleType
    <3> QED
      BY <1>4, <3>2 DEF MoveOk, WriteVerified
  <2>6. Ahead' # {}
    BY <1>3, <2>4, <2>5 DEF Ahead, NodesIn
  <2> QED
    BY <1>1, <1>2, <2>2, <2>4, <2>6 DEF TypeInv, OpType
<1>5. ASSUME FlashOK', Skip PROVE TypeInv'
  <2>1. op' \in MoveOp /\ op'.pc = "move" /\ op'.victim = op.victim
    BY <1>1, <1>3, <1>5 DEF Skip, MoveOp
  <2> QED
    BY <1>1, <1>2, <1>5, <2>1 DEF TypeInv, OpType
<1>6. ASSUME MoveFailed PROVE TypeInv'
  <2>1. CASE HasRoom(gc, Moved.len)
    <3>1. FlashOK'
      BY <1>1, <1>2, <1>6, <2>1, CopyType, WriteRejectedType DEF MoveFailed
    <3> QED
      BY <1>5, <1>6, <3>1 DEF MoveFailed
  <2>2. CASE ~HasRoom(gc, Moved.len)
    <3>1. FlashOK'
      BY <1>1, <1>6, <2>2, SameFlash DEF MoveFailed
    <3> QED
      BY <1>5, <1>6, <3>1 DEF MoveFailed
  <2> QED
    BY <2>1, <2>2
<1> QED
  BY <1>4, <1>6

LEMMA GcPickType == ASSUME TypeInv, GcPick PROVE TypeInv'
<1>1. op \in GcOp /\ gc \in Block
  BY OpAt DEF TypeInv, GcPick
<1>2. op'.victim \in Victims
  BY VictimType DEF GcPick
<1>3. op'.victim \in Block /\ op'.victim # gc
  BY <1>2 DEF Victims
<1>4. op' \in MoveOp /\ op'.pc = "move"
  <2>1. 0 \in 0..Words
    BY Numbers
  <2> QED
    BY <1>1, <1>3, <2>1 DEF GcPick, GcOp, MoveOp
<1>5. FlashOK' /\ bid' = bid /\ gc' = gc
  BY SameFlash DEF GcPick, TypeInv, ram
<1> QED
  BY <1>1, <1>3, <1>4, <1>5 DEF TypeInv, OpType

LEMMA GcEndType == ASSUME TypeInv, GcEnd PROVE TypeInv'
<1>1. op \in GcOp /\ FlashOK /\ bid \in Block /\ gc \in Block \cup {NULL}
  BY OpAt DEF TypeInv, GcEnd
<1>2. FlashOK' /\ bid' = bid
  BY <1>1, SameFlash DEF GcEnd
<1>3. CASE op.newgc = NULL
  <2>1. /\ gc' = gc
        /\ op' = [pc |-> "return", call |-> "set", key |-> op.key,
                  val |-> op.val, old |-> op.old, ok |-> FALSE]
    BY <1>3 DEF GcEnd
  <2>2. op.key \in Key /\ op.val \in Val /\ op.old \in MaybeNode
    BY <1>1 DEF GcOp
  <2>3. op' \in FullOp /\ op'.pc = "return"
    BY <2>1, <2>2 DEF FullOp
  <2> QED
    BY <1>1, <1>2, <2>1, <2>3, Settle DEF OpType
<1>4. CASE op.newgc # NULL
  <2>1. gc' = op.newgc /\ op.newgc \in Block
    BY <1>1, <1>4 DEF GcEnd, GcOp
  <2>2. op' \in TryOp /\ op'.pc \in {"try", "return"}
    <3>1. CASE op.old # NULL
      <4>1. op' = Lookup(op.key, op.val, TRUE)
        BY <1>4, <3>1 DEF GcEnd
      <4>2. op.key \in Key /\ op.val \in Val
        BY <1>1 DEF GcOp
      <4> QED
        BY <1>1, <4>1, <4>2, LookupType
    <3>2. CASE op.old = NULL
      <4>1. op' = [pc |-> "try", call |-> "set", key |-> op.key,
                   val |-> op.val, old |-> NULL, ver |-> op.ver,
                   start |-> bid, gced |-> TRUE, ok |-> FALSE]
        BY <1>4, <3>2 DEF GcEnd
      <4>2. op.key \in Key /\ op.val \in Val /\ op.ver \in Ver
        BY <1>1 DEF GcOp
      <4> QED
        BY <1>1, <4>1, <4>2 DEF TryOp, MaybeNode
    <3> QED
      BY <3>1, <3>2
  <2>3. op' \in OpType /\ op'.pc \notin {"rmold", "rm", "move", "moved"}
    BY <2>2 DEF OpType
  <2> QED
    BY <1>1, <1>2, <2>1, <2>3, Settle
<1> QED
  BY <1>3, <1>4

LEMMA GcStepType == ASSUME TypeInv, GcStep PROVE TypeInv'
<1>1. FlashOK /\ bid \in Block /\ gc \in Block \cup {NULL} /\ op \in OpType
  BY DEF TypeInv
<1>2. ASSUME GcWild PROVE TypeInv'
  <2>1. op \in GcOp /\ op' \in GcOp /\ op'.pc = "wild"
    BY <1>1, <1>2, OpAt DEF GcWild, GcOp
  <2> QED
    BY <1>1, <1>2, <2>1, SameFlash, Settle DEF GcWild, OpType, ram
<1>3. ASSUME RmMoved PROVE TypeInv'
  <2>1. /\ op \in MoveOp /\ gc \in Block /\ op.victim # gc
        /\ Moved \in Node /\ End(Moved) \in 0..Words
    BY <1>1, <1>3, OpAt, MovedType DEF RmMoved, TypeInv
  <2>2. FlashOK' /\ bid' = bid /\ gc' = gc
    BY <1>1, <1>3, <2>1, KvnodeRmType DEF RmMoved
  <2>3. op' \in MoveOp /\ op'.pc = "move" /\ op'.victim = op.victim
    BY <1>3, <2>1 DEF RmMoved, MoveOp
  <2> QED
    BY <1>1, <2>1, <2>2, <2>3 DEF TypeInv, OpType
<1>4. ASSUME MoveEnd PROVE TypeInv'
  <2>1. op \in MoveOp
    BY <1>1, <1>4, OpAt DEF MoveEnd
  <2>2. op' \in GcOp /\ op'.pc = "gc"
    BY <1>4, <2>1 DEF MoveEnd, MoveOp, GcOp
  <2> QED
    BY <1>1, <1>4, <2>2, SameFlash, Settle DEF MoveEnd, OpType, ram
<1> QED
  BY <1>2, <1>3, <1>4, GcPickType, GcEndType, MoveStepType DEF GcStep

LEMMA OtherStepType == ASSUME TypeInv, OtherStep PROVE TypeInv'
<1>1. FlashOK /\ bid \in Block /\ gc \in Block \cup {NULL} /\ op \in OpType
  BY DEF TypeInv
<1>2. ASSUME RmFound PROVE TypeInv'
  <2>1. FlashOK' /\ bid' = bid /\ gc' = gc
    BY <1>1, <1>2, KvnodeRmType DEF RmFound, TypeInv
  <2>2. op' \in OpType /\ op'.pc = "return"
    BY <1>1, <1>2, ReturnType DEF RmFound
  <2> QED
    BY <1>1, <2>1, <2>2, Settle
<1>3. ASSUME ResetEnd PROVE TypeInv'
  <2>1. FlashOK' /\ bid' = bid /\ gc' = gc
    BY <1>1, <1>3, SameFlash DEF ResetEnd, ram
  <2>2. op' \in OpType /\ op'.pc = "return"
    BY <1>1, <1>3, ReturnType DEF ResetEnd
  <2> QED
    BY <1>1, <2>1, <2>2, Settle
<1>4. ASSUME NEW n \in nodes, ResetNode(n) PROVE TypeInv'
  <2>1. FlashOK' /\ bid' = bid /\ gc' = gc /\ op' = op /\ op.pc = "reset"
    BY <1>1, <1>4, KvnodeRmType DEF ResetNode, FlashOK, FlashType
  <2> QED
    BY <1>1, <2>1, Settle
<1> QED
  BY <1>2, <1>3, <1>4, KvInitType, KvVerifyType, RestType DEF OtherStep

LEMMA NextType == ASSUME TypeInv, [Next]_vars PROVE TypeInv'
<1>1. CASE UNCHANGED vars
  BY <1>1 DEF vars, flash, ram, TypeInv, FlashOK, FlashType, Ahead, NodesIn
<1>2. CASE Next
  BY <1>2, CallType, SetStepType, GcStepType, OtherStepType, PowerFailsType DEF Next, Work
<1> QED
  BY <1>1, <1>2

(* Whatever the factory image, the flash and the power supply do, every    *)
(* node lies within its block, no counter of the code leaves its range     *)
(* (count never goes below zero), and the call in progress refers to       *)
(* blocks and nodes that exist.                                            *)
THEOREM TypeCorrect == Spec => []TypeOK
<1>1. Init => TypeInv
  BY InitType
<1>2. TypeInv /\ [Next]_vars => TypeInv'
  BY NextType
<1>3. TypeInv => TypeOK
  BY DEF TypeInv, TypeOK, FlashOK
<1> QED
  BY <1>1, <1>2, <1>3, PTL DEF Spec

-----------------------------------------------------------------------------
(***************************************************************************)
(* What the key-value store keeps on the flash, and what its counters say  *)
(* of it, for every number and size of blocks and every factory image, as  *)
(* long as a cut write leaves no whole header behind; and, where there is  *)
(* no factory image, that the store implements KvSpec.                     *)
(***************************************************************************)

(* Nodes lie behind each other and below the end of the last node, erased  *)
(* or not.                                                                 *)
FlashSafe ==
    /\ torn = {}
    /\ \A n \in nodes : End(n) <= tail[n.blk]
    /\ \A m, n \in nodes : m # n /\ m.blk = n.blk => End(m) <= n.at \/ End(n) <= m.at

(* What the RAM says about the flash while the power is on. *)
RamSafe ==
    \A b \in Block : /\ tail[b] <= wo[b]
                     /\ cnt[b] = Cardinality(NodesIn(b))
                     /\ kvsz[b] = Cardinality(LiveWords(b))

(* The node a call is about to remove is still there, so that counting it  *)
(* down keeps the counters true.                                           *)
SafeInv ==
    /\ FlashSafe
    /\ op.pc # "off" => RamSafe
    /\ op.pc \in {"rmold", "rm"} => op.old \in nodes
    /\ op.pc = "try" /\ op.old # NULL => op.old \in nodes

-----------------------------------------------------------------------------
(* Words. *)

Span(n) == {s \in 0..(Words-1) : n.at <= s /\ s < End(n)}

LEMMA SpanSize ==
    ASSUME NEW n \in Node, End(n) <= Words
    PROVE  IsFiniteSet(Span(n)) /\ Cardinality(Span(n)) = n.len
<1>1. n.at \in Nat /\ n.len \in Nat \ {0} /\ End(n) = n.at + n.len
  BY NodeFields, Numbers
<1>2. Span(n) = n.at .. (n.at + n.len - 1)
  BY <1>1, Numbers DEF Span
<1>3. n.at \in Int /\ n.at + n.len - 1 \in Int /\ ~(n.at > n.at + n.len - 1)
      /\ (n.at + n.len - 1) - n.at + 1 = n.len
  BY <1>1
<1> QED
  BY <1>2, <1>3, FS_Interval

LEMMA LiveFinite ==
    \A b : /\ IsFiniteSet(LiveWords(b)) /\ Cardinality(LiveWords(b)) \in Nat
           /\ Cardinality(LiveWords(b)) <= Words
<1> SUFFICES ASSUME NEW b
             PROVE  /\ IsFiniteSet(LiveWords(b)) /\ Cardinality(LiveWords(b)) \in Nat
                    /\ Cardinality(LiveWords(b)) <= Words
  OBVIOUS
<1>1. Words \in Nat \ {0} /\ 0 \in Int /\ Words - 1 \in Int /\ ~(0 > Words - 1)
      /\ (Words - 1) - 0 + 1 = Words
  BY Numbers
<1>2. IsFiniteSet(0..(Words-1)) /\ Cardinality(0..(Words-1)) = Words
  BY <1>1, FS_Interval
<1>3. LiveWords(b) \in SUBSET (0..(Words-1))
  BY DEF LiveWords
<1>4. IsFiniteSet(LiveWords(b)) /\ Cardinality(LiveWords(b)) <= Words
  BY <1>2, <1>3, FS_Subset
<1> QED
  BY <1>4, FS_CardinalityType

LEMMA ModSmall == \A x \in 0..(SizeRange-1) : x % SizeRange = x
  BY SMTT(20) DEF SizeRange

LEMMA NodesTyped ==
    ASSUME FlashOK, NEW m \in nodes
    PROVE  /\ m \in Node /\ m.blk \in Block /\ End(m) <= Words
           /\ m.at \in Nat /\ m.len \in Nat /\ End(m) \in Nat
<1>1. m \in Node /\ End(m) <= Words
  BY DEF FlashOK, FlashType
<1>2. 0..(Words-1) \subseteq Nat /\ 1..Words \subseteq Nat
  OBVIOUS
<1> QED
  BY <1>1, <1>2, NodeFields

LEMMA ModWords == \A x \in Nat : x <= Words => x % SizeRange = x
<1>1. Words \in Nat /\ Words <= SizeRange - 1 /\ SizeRange \in Nat
  BY Numbers
<1>2. \A x \in Nat : x <= Words => x \in 0..(SizeRange-1)
  BY <1>1
<1> QED
  BY <1>2, ModSmall

(* The live words of disjoint parts add up. *)
LEMMA SizesAdd ==
    ASSUME NEW S, NEW T, IsFiniteSet(S), IsFiniteSet(T), S \cap T = {}
    PROVE  Cardinality(S \cup T) = Cardinality(S) + Cardinality(T)
<1>1. Cardinality(S \cap T) = 0
  BY FS_EmptySet
<1>2. Cardinality(S \cup T) = Cardinality(S) + Cardinality(T) - Cardinality(S \cap T)
  BY FS_Union
<1>3. Cardinality(S) \in Nat /\ Cardinality(T) \in Nat
  BY FS_CardinalityType
<1> QED
  BY <1>1, <1>2, <1>3

-----------------------------------------------------------------------------
(* The flash operations. *)

(* Nodes of other blocks: nothing that is counted for them changes. *)
LEMMA OtherBlock ==
    ASSUME NEW b, \A n : n.blk = b => (n \in nodes' <=> n \in nodes)
    PROVE  NodesIn(b)' = NodesIn(b) /\ LiveWords(b)' = LiveWords(b)
<1>1. NodesIn(b)' = NodesIn(b)
  BY DEF NodesIn
<1> QED
  BY <1>1 DEF LiveWords, End

LEMMA EraseBlockSafe ==
    ASSUME FlashOK, FlashSafe, RamSafe, NEW b \in Block, EraseBlock(b)
    PROVE  FlashSafe' /\ RamSafe'
<1>1. nodes' = nodes \ NodesIn(b)
  BY DEF EraseBlock
<1>2. ASSUME NEW n \in nodes' PROVE n.blk # b /\ n.blk \in Block
  BY <1>1, NodeFields DEF NodesIn, FlashOK, FlashType
<1>3. \A n \in nodes' : tail'[n.blk] = tail[n.blk]
  BY <1>2 DEF EraseBlock, FlashOK, FlashType
<1>4. FlashSafe'
  BY <1>1, <1>3 DEF EraseBlock, FlashSafe, End
<1>5. ASSUME NEW c \in Block
      PROVE  /\ tail'[c] <= wo'[c] /\ cnt'[c] = Cardinality(NodesIn(c)')
             /\ kvsz'[c] = Cardinality(LiveWords(c)')
  <2>1. CASE c = b
    <3>1. NodesIn(c)' = {}
      BY <1>2, <2>1 DEF NodesIn
    <3>2. LiveWords(c)' = {}
      BY <3>1 DEF LiveWords
    <3>3. tail'[c] = 0 /\ wo'[c] = 0 /\ cnt'[c] = 0 /\ kvsz'[c] = 0
      BY <2>1 DEF EraseBlock, FlashOK, FlashType
    <3> QED
      BY <3>1, <3>2, <3>3, FS_EmptySet
  <2>2. CASE c # b
    <3>1. NodesIn(c)' = NodesIn(c) /\ LiveWords(c)' = LiveWords(c)
      BY <1>1, <2>2, OtherBlock DEF NodesIn
    <3>2. tail'[c] = tail[c] /\ wo'[c] = wo[c] /\ cnt'[c] = cnt[c] /\ kvsz'[c] = kvsz[c]
      BY <2>2 DEF EraseBlock, FlashOK, FlashType
    <3> QED
      BY <3>1, <3>2 DEF RamSafe
  <2> QED
    BY <2>1, <2>2
<1> QED
  BY <1>4, <1>5 DEF RamSafe

(* The words of a node are its own. *)
LEMMA RemovedWords ==
    ASSUME FlashOK, FlashSafe, NEW n \in nodes, nodes' = nodes \ {n}
    PROVE  Cardinality(LiveWords(n.blk)') = Cardinality(LiveWords(n.blk)) - n.len
<1>1. n \in Node /\ End(n) <= Words /\ n.len \in Nat
  BY NodesTyped
<1>2. LiveWords(n.blk)' = LiveWords(n.blk) \ Span(n)
  <2>1. \A m \in nodes : m \in Node /\ m.at \in Nat /\ End(m) \in Nat
    BY NodesTyped
  <2>2. ASSUME NEW s \in 0..(Words-1), s \in Span(n), NEW m \in nodes, m # n, m.blk = n.blk
        PROVE  ~(m.at <= s /\ s < End(m))
    <3>1. End(m) <= n.at \/ End(n) <= m.at
      BY <2>2 DEF FlashSafe
    <3> QED
      BY <2>1, <2>2, <3>1 DEF Span
  <2>3. \A s \in 0..(Words-1) : s \in LiveWords(n.blk)' <=>
            \E m \in nodes : m # n /\ m.blk = n.blk /\ m.at <= s /\ s < End(m)
    BY DEF LiveWords, NodesIn, End
  <2>4. \A s \in 0..(Words-1) : s \in LiveWords(n.blk) <=>
            \E m \in nodes : m.blk = n.blk /\ m.at <= s /\ s < End(m)
    BY DEF LiveWords, NodesIn
  <2>5. LiveWords(n.blk) \subseteq 0..(Words-1) /\ LiveWords(n.blk)' \subseteq 0..(Words-1)
    BY DEF LiveWords
  <2>6. ASSUME NEW s \in 0..(Words-1)
        PROVE  s \in LiveWords(n.blk)' <=> s \in LiveWords(n.blk) /\ s \notin Span(n)
    <3>1. s \in Span(n) <=> n.at <= s /\ s < End(n)
      BY DEF Span
    <3> QED
      BY <2>2, <2>3, <2>4, <3>1
  <2> QED
    BY <2>5, <2>6
<1>3. Span(n) \subseteq LiveWords(n.blk)
  BY DEF Span, LiveWords, NodesIn
<1>4. LiveWords(n.blk) = LiveWords(n.blk)' \cup Span(n) /\ LiveWords(n.blk)' \cap Span(n) = {}
  BY <1>2, <1>3
<1>5. IsFiniteSet(LiveWords(n.blk)') /\ Cardinality(LiveWords(n.blk)') \in Nat
  <2>1. IsFiniteSet(LiveWords(n.blk)')
    BY <1>2, LiveFinite, FS_Subset
  <2> QED
    BY <2>1, FS_CardinalityType
<1>6. Cardinality(LiveWords(n.blk)) = Cardinality(LiveWords(n.blk)') + n.len
  BY <1>1, <1>4, <1>5, SpanSize, SizesAdd
<1> QED
  BY <1>1, <1>5, <1>6

LEMMA MarkErasedSafe ==
    ASSUME FlashOK, FlashSafe, RamSafe, NEW n \in nodes, MarkErased(n)
    PROVE  FlashSafe' /\ RamSafe'
<1>1. nodes' = nodes \ {n} /\ tail' = tail /\ wo' = wo /\ torn' = torn
  BY DEF MarkErased
<1>2. FlashSafe'
  BY <1>1 DEF FlashSafe, End
<1>3. n \in Node /\ n.blk \in Block /\ n.len \in Nat
  BY NodesTyped
<1>4. ASSUME NEW c \in Block
      PROVE  cnt'[c] = Cardinality(NodesIn(c)') /\ kvsz'[c] = Cardinality(LiveWords(c)')
  <2>1. IsFiniteSet(NodesIn(c)) /\ cnt[c] = Cardinality(NodesIn(c))
    BY FS_Subset DEF NodesIn, FlashOK, RamSafe
  <2>2. CASE c = n.blk
    <3>1. NodesIn(c)' = NodesIn(c) \ {n} /\ n \in NodesIn(c)
      BY <1>1, <2>2 DEF NodesIn
    <3>2. cnt'[c] = cnt[c] - 1 /\ kvsz'[c] = (kvsz[c] - n.len) % SizeRange
      BY <2>2 DEF MarkErased, FlashOK, FlashType
    <3>3. Cardinality(LiveWords(c)') = kvsz[c] - n.len
      BY <1>1, <2>2, RemovedWords DEF RamSafe
    <3>4. Cardinality(LiveWords(c)') \in Nat /\ Cardinality(LiveWords(c)') <= Words
      <4>1. LiveWords(c)' \in SUBSET LiveWords(c)
        BY <3>1 DEF LiveWords, End
      <4>2. IsFiniteSet(LiveWords(c)')
            /\ Cardinality(LiveWords(c)') <= Cardinality(LiveWords(c))
        BY <4>1, LiveFinite, FS_Subset
      <4>3. Cardinality(LiveWords(c)') \in Nat
        BY <4>2, FS_CardinalityType
      <4>4. Cardinality(LiveWords(c)) <= Words /\ Cardinality(LiveWords(c)) \in Nat
        BY LiveFinite
      <4> QED
        BY <4>2, <4>3, <4>4, Numbers
    <3>5. kvsz'[c] = Cardinality(LiveWords(c)')
      BY <3>2, <3>3, <3>4, ModWords
    <3> QED
      BY <2>1, <3>1, <3>2, <3>5, FS_RemoveElement
  <2>3. CASE c # n.blk
    <3>1. NodesIn(c)' = NodesIn(c) /\ LiveWords(c)' = LiveWords(c)
      BY <1>1, <2>3, OtherBlock
    <3>2. cnt'[c] = cnt[c] /\ kvsz'[c] = kvsz[c]
      BY <2>3 DEF MarkErased, FlashOK, FlashType
    <3> QED
      BY <3>1, <3>2 DEF RamSafe
  <2> QED
    BY <2>2, <2>3
<1> QED
  BY <1>1, <1>2, <1>4 DEF RamSafe

LEMMA KvnodeRmSafe ==
    ASSUME FlashOK, FlashSafe, RamSafe, NEW n \in nodes, KvnodeRm(n)
    PROVE  FlashSafe' /\ RamSafe'
<1>1. n.blk \in Block
  BY NodeFields DEF FlashOK, FlashType
<1>2. CASE MarkErased(n)
  BY <1>2, MarkErasedSafe
<1>3. CASE EraseBlock(n.blk)
  BY <1>1, <1>3, EraseBlockSafe
<1>4. CASE UNCHANGED <<flash, wo, cnt, roc, kvsz>>
  BY <1>4 DEF FlashSafe, RamSafe, NodesIn, LiveWords, End, flash
<1> QED
  BY <1>2, <1>3, <1>4 DEF KvnodeRm

(* A node is written behind everything that is in the block. *)
LEMMA AddedWords ==
    ASSUME FlashOK, NEW n \in Node, End(n) <= Words, nodes' = nodes \cup {n},
           \A m \in nodes : m.blk = n.blk => End(m) <= n.at
    PROVE  Cardinality(LiveWords(n.blk)') = Cardinality(LiveWords(n.blk)) + n.len
<1>1. \A m \in nodes : m \in Node /\ m.at \in Nat /\ End(m) \in Nat
  BY NodesTyped
<1>2. n.at \in Nat
  BY NodeFields
<1>3. LiveWords(n.blk)' = LiveWords(n.blk) \cup Span(n)
  <2>1. NodesIn(n.blk)' = NodesIn(n.blk) \cup {n}
    BY DEF NodesIn
  <2> QED
    BY <2>1 DEF LiveWords, Span, End
<1>4. LiveWords(n.blk) \cap Span(n) = {}
  <2>1. ASSUME NEW s \in 0..(Words-1), s \in LiveWords(n.blk) PROVE s \notin Span(n)
    <3>1. PICK m \in nodes : m.blk = n.blk /\ s < End(m)
      BY <2>1 DEF LiveWords, NodesIn
    <3> QED
      BY <1>1, <1>2, <3>1 DEF Span
  <2> QED
    BY <2>1 DEF LiveWords
<1>5. IsFiniteSet(LiveWords(n.blk)) /\ IsFiniteSet(Span(n)) /\ Cardinality(Span(n)) = n.len
  BY LiveFinite, SpanSize
<1> QED
  BY <1>3, <1>4, <1>5, SizesAdd

LEMMA WriteVerifiedSafe ==
    ASSUME FlashOK, FlashSafe, RamSafe, NEW n \in Node, n.at = wo[n.blk],
           HasRoom(n.blk, n.len), WriteVerified(n)
    PROVE  FlashSafe' /\ RamSafe' /\ nodes' = nodes \cup {n}
<1>1. n.blk \in Block /\ n.at \in Nat /\ n.len \in Nat \ {0} /\ End(n) = n.at + n.len
  BY NodeFields, Numbers
<1>2. nodes' = nodes \cup {n} /\ torn' = {}
  BY DEF WriteVerified, Visible, Completed, FlashSafe
<1>3. \A m \in nodes : m \in Node /\ m.blk \in Block /\ m.at \in Nat /\ End(m) \in Nat
  BY NodesTyped
<1>4. \A b \in Block : tail[b] \in Nat /\ wo[b] \in Nat /\ tail[b] <= wo[b]
  BY FlashFields DEF FlashOK, RamSafe
<1>5. \A m \in nodes : m.blk = n.blk => End(m) <= n.at
  BY <1>1, <1>3, <1>4 DEF FlashSafe
<1>6. tail' = [tail EXCEPT ![n.blk] = End(n)] /\ wo' = [wo EXCEPT ![n.blk] = @ + n.len]
      /\ cnt' = [cnt EXCEPT ![n.blk] = @ + 1]
      /\ kvsz' = [kvsz EXCEPT ![n.blk] = (@ + n.len) % SizeRange]
  BY DEF WriteVerified
<1>7. /\ tail'[n.blk] = End(n) /\ wo'[n.blk] = End(n)
      /\ cnt'[n.blk] = cnt[n.blk] + 1
      /\ kvsz'[n.blk] = (kvsz[n.blk] + n.len) % SizeRange
      /\ \A b \in Block : b # n.blk => /\ tail'[b] = tail[b] /\ wo'[b] = wo[b]
                                       /\ cnt'[b] = cnt[b] /\ kvsz'[b] = kvsz[b]
  BY <1>1, <1>6 DEF FlashOK, FlashType
<1>8. \A m \in nodes' : End(m)' <= tail'[m.blk]
  <2> SUFFICES ASSUME NEW m \in nodes' PROVE End(m) <= tail'[m.blk]
    BY DEF End
  <2>1. CASE m = n
    BY <1>1, <1>7, <2>1
  <2>2. CASE m \in nodes /\ m.blk = n.blk
    BY <1>1, <1>3, <1>5, <1>7, <2>2
  <2>3. CASE m \in nodes /\ m.blk # n.blk
    BY <1>3, <1>7, <2>3 DEF FlashSafe
  <2> QED
    BY <1>2, <2>1, <2>2, <2>3
<1>9. \A l, m \in nodes' : l # m /\ l.blk = m.blk => End(l)' <= m.at \/ End(m)' <= l.at
  BY <1>2, <1>5 DEF FlashSafe, End
<1>10. cnt'[n.blk] = Cardinality(NodesIn(n.blk)')
  <2>1. IsFiniteSet(NodesIn(n.blk)) /\ cnt[n.blk] = Cardinality(NodesIn(n.blk))
    BY <1>1, FS_Subset DEF NodesIn, FlashOK, RamSafe
  <2>2. ~(n.at + n.len <= n.at)
    BY <1>1
  <2>3. n \notin nodes
    BY <1>1, <1>5, <2>2
  <2>4. NodesIn(n.blk)' = NodesIn(n.blk) \cup {n} /\ n \notin NodesIn(n.blk)
    BY <1>2, <2>3 DEF NodesIn
  <2>5. Cardinality(NodesIn(n.blk) \cup {n}) = Cardinality(NodesIn(n.blk)) + 1
    BY <2>1, <2>4, FS_AddElement
  <2> QED
    BY <1>7, <2>1, <2>4, <2>5
<1>11. kvsz'[n.blk] = Cardinality(LiveWords(n.blk)')
  <2>1. Cardinality(LiveWords(n.blk)') = kvsz[n.blk] + n.len
    BY <1>1, <1>2, <1>5, AddedWords DEF HasRoom, RamSafe
  <2>2. LiveWords(n.blk)' = LiveWords(n.blk) \cup Span(n)
    BY <1>2 DEF LiveWords, NodesIn, Span, End
  <2>3. LiveWords(n.blk)' \in SUBSET (0..(Words-1))
    BY <2>2 DEF LiveWords, Span
  <2>4. Words \in Nat \ {0} /\ 0 \in Int /\ Words - 1 \in Int /\ ~(0 > Words - 1)
        /\ (Words - 1) - 0 + 1 = Words
    BY Numbers
  <2>5. IsFiniteSet(0..(Words-1)) /\ Cardinality(0..(Words-1)) = Words
    BY <2>4, FS_Interval
  <2>6. IsFiniteSet(LiveWords(n.blk)') /\ Cardinality(LiveWords(n.blk)') <= Words
    BY <2>3, <2>5, FS_Subset
  <2>7. Cardinality(LiveWords(n.blk)') \in Nat
    BY <2>6, FS_CardinalityType
  <2> QED
    BY <1>7, <2>1, <2>6, <2>7, ModWords
<1>12. ASSUME NEW b \in Block, b # n.blk
       PROVE  cnt'[b] = Cardinality(NodesIn(b)') /\ kvsz'[b] = Cardinality(LiveWords(b)')
  <2>1. NodesIn(b)' = NodesIn(b) /\ LiveWords(b)' = LiveWords(b)
    BY <1>2, <1>12, OtherBlock
  <2> QED
    BY <1>7, <1>12, <2>1 DEF RamSafe
<1>13. ASSUME NEW b \in Block PROVE tail'[b] <= wo'[b]
  BY <1>1, <1>4, <1>7
<1> QED
  BY <1>2, <1>8, <1>9, <1>10, <1>11, <1>12, <1>13 DEF FlashSafe, RamSafe

LEMMA WriteRejectedSafe ==
    ASSUME FlashOK, FlashSafe, RamSafe, NEW n \in Node, n.at = wo[n.blk],
           WriteRejected(n)
    PROVE  FlashSafe' /\ RamSafe' /\ nodes' = nodes
<1>1. n.blk \in Block /\ n.at \in Nat /\ n.len \in Nat \ {0} /\ End(n) = n.at + n.len
  BY NodeFields, Numbers
<1>2. nodes' = nodes /\ torn' = {} /\ cnt' = cnt /\ kvsz' = kvsz
  BY DEF WriteRejected, FlashSafe
<1>3. \A b \in Block : tail[b] \in Nat /\ wo[b] \in Nat /\ tail[b] <= wo[b]
  BY FlashFields DEF FlashOK, RamSafe
<1>4. wo' = [wo EXCEPT ![n.blk] = @ + n.len]
      /\ tail' \in {tail, [tail EXCEPT ![n.blk] = End(n)]}
  BY DEF WriteRejected
<1>5. wo'[n.blk] = End(n) /\ \A b \in Block : b # n.blk => wo'[b] = wo[b]
  BY <1>1, <1>4 DEF FlashOK, FlashType
<1>6. \A b \in Block : tail'[b] \in {tail[b], End(n)} /\ (tail'[b] = tail[b] \/ b = n.blk)
  BY <1>1, <1>4 DEF FlashOK, FlashType
<1>7. ASSUME NEW b \in Block PROVE tail[b] <= tail'[b] /\ tail'[b] <= wo'[b]
  BY <1>1, <1>3, <1>5, <1>6
<1>8. ASSUME NEW m \in nodes PROVE End(m) <= tail'[m.blk]
  <2>1. m.blk \in Block /\ End(m) \in Nat
    BY NodeFields DEF FlashOK, FlashType
  <2>2. tail'[m.blk] \in Nat
    BY <1>1, <1>3, <1>6, <2>1
  <2> QED
    BY <1>3, <1>7, <2>1, <2>2 DEF FlashSafe
<1> QED
  BY <1>2, <1>7, <1>8 DEF FlashSafe, RamSafe, NodesIn, LiveWords, End

-----------------------------------------------------------------------------
(* Each action keeps SafeInv. *)
LEMMA Quiet ==
    ASSUME SafeInv, UNCHANGED <<flash, wo, cnt, roc, kvsz>>, op.pc # "off"
    PROVE  FlashSafe' /\ RamSafe' /\ nodes' = nodes
  BY DEF SafeInv, FlashSafe, RamSafe, NodesIn, LiveWords, End, flash

LEMMA SettleSafe ==
    ASSUME FlashSafe', RamSafe', op'.pc \notin {"try", "rmold", "rm"}
    PROVE  SafeInv'
  BY DEF SafeInv

LEMMA InitSafe == Init => SafeInv
<1> SUFFICES ASSUME Init PROVE SafeInv
  OBVIOUS
<1>1. nodes = Factory /\ torn = {} /\ op.pc = "off"
  BY DEF Init, Resting
<1>2. \A m, n \in nodes : m # n /\ m.blk = n.blk => End(m) <= n.at \/ End(n) <= m.at
  BY <1>1, KvAssumption DEF KvAssumption, End
<1>3. ASSUME NEW n \in nodes PROVE End(n) <= tail[n.blk]
  <2> DEFINE S == {End(m) : m \in NodesIn(n.blk)}
  <2>1. FlashOK
    BY InitType DEF TypeInv
  <2>2. n \in NodesIn(n.blk) /\ n.blk \in Block
    BY <2>1, NodeFields DEF NodesIn, FlashOK, FlashType
  <2>3. S \in SUBSET (0..Words) /\ S # {}
    BY <2>1, <2>2, NodeFields DEF NodesIn, FlashOK, FlashType
  <2>5. tail[n.blk] = CHOOSE e \in S : \A m \in NodesIn(n.blk) : End(m) <= e
    BY <2>2 DEF Init
  <2>6. \E e \in S : \A m \in NodesIn(n.blk) : End(m) <= e
    <3>1. \A m \in NodesIn(n.blk) : End(m) \in S
      OBVIOUS
    <3> HIDE DEF S
    <3>0. Words \in Nat
      BY Numbers
    <3>2. PICK e \in S : \A x \in S : x <= e
      BY <2>3, <3>0, Greatest
    <3> QED
      BY <3>1, <3>2
  <2>7. \A m \in NodesIn(n.blk) : End(m) <= tail[n.blk]
    BY <2>5, <2>6
  <2> QED
    BY <2>2, <2>7
<1> QED
  BY <1>1, <1>2, <1>3 DEF SafeInv, FlashSafe

LEMMA KvInitSafe ==
    ASSUME TypeInv, SafeInv, KvInit
    PROVE  SafeInv'
<1>1. FlashOK /\ FlashType
  BY DEF TypeInv, FlashOK
<1>2. nodes' = nodes /\ torn' = {} /\ op' = Resting("verify")
  BY DEF KvInit, SafeInv, FlashSafe
<1>3. \A n \in nodes : n.blk \in Block /\ NodesIn(n.blk) # {}
  BY <1>1, NodeFields DEF NodesIn, FlashType
<1>4. \A b \in Block : tail'[b] = IF NodesIn(b) = {} THEN 0 ELSE tail[b]
  BY DEF KvInit
<1>5. FlashSafe'
  BY <1>2, <1>3, <1>4 DEF SafeInv, FlashSafe, End
<1>6. ASSUME NEW b \in Block PROVE tail'[b] <= wo'[b]
  <2>1. Scan \in 0..Words
    BY KvAssumption DEF KvAssumption
  <2>2. tail[b] <= WriteOffset(b)
    BY <1>1, <2>1, FlashFields, LargerType DEF WriteOffset
  <2>3. wo'[b] = IF NodesIn(b) = {} THEN 0 ELSE WriteOffset(b)
    BY DEF KvInit
  <2> QED
    BY <1>4, <2>2, <2>3
<1>7. ASSUME NEW b \in Block
      PROVE  cnt'[b] = Cardinality(NodesIn(b)') /\ kvsz'[b] = Cardinality(LiveWords(b)')
  BY <1>2 DEF KvInit, NodesIn, LiveWords, End
<1> QED
  BY <1>2, <1>5, <1>6, <1>7 DEF SafeInv, RamSafe, Resting

LEMMA RemoveSafe ==
    ASSUME TypeInv, SafeInv, op.pc # "off", NEW n \in nodes, KvnodeRm(n),
           op'.pc \notin {"try", "rmold", "rm"}
    PROVE  SafeInv'
  BY KvnodeRmSafe, SettleSafe DEF TypeInv, SafeInv

LEMMA CallSafe ==
    ASSUME TypeInv, SafeInv, Call
    PROVE  SafeInv'
<1>1. FlashSafe' /\ RamSafe' /\ nodes' = nodes
  BY Quiet DEF Call, KvSet, KvRm, KvReset, ram, flash
<1>2. ASSUME NEW k \in Key, NEW v \in Val, KvSet(k, v) PROVE SafeInv'
  <2>1. op'.pc \in {"try", "return"} /\ op'.old = Found(k)
    BY <1>2 DEF KvSet, Lookup
  <2>2. Found(k) # NULL => Found(k) \in nodes
    BY FoundType DEF TypeInv
  <2> QED
    BY <1>1, <2>1, <2>2 DEF SafeInv
<1>3. ASSUME NEW k \in Key, KvRm(k) PROVE SafeInv'
  <2>1. /\ op'.pc = "rm" => op'.old = Found(k) /\ Found(k) # NULL
        /\ op'.pc \in {"rm", "return"}
    BY <1>3 DEF KvRm
  <2>2. Found(k) # NULL => Found(k) \in nodes
    BY FoundType DEF TypeInv
  <2> QED
    BY <1>1, <2>1, <2>2 DEF SafeInv
<1>4. ASSUME KvReset PROVE SafeInv'
  BY <1>1, <1>4, SettleSafe DEF KvReset
<1> QED
  BY <1>1, <1>2, <1>3, <1>4 DEF Call

(* What kv_set writes gets a version, so it can be written over.           *)
LEMMA TargetSafe ==
    ASSUME TypeInv, op.pc = "try", Fits
    PROVE  Target \in Node /\ Target.at = wo[Target.blk] /\ Rw(Target)
<1>1. op.ver \in Ver /\ Target.ver = op.ver
  BY OpAt DEF TypeInv, TryOp, Target, NewNode
<1>2. op.ver # 0
  BY <1>1, Numbers DEF Ver
<1> QED
  BY <1>1, <1>2, TargetType DEF Rw

LEMMA NextBlockSafe ==
    ASSUME TypeInv, SafeInv, op.pc = "try", NextBlock, nodes' = nodes,
           FlashSafe', RamSafe'
    PROVE  SafeInv'
<1>1. \/ op' = op
      \/ op'.pc = "gc"
      \/ op' = [op EXCEPT !.pc = "return", !.ok = FALSE]
  BY DEF NextBlock, Return
<1>2. op'.pc = "return" \/ op'.pc = "gc" \/ op' = op
  <2>1. op \in TryOp
    BY OpAt DEF TypeInv
  <2> QED
    BY <1>1, <2>1 DEF TryOp
<1> QED
  BY <1>2 DEF SafeInv

LEMMA SetStepSafe ==
    ASSUME TypeInv, SafeInv, SetStep
    PROVE  SafeInv'
<1>1. ASSUME TryOk PROVE SafeInv'
  <2>0. FlashOK /\ FlashSafe /\ RamSafe /\ WriteVerified(Target)
    BY <1>1 DEF TryOk, TypeInv, SafeInv
  <2>1. FlashSafe' /\ RamSafe' /\ nodes' = nodes \cup {Target}
    BY <1>1, <2>0, TargetType, TargetSafe, WriteVerifiedSafe DEF TryOk
  <2>2. op \in TryOp
    BY <1>1, OpAt DEF TypeInv, TryOk
  <2>3. op'.pc \in {"return", "rmold"} /\ (op'.pc = "rmold" => op.old # NULL /\ op'.old = op.old)
    BY <1>1, <2>2 DEF TryOk, Return, TryOp
  <2>4. op.old # NULL => op.old \in nodes
    BY <1>1 DEF SafeInv, TryOk
  <2> QED
    BY <2>1, <2>3, <2>4 DEF SafeInv
<1>2. ASSUME TryRejected PROVE SafeInv'
  <2>1. FlashSafe' /\ RamSafe' /\ nodes' = nodes
    BY <1>2, TargetSafe, WriteRejectedSafe DEF TryRejected, TypeInv, SafeInv
  <2> QED
    BY <1>2, <2>1, NextBlockSafe DEF TryRejected
<1>3. ASSUME TrySkip PROVE SafeInv'
  <2>1. FlashSafe' /\ RamSafe' /\ nodes' = nodes
    BY <1>3, Quiet DEF TrySkip, flash
  <2> QED
    BY <1>3, <2>1, NextBlockSafe DEF TrySkip
<1>4. ASSUME RmOld PROVE SafeInv'
  <2>1. op.old \in nodes /\ KvnodeRm(op.old)
    BY <1>4 DEF RmOld, SafeInv
  <2>2. op'.pc = "return"
    BY <1>4, ReturnType DEF RmOld, TypeInv
  <2> QED
    BY <1>4, <2>1, <2>2, RemoveSafe DEF RmOld
<1> QED
  BY <1>1, <1>2, <1>3, <1>4 DEF SetStep

(* A copy is as removable as the node it is a copy of: no version is 0.    *)
LEMMA CopySafe ==
    ASSUME TypeInv, op.pc = "move", Ahead # {}, HasRoom(gc, Moved.len)
    PROVE  Copy \in Node /\ Copy.at = wo[Copy.blk] /\ Rw(Copy)
<1>1. Copy.ver = NextVer(Moved.ver)
  BY DEF Copy, NewNode
<1>2. NextVer(Moved.ver) \in Ver
  BY MovedType, NodeFields, NextVerType
<1>3. Copy.ver # 0
  BY <1>1, <1>2, Numbers DEF Ver
<1> QED
  BY <1>3, CopyType DEF Rw

LEMMA GcStepSafe ==
    ASSUME TypeInv, SafeInv, GcStep
    PROVE  SafeInv'
<1>1. ASSUME GcPick \/ GcWild \/ MoveEnd PROVE SafeInv'
  <2>1. FlashSafe' /\ RamSafe'
    BY <1>1, Quiet DEF GcPick, GcWild, MoveEnd, ram
  <2>2. op \in OpType
    BY DEF TypeInv
  <2>3. CASE GcPick \/ MoveEnd
    BY <2>1, <2>3, SettleSafe DEF GcPick, MoveEnd
  <2>4. CASE GcWild
    <3>1. op \in GcOp
      BY <2>2, <2>4, OpAt DEF GcWild
    <3>2. op'.pc = "wild"
      BY <2>4, <3>1 DEF GcWild, GcOp
    <3> QED
      BY <2>1, <3>2, SettleSafe
  <2> QED
    BY <1>1, <2>3, <2>4
<1>2. ASSUME GcEnd PROVE SafeInv'
  <2>1. FlashSafe' /\ RamSafe' /\ nodes' = nodes
    BY <1>2, Quiet DEF GcEnd, flash
  <2>2. \/ op'.pc = "return"
        \/ op' = Lookup(op.key, op.val, TRUE)
        \/ op'.pc = "try" /\ op'.old = NULL
    <3>1. CASE op.newgc = NULL
      <4>1. op' = [pc |-> "return", call |-> "set", key |-> op.key,
                   val |-> op.val, old |-> op.old, ok |-> FALSE]
        BY <1>2, <3>1 DEF GcEnd
      <4> QED
        BY <4>1
    <3>2. CASE op.newgc # NULL /\ op.old # NULL
      BY <1>2, <3>2 DEF GcEnd
    <3>3. CASE op.newgc # NULL /\ op.old = NULL
      <4>1. op' = [pc |-> "try", call |-> "set", key |-> op.key, val |-> op.val,
                   old |-> NULL, ver |-> op.ver, start |-> bid, gced |-> TRUE,
                   ok |-> FALSE]
        BY <1>2, <3>3 DEF GcEnd
      <4> QED
        BY <4>1
    <3> QED
      BY <3>1, <3>2, <3>3
  <2>3. CASE op' = Lookup(op.key, op.val, TRUE)
    <3>1. op'.pc \in {"try", "return"} /\ op'.old = Found(op.key)
      BY <2>3 DEF Lookup
    <3>2. Found(op.key) # NULL => Found(op.key) \in nodes
      BY FoundType DEF TypeInv
    <3> QED
      BY <2>1, <3>1, <3>2 DEF SafeInv
  <2> QED
    BY <2>1, <2>2, <2>3 DEF SafeInv
<1>3. ASSUME MoveOk \/ MoveFailed PROVE SafeInv'
  <2>1. op \in MoveOp
    BY <1>3, OpAt DEF TypeInv, MoveOk, MoveFailed
  <2>2. op'.pc \in {"move", "moved"}
    BY <1>3, <2>1 DEF MoveOk, MoveFailed, Skip, MoveOp
  <2>3. CASE HasRoom(gc, Moved.len)
    <3>1. Copy \in Node /\ Copy.at = wo[Copy.blk] /\ Rw(Copy)
      BY <1>3, <2>3, CopySafe DEF MoveOk, MoveFailed
    <3>2. /\ FlashOK /\ FlashSafe /\ RamSafe /\ HasRoom(Copy.blk, Copy.len)
          /\ WriteVerified(Copy) \/ WriteRejected(Copy)
      BY <1>3, <2>3, CopyType DEF MoveOk, MoveFailed, TypeInv, SafeInv
    <3>3. FlashSafe' /\ RamSafe'
      BY <3>1, <3>2, WriteVerifiedSafe, WriteRejectedSafe
    <3> QED
      BY <2>2, <3>3, SettleSafe
  <2>4. CASE ~HasRoom(gc, Moved.len)
    <3>1. FlashSafe' /\ RamSafe'
      BY <1>3, <2>4, Quiet DEF MoveOk, MoveFailed
    <3> QED
      BY <2>2, <3>1, SettleSafe
  <2> QED
    BY <2>3, <2>4
<1>4. ASSUME RmMoved PROVE SafeInv'
  <2>1. Moved \in nodes /\ KvnodeRm(Moved)
    BY <1>4, MovedType DEF RmMoved, TypeInv
  <2>2. op \in MoveOp
    BY <1>4, OpAt DEF TypeInv, RmMoved
  <2>3. op'.pc = "move"
    BY <1>4, <2>2 DEF RmMoved, MoveOp
  <2> QED
    BY <1>4, <2>1, <2>3, RemoveSafe DEF RmMoved
<1> QED
  BY <1>1, <1>2, <1>3, <1>4 DEF GcStep

LEMMA OtherStepSafe ==
    ASSUME TypeInv, SafeInv, OtherStep
    PROVE  SafeInv'
<1>1. ASSUME NEW m \in nodes, NEW n \in nodes, KvVerify(m, n)
      PROVE  SafeInv'
  BY <1>1, RemoveSafe DEF KvVerify
<1>2. ASSUME RmFound PROVE SafeInv'
  <2>1. op.old \in nodes /\ KvnodeRm(op.old)
    BY <1>2 DEF RmFound, SafeInv
  <2>2. op'.pc = "return"
    BY <1>2, ReturnType DEF RmFound, TypeInv
  <2> QED
    BY <1>2, <2>1, <2>2, RemoveSafe DEF RmFound
<1>3. ASSUME NEW n \in nodes, ResetNode(n) PROVE SafeInv'
  BY <1>3, RemoveSafe DEF ResetNode
<1>4. ASSUME KvVerified \/ KvReturn PROVE SafeInv'
  <2>1. FlashSafe' /\ RamSafe'
    BY <1>4, Quiet DEF KvVerified, KvReturn, ram
  <2> QED
    BY <1>4, <2>1, SettleSafe DEF KvVerified, KvReturn, Resting
<1>5. ASSUME ResetEnd PROVE SafeInv'
  <2>1. FlashSafe' /\ RamSafe'
    BY <1>5, Quiet DEF ResetEnd, ram
  <2>2. op'.pc = "return"
    BY <1>5, ReturnType DEF ResetEnd, TypeInv
  <2> QED
    BY <2>1, <2>2, SettleSafe
<1> QED
  BY <1>1, <1>2, <1>3, <1>4, <1>5, KvInitSafe DEF OtherStep

(* A cut write leaves every node where it was, and no RAM to speak of.     *)
LEMMA PowerFailsSafe ==
    ASSUME TypeInv, SafeInv, Torn # "header", PowerFails
    PROVE  SafeInv'
<1>1. nodes' = nodes /\ tail' = tail /\ torn' = torn
  BY DEF PowerFails, PowerLoss, TryTorn, MoveTorn, WriteTorn, flash
<1>2. op'.pc = "off"
  BY DEF PowerFails, PowerLoss, TryTorn, MoveTorn, NoRam, Resting
<1> QED
  BY <1>1, <1>2 DEF SafeInv, FlashSafe, Rw, End

LEMMA NextSafe ==
    ASSUME TypeInv, SafeInv, Torn # "header", [Next]_vars
    PROVE  SafeInv'
<1>1. CASE UNCHANGED vars
  BY <1>1 DEF vars, flash, ram, SafeInv, FlashSafe, RamSafe, NodesIn, LiveWords, End
<1>2. CASE Next
  BY <1>2, CallSafe, SetStepSafe, GcStepSafe, OtherStepSafe, PowerFailsSafe DEF Next, Work
<1> QED
  BY <1>1, <1>2

LEMMA BothInv ==
    ASSUME Torn # "header"
    PROVE  Spec => [](TypeInv /\ SafeInv)
<1>1. Init => TypeInv /\ SafeInv
  BY InitType, InitSafe
<1>2. TypeInv /\ SafeInv /\ [Next]_vars => (TypeInv /\ SafeInv)'
  BY NextType, NextSafe
<1> QED
  BY <1>1, <1>2, PTL DEF Spec

(* Unless a cut write leaves a whole header behind, no node is written     *)
(* where another one is (block.c's allocation from write_offset): for any  *)
(* factory image, sizes and number of blocks, whenever the power fails.    *)
THEOREM WritesApart ==
    ASSUME Torn # "header"
    PROVE  Spec => []NodesApart
<1>1. TypeInv /\ SafeInv => NodesApart
  BY DEF SafeInv, FlashSafe, RamSafe, NodesApart
<1> QED
  BY <1>1, BothInv, PTL

(* Under the same assumption, block->count and the 16-bit block->kv_size   *)
(* equal what a new scan of the block would find, however many nodes were  *)
(* written, moved and removed since the last one.                          *)
THEOREM CountersExact ==
    ASSUME Torn # "header"
    PROVE  Spec => []CountersMatch
<1>1. TypeInv /\ SafeInv => CountersMatch
  BY DEF SafeInv, RamSafe, CountersMatch
<1> QED
  BY <1>1, BothInv, PTL

-----------------------------------------------------------------------------
(* Erasing.  A block is erased when count - ro_count says that its last    *)
(* node is going.  This needs ro_count as well, which is exact for good    *)
(* only where there is nothing to count: without a factory image.          *)
RwInv ==
    /\ \A n \in nodes : Rw(n)
    /\ op.pc # "off" => \A b \in Block : roc[b] = 0

OneErased == \A m, n \in nodes \ nodes' : m = n

LEMMA KvnodeRmOne ==
    ASSUME FlashOK, RamSafe, RwInv, op.pc # "off", NEW n \in nodes, KvnodeRm(n)
    PROVE  nodes' \subseteq nodes /\ roc' = roc /\ OneErased
<1>1. n.blk \in Block /\ Rw(n) /\ roc[n.blk] = 0
  BY NodeFields DEF FlashOK, FlashType, RwInv
<1>2. CASE MarkErased(n)
  BY <1>2 DEF MarkErased, OneErased
<1>3. CASE EraseBlock(n.blk) /\ ~(cnt[n.blk] - roc[n.blk] > 1)
  <2>1. cnt[n.blk] \in Nat /\ cnt[n.blk] = Cardinality(NodesIn(n.blk))
    BY <1>1 DEF FlashOK, FlashType, RamSafe
  <2>2. Cardinality(NodesIn(n.blk)) <= 1
    BY <1>1, <1>3, <2>1
  <2>3. IsFiniteSet(NodesIn(n.blk)) /\ n \in NodesIn(n.blk)
    BY FS_Subset DEF NodesIn, FlashOK, FlashType
  <2>4. NodesIn(n.blk) = {n}
    <3>1. IsFiniteSet({n}) /\ Cardinality({n}) = 1
      BY FS_Singleton
    <3>2. {n} \in SUBSET NodesIn(n.blk)
      BY <2>3
    <3>3. Cardinality({n}) <= Cardinality(NodesIn(n.blk))
      BY <2>3, <3>2, FS_Subset
    <3>4. Cardinality(NodesIn(n.blk)) = 1
      BY <2>1, <2>2, <3>1, <3>3
    <3> QED
      BY <2>3, <3>2, <3>1, <3>4, FS_Subset
  <2> QED
    BY <1>3, <2>4 DEF EraseBlock, OneErased
<1> QED
  BY <1>1, <1>2, <1>3 DEF KvnodeRm

(* What a step can do to the nodes. *)
Kept    == nodes' = nodes /\ (op'.pc # "off" => op.pc # "off" /\ roc' = roc)
Added   == \E n : Rw(n) /\ nodes' = nodes \cup {n} /\ roc' = roc /\ op.pc # "off"
Removed == \E n \in nodes : KvnodeRm(n) /\ op.pc # "off"

LEMMA StepKinds ==
    ASSUME TypeInv, SafeInv, Torn # "header", [Next]_vars
    PROVE  Kept \/ Added \/ Removed \/ KvInit
<1>1. CASE UNCHANGED vars \/ Call
  BY <1>1 DEF vars, ram, flash, Call, KvSet, KvRm, KvReset, Kept
<1>2. CASE PowerFails
  BY <1>2 DEF PowerFails, PowerLoss, TryTorn, MoveTorn, WriteTorn, NoRam, Resting,
              flash, Kept
<1>3. ASSUME TryOk PROVE Added
  <2>1. FlashOK /\ FlashSafe /\ RamSafe /\ WriteVerified(Target)
    BY <1>3 DEF TryOk, TypeInv, SafeInv
  <2>2. Rw(Target) /\ nodes' = nodes \cup {Target}
    BY <1>3, <2>1, TargetType, TargetSafe, WriteVerifiedSafe DEF TryOk
  <2> QED
    BY <1>3, <2>1, <2>2 DEF Added, TryOk, WriteVerified
<1>4. ASSUME MoveOk PROVE Added
  <2>1. FlashOK /\ FlashSafe /\ RamSafe /\ WriteVerified(Copy)
    BY <1>4 DEF MoveOk, TypeInv, SafeInv
  <2>2. Rw(Copy) /\ nodes' = nodes \cup {Copy}
    BY <1>4, <2>1, CopyType, CopySafe, WriteVerifiedSafe DEF MoveOk
  <2> QED
    BY <1>4, <2>1, <2>2 DEF Added, MoveOk, WriteVerified
<1>5. CASE TryRejected \/ TrySkip \/ MoveFailed
  BY <1>5 DEF TryRejected, TrySkip, MoveFailed, WriteRejected, flash, Kept
<1>6. CASE RmOld \/ RmFound
  BY <1>6 DEF RmOld, RmFound, SafeInv, Removed
<1>7. CASE RmMoved
  BY <1>7, MovedType DEF RmMoved, TypeInv, Removed
<1>8. CASE \/ \E m, n \in nodes : KvVerify(m, n)
           \/ \E n \in nodes : ResetNode(n)
  BY <1>8 DEF KvVerify, ResetNode, Removed
<1>9. CASE \/ GcPick \/ GcEnd \/ GcWild \/ MoveEnd
           \/ KvVerified \/ ResetEnd \/ KvReturn
  BY <1>9 DEF GcPick, GcEnd, GcWild, MoveEnd, KvVerified, ResetEnd, KvReturn,
              ram, flash, Kept
<1> QED
  BY <1>1, <1>2, <1>3, <1>4, <1>5, <1>6, <1>7, <1>8, <1>9
     DEF Next, Work, SetStep, GcStep, OtherStep

LEMMA NextRw ==
    ASSUME TypeInv, SafeInv, RwInv, Torn # "header", [Next]_vars
    PROVE  RwInv' /\ OneErased
<1>1. CASE Kept
  BY <1>1 DEF Kept, RwInv, OneErased, Rw
<1>2. CASE Added
  BY <1>2 DEF Added, RwInv, OneErased, Rw
<1>3. CASE Removed
  <2>1. PICK n \in nodes : KvnodeRm(n) /\ op.pc # "off"
    BY <1>3 DEF Removed
  <2>2. nodes' \subseteq nodes /\ roc' = roc /\ OneErased
    BY <2>1, KvnodeRmOne DEF TypeInv, SafeInv
  <2> QED
    BY <2>1, <2>2 DEF RwInv, Rw
<1>4. CASE KvInit
  <2>1. nodes' = nodes
    BY <1>4 DEF KvInit
  <2>2. ASSUME NEW b \in Block PROVE roc'[b] = 0
    <3>1. roc'[b] = Cardinality({n \in NodesIn(b) : ~Rw(n)})
      BY <1>4 DEF KvInit
    <3>2. {n \in NodesIn(b) : ~Rw(n)} = {}
      BY DEF RwInv, NodesIn
    <3> QED
      BY <3>1, <3>2, FS_EmptySet
  <2> QED
    BY <2>1, <2>2 DEF RwInv, OneErased, Rw
<1> QED
  BY <1>1, <1>2, <1>3, <1>4, StepKinds

(* Without a factory image, erasing a block never takes a second node      *)
(* along: count, by which kvnode_rm decides, is exact whenever it does.    *)
THEOREM ErasesOne ==
    ASSUME Factory = {}, Torn # "header"
    PROVE  Spec => EraseTakesOne
<1>1. Init => RwInv
  BY DEF Init, Resting, RwInv
<1>2. TypeInv /\ SafeInv /\ RwInv /\ [Next]_vars => RwInv' /\ [OneErased]_vars
  BY NextRw
<1>3. [OneErased]_vars <=> [\A m, n \in nodes \ nodes' : m = n]_vars
  BY DEF OneErased
<1> QED
  BY <1>1, <1>2, <1>3, BothInv, PTL DEF Spec, EraseTakesOne
-----------------------------------------------------------------------------
(***************************************************************************)
(* One key.  Without a factory image a key has no copy, one, or two of     *)
(* which one is of the next version; the value is that of the newest.      *)
(***************************************************************************)
Single(k)     == \A m, n \in Copies(k) : m = n
Pair(k, m, n) == Copies(k) = {m, n} /\ n.ver = NextVer(m.ver)
Holds(k, x)   == Copies(k) = IF x = NULL THEN {} ELSE {x}

(* The value a call that has looked its key up has found. *)
Was == IF op.old = NULL THEN NULL ELSE op.old.val

(* Which keys have two copies is decided by what is going on; what a call  *)
(* has found is what the flash still holds; a call that is about to return *)
(* tells the truth. *)
KeyInv ==
    /\ \A k \in Key : Single(k) \/ \E m, n : Pair(k, m, n)
    /\ op.pc \notin {"off", "verify", "rmold", "moved"} => \A k \in Key : Single(k)
    /\ op.pc = "rmold" =>
         /\ \A k \in Key \ {op.key} : Single(k)
         /\ \E n : Pair(op.key, op.old, n) /\ n.val = op.val
    /\ op.pc = "moved" =>
         /\ \A k \in Key \ {Moved.key} : Single(k)
         /\ \E n : Pair(Moved.key, Moved, n) /\ n.val = Moved.val
    /\ op.pc = "try" =>
         /\ Holds(op.key, op.old)
         /\ op.old # NULL => op.ver = NextVer(op.old.ver)
    /\ op.pc = "rm" => Holds(op.key, op.old)
    /\ op.pc \in {"gc", "move", "moved", "wild"} => Value(op.key) = Was
    /\ op.pc = "return" /\ op.call = "set" =>
         Value(op.key) = IF op.ok THEN op.val ELSE Was
    /\ op.pc = "return" /\ op.call = "rm" =>
         Value(op.key) = NULL /\ (op.ok <=> Was # NULL)
    /\ op.pc = "return" /\ op.call = "reset" => op.ok /\ nodes = {}

Before == TypeInv /\ SafeInv /\ RwInv /\ KeyInv

(* Versions go round, and the successor of one is never older. *)
LEMMA Versions ==
    ASSUME NEW m \in Node, NEW n \in Node, Rw(m), n.ver = NextVer(m.ver)
    PROVE  /\ m # n /\ m.ver # NextVer(n.ver) /\ n.ver # NextVer(n.ver) /\ m.ver # NextVer(m.ver)
           /\ Older(m, n) /\ ~Older(n, m) /\ ~Older(m, m) /\ ~Older(n, n)
<1>1. m.ver \in 1..MaxVer /\ MaxVer \in Nat /\ MaxVer >= 3
  BY NodeFields, Numbers DEF Rw
<1>2. n.ver \in 1..MaxVer /\ n.ver = IF m.ver = MaxVer THEN 1 ELSE m.ver + 1
  BY <1>1 DEF NextVer
<1>3. NextVer(n.ver) = IF n.ver = MaxVer THEN 1 ELSE n.ver + 1
  BY DEF NextVer
<1>4. m.ver # n.ver
  BY <1>1, <1>2
<1>5. m.ver # NextVer(n.ver) /\ n.ver # NextVer(n.ver)
  BY <1>1, <1>2, <1>3
<1>6. Older(m, n)
  BY <1>1, <1>2 DEF Older
<1>7. ~Older(n, m)
  BY <1>1, <1>2 DEF Older
<1>8. ~Older(m, m) /\ ~Older(n, n)
  BY <1>1, <1>2 DEF Older
<1> QED
  BY <1>4, <1>5, <1>6, <1>7, <1>8

LEMMA CopyTyped ==
    ASSUME FlashOK, NEW k, NEW n \in Copies(k)
    PROVE  n \in nodes /\ n \in Node /\ n.key = k /\ Rw(n) /\ n.ver # NextVer(n.ver) /\ n.val # NULL
<1>1. n \in nodes /\ n \in Node /\ n.key = k /\ Rw(n)
  BY DEF Copies, FlashOK, FlashType
<1>2. n.ver # NextVer(n.ver)
  BY <1>1, NodeFields, Numbers DEF NextVer, Rw
<1>3. n.val # NULL
  BY <1>1, NodeFields, Numbers
<1> QED
  BY <1>1, <1>2, <1>3

LEMMA ValueOf ==
    ASSUME FlashOK, RwInv, NEW k
    PROVE  /\ Copies(k) = {} => Value(k) = NULL
           /\ \A n : Copies(k) = {n} => Value(k) = n.val
           /\ \A m, n : Pair(k, m, n) => Value(k) = n.val
<1> DEFINE newest == {n \in Copies(k) : \A m \in Copies(k) : m.ver # NextVer(n.ver)}
           fixed  == {n \in nodes : n.key = k /\ ~Rw(n)}
<1>1. fixed = {}
  BY DEF RwInv
<1>2. Value(k) = IF newest # {} THEN (CHOOSE n \in newest : TRUE).val ELSE NULL
  BY <1>1 DEF Value
<1>3. Copies(k) = {} => newest = {}
  OBVIOUS
<1>4. ASSUME NEW n, Copies(k) = {n} PROVE newest = {n}
  BY <1>4, CopyTyped
<1>5. ASSUME NEW m, NEW n, Pair(k, m, n) PROVE newest = {n}
  <2>1. m \in Copies(k) /\ n \in Copies(k) /\ Copies(k) = {m, n} /\ n.ver = NextVer(m.ver)
    BY <1>5 DEF Pair
  <2>2. m.ver # NextVer(n.ver) /\ n.ver # NextVer(n.ver)
    BY <2>1, CopyTyped, Versions
  <2> QED
    BY <2>1, <2>2
<1>6. \A n : newest = {n} => Value(k) = n.val
  BY <1>2
<1> QED
  BY <1>2, <1>3, <1>4, <1>5, <1>6

LEMMA FoundHolds ==
    ASSUME FlashOK, RwInv, NEW k, Single(k)
    PROVE  /\ Holds(k, Found(k))
           /\ Value(k) = IF Found(k) = NULL THEN NULL ELSE Found(k).val
<1>1. {n \in nodes : n.key = k} = Copies(k)
  BY DEF RwInv, Copies
<1>2. NULL \notin Copies(k)
  BY CopyTyped, Numbers
<1>3. CASE Copies(k) = {}
  <2>1. Found(k) = NULL
    BY <1>1, <1>3 DEF Found
  <2> QED
    BY <1>3, <2>1, ValueOf DEF Holds
<1>4. CASE Copies(k) # {}
  <2>1. Found(k) \in Copies(k)
    BY <1>4 DEF Found
  <2>2. Copies(k) = {Found(k)} /\ Found(k) # NULL
    BY <1>2, <2>1 DEF Single
  <2> QED
    BY <2>2, ValueOf DEF Holds
<1> QED
  BY <1>3, <1>4

(* What holds a key, and its value. *)
LEMMA HoldsValue ==
    ASSUME FlashOK, RwInv, NEW k, NEW x, Holds(k, x)
    PROVE  Value(k) = (IF x = NULL THEN NULL ELSE x.val) /\ Single(k)
  BY ValueOf DEF Holds, Single

LEMMA SingleNone ==
    ASSUME FlashOK, RwInv, NEW k, Single(k), Value(k) = NULL
    PROVE  Copies(k) = {}
<1> SUFFICES ASSUME NEW n \in Copies(k) PROVE FALSE
  OBVIOUS
<1>1. Copies(k) = {n}
  BY DEF Single
<1>2. Value(k) = n.val /\ n.val # NULL
  BY <1>1, ValueOf, CopyTyped
<1> QED
  BY <1>2

(* Nodes that stay keep every key as it is. *)
LEMMA NodesSame ==
    ASSUME nodes' = nodes
    PROVE  /\ \A k : Copies(k)' = Copies(k) /\ Value(k)' = Value(k)
           /\ \A k : (Single(k)' <=> Single(k)) /\ \A m, n : Pair(k, m, n)' <=> Pair(k, m, n)
  BY DEF Copies, Value, Single, Pair

(* Value(k) by what it depends on. *)
Fixed(k) == {n \in nodes : n.key = k /\ ~Rw(n)}
ValueFrom(C, F) ==
    LET newest == {n \in C : \A m \in C : m.ver # NextVer(n.ver)}
    IN  IF newest # {} THEN (CHOOSE n \in newest : TRUE).val
        ELSE IF F # {} THEN (CHOOSE n \in F : TRUE).val
        ELSE NULL

LEMMA ValueDepends ==
    ASSUME NEW k, Copies(k)' = Copies(k), Fixed(k)' = Fixed(k)
    PROVE  Value(k)' = Value(k)
<1>1. Value(k) = ValueFrom(Copies(k), Fixed(k))
  BY DEF Value, ValueFrom, Fixed
<1>2. Value(k)' = ValueFrom(Copies(k)', Fixed(k)')
  BY DEF Value, ValueFrom, Fixed
<1> QED
  BY <1>1, <1>2

(* A key that a step does not concern. *)
Untouched(k) ==
    /\ Copies(k)' = Copies(k) /\ Value(k)' = Value(k)
    /\ Single(k)' <=> Single(k)
    /\ \A m, n : Pair(k, m, n)' <=> Pair(k, m, n)

(* A node is written, or is taken away. *)
LEMMA NodeAdded ==
    ASSUME NEW x, Rw(x), nodes' = nodes \cup {x}
    PROVE  /\ \A k : k # x.key => Untouched(k)
           /\ Copies(x.key)' = Copies(x.key) \cup {x}
<1>1. \A k : Copies(k)' = Copies(k) \cup {n \in {x} : n.key = k}
  BY DEF Copies, Rw
<1>2. \A k : k # x.key => Copies(k)' = Copies(k)
  BY <1>1
<1>3. Copies(x.key)' = Copies(x.key) \cup {x}
  BY DEF Copies, Rw
<1>4. \A k : k # x.key => {n \in nodes' : n.key = k /\ ~Rw(n)} = {n \in nodes : n.key = k /\ ~Rw(n)}
  OBVIOUS
<1>5. ASSUME NEW k, k # x.key PROVE Value(k)' = Value(k)
  <2>1. Copies(k)' = Copies(k) /\ Fixed(k)' = Fixed(k)
    BY <1>5, <1>2, <1>4 DEF Fixed, Rw
  <2> QED
    BY <2>1, ValueDepends
<1> QED
  BY <1>2, <1>3, <1>5 DEF Untouched, Single, Pair

LEMMA NodeRemoved ==
    ASSUME NEW x, Rw(x), nodes' = nodes \ {x}
    PROVE  /\ \A k : k # x.key => Untouched(k)
           /\ Copies(x.key)' = Copies(x.key) \ {x}
<1>1. \A k : k # x.key => Copies(k)' = Copies(k)
  BY DEF Copies, Rw
<1>2. Copies(x.key)' = Copies(x.key) \ {x}
  BY DEF Copies, Rw
<1>3. \A k : k # x.key => {n \in nodes' : n.key = k /\ ~Rw(n)} = {n \in nodes : n.key = k /\ ~Rw(n)}
  OBVIOUS
<1>4. ASSUME NEW k, k # x.key PROVE Value(k)' = Value(k)
  <2>1. Copies(k)' = Copies(k) /\ Fixed(k)' = Fixed(k)
    BY <1>4, <1>1, <1>3 DEF Fixed, Rw
  <2> QED
    BY <2>1, ValueDepends
<1> QED
  BY <1>1, <1>2, <1>4 DEF Untouched, Single, Pair

(* kvnode_rm takes its node away, and no other. *)
LEMMA KvnodeRmExact ==
    ASSUME FlashOK, RamSafe, RwInv, op.pc # "off", NEW n \in nodes, KvnodeRm(n)
    PROVE  Rw(n) /\ nodes' = nodes \ {n}
<1>1. Rw(n)
  BY DEF RwInv
<1>2. nodes' \subseteq nodes /\ OneErased
  BY KvnodeRmOne
<1>3. n \notin nodes'
  BY <1>1 DEF KvnodeRm, MarkErased, EraseBlock, NodesIn
<1> QED
  BY <1>1, <1>2, <1>3 DEF OneErased

-----------------------------------------------------------------------------
(***************************************************************************)
(* What a step looks like to KvSpec.                                       *)
(***************************************************************************)
Store == [k \in Key |-> Value(k)]
Req ==
    IF op.pc \in {"off", "verify"} THEN [call |-> "off"]
    ELSE IF op.pc = "idle" THEN [call |-> "none"]
    ELSE IF op.call = "reset" THEN [call |-> "reset"]
    ELSE LET was == IF op.old = NULL THEN NULL ELSE op.old.val
         IN  IF op.call = "set"
             THEN [call |-> "set", key |-> op.key, val |-> op.val, was |-> was]
             ELSE [call |-> "rm", key |-> op.key, was |-> was]

SetReq(k, v, w) == [call |-> "set", key |-> k, val |-> v, was |-> w]
RmReq(k, w)     == [call |-> "rm", key |-> k, was |-> w]

Mapped == [Promise!Next]_<<Store, Req>>

SameStore == \A k \in Key : Value(k)' = Value(k)

LEMMA StoreKept == ASSUME SameStore PROVE Store' = Store
  BY DEF SameStore, Store

LEMMA ReqAt ==
    /\ op.pc \in {"off", "verify"} => Req = [call |-> "off"]
    /\ op.pc = "idle" => Req = [call |-> "none"]
    /\ op.pc \notin {"off", "verify", "idle"} /\ op.call = "reset" => Req = [call |-> "reset"]
    /\ op.pc \notin {"off", "verify", "idle"} /\ op.call = "set" => Req = SetReq(op.key, op.val, Was)
    /\ op.pc \notin {"off", "verify", "idle"} /\ op.call = "rm" => Req = RmReq(op.key, Was)
  BY DEF Req, SetReq, RmReq, Was

LEMMA ReqNext ==
    (/\ op.pc \in {"off", "verify"} => Req = [call |-> "off"]
     /\ op.pc = "idle" => Req = [call |-> "none"]
     /\ op.pc \notin {"off", "verify", "idle"} /\ op.call = "reset" => Req = [call |-> "reset"]
     /\ op.pc \notin {"off", "verify", "idle"} /\ op.call = "set" => Req = SetReq(op.key, op.val, Was)
     /\ op.pc \notin {"off", "verify", "idle"} /\ op.call = "rm" => Req = RmReq(op.key, Was))'
  BY ReqAt, PTL

LEMMA MapStutter == ASSUME SameStore, Req' = Req PROVE Mapped
  BY StoreKept DEF Mapped

LEMMA MapOff == ASSUME SameStore, Req' = [call |-> "off"] PROVE Mapped
<1>1. Promise!PowerLoss
  BY StoreKept DEF Promise!PowerLoss, Promise!Off, Store, Req
<1> QED
  BY <1>1 DEF Mapped, Promise!Next

LEMMA MapOn == ASSUME SameStore, Req = [call |-> "off"], Req' = [call |-> "none"] PROVE Mapped
<1>1. Promise!PowerOn
  BY StoreKept DEF Promise!PowerOn, Promise!Off, Promise!Idle, Store, Req
<1> QED
  BY <1>1 DEF Mapped, Promise!Next

LEMMA MapSet ==
    ASSUME SameStore, Req = [call |-> "none"], NEW k \in Key, NEW v \in Val,
           Req' = SetReq(k, v, Value(k))
    PROVE  Mapped
<1>1. Store[k] = Value(k)
  BY DEF Store
<1>2. Promise!CallSet(k, v)
  BY <1>1, StoreKept DEF Promise!CallSet, Promise!Idle, Store, Req, SetReq
<1> QED
  BY <1>2 DEF Mapped, Promise!Next

LEMMA MapRm ==
    ASSUME SameStore, Req = [call |-> "none"], NEW k \in Key, Req' = RmReq(k, Value(k))
    PROVE  Mapped
<1>1. Store[k] = Value(k)
  BY DEF Store
<1>2. Promise!CallRm(k)
  BY <1>1, StoreKept DEF Promise!CallRm, Promise!Idle, Store, Req, RmReq
<1> QED
  BY <1>2 DEF Mapped, Promise!Next

LEMMA MapReset ==
    ASSUME SameStore, Req = [call |-> "none"], Req' = [call |-> "reset"]
    PROVE  Mapped
<1>1. Promise!CallReset
  BY StoreKept DEF Promise!CallReset, Promise!Idle, Store, Req
<1> QED
  BY <1>1 DEF Mapped, Promise!Next

(* The moment a call takes effect. *)
LEMMA StoreChanged ==
    ASSUME NEW k \in Key, \A j \in Key \ {k} : Value(j)' = Value(j)
    PROVE  Store' = [Store EXCEPT ![k] = Value(k)']
  BY DEF Store

LEMMA NoDefault == ASSUME Factory = {}, NEW k PROVE FactoryValue(k) = NULL
  BY DEF FactoryValue

LEMMA MapSetEffect ==
    ASSUME NEW k \in Key, NEW v, NEW w, Req = SetReq(k, v, w), Req' = Req,
           Value(k)' = v, \A j \in Key \ {k} : Value(j)' = Value(j)
    PROVE  Mapped
<1>1. Store' = [Store EXCEPT ![k] = v]
  BY StoreChanged
<1>2. Req.call = "set" /\ Req.key = k /\ Req.val = v
  BY DEF SetReq
<1>3. Promise!Effect
  BY <1>1, <1>2 DEF Promise!Effect, Store, Req
<1> QED
  BY <1>3 DEF Mapped, Promise!Next

LEMMA MapRmEffect ==
    ASSUME Factory = {}, NEW k \in Key, NEW w, Req = RmReq(k, w), Req' = Req,
           Value(k)' = NULL, \A j \in Key \ {k} : Value(j)' = Value(j)
    PROVE  Mapped
<1>1. Store' = [Store EXCEPT ![k] = NULL]
  BY StoreChanged
<1>2. Req.call = "rm" /\ Req.key = k
  BY DEF RmReq
<1>3. [j \in Key |-> FactoryValue(j)][k] = NULL
  BY NoDefault
<1>4. Promise!Effect
  BY <1>1, <1>2, <1>3 DEF Promise!Effect, Store, Req
<1> QED
  BY <1>4 DEF Mapped, Promise!Next

LEMMA MapResetEffect ==
    ASSUME Factory = {}, NEW k \in Key, Req = [call |-> "reset"], Req' = Req,
           Value(k)' = NULL, \A j \in Key \ {k} : Value(j)' = Value(j)
    PROVE  Mapped
<1>1. Store' = [Store EXCEPT ![k] = NULL]
  BY StoreChanged
<1>2. Req.call = "reset"
  OBVIOUS
<1>3. [j \in Key |-> FactoryValue(j)][k] = NULL
  BY NoDefault
<1>4. Promise!Effect
  BY <1>1, <1>2, <1>3 DEF Promise!Effect, Store, Req
<1> QED
  BY <1>4 DEF Mapped, Promise!Next

(* A call returns. *)
LEMMA MapSetReturn ==
    ASSUME SameStore, NEW k \in Key, NEW v, NEW w, Req = SetReq(k, v, w),
           NEW ok \in BOOLEAN, Value(k) = IF ok THEN v ELSE w, Req' = [call |-> "none"]
    PROVE  Mapped
<1>1. Req.call = "set" /\ Req.key = k /\ Req.val = v /\ Req.was = w
  BY DEF SetReq
<1>2. Store[k] = Value(k)
  BY DEF Store
<1>3. Promise!Return(ok)
  BY <1>1, <1>2, StoreKept DEF Promise!Return, Promise!Idle, Store, Req
<1> QED
  BY <1>3 DEF Mapped, Promise!Next

LEMMA MapRmReturn ==
    ASSUME Factory = {}, SameStore, NEW k \in Key, NEW w, Req = RmReq(k, w),
           NEW ok \in BOOLEAN, Value(k) = NULL, ok <=> w # NULL, Req' = [call |-> "none"]
    PROVE  Mapped
<1>1. Req.call = "rm" /\ Req.key = k /\ Req.was = w
  BY DEF RmReq
<1>2. Store[k] = NULL /\ [j \in Key |-> FactoryValue(j)][k] = NULL
  BY NoDefault DEF Store
<1>3. Promise!Return(ok)
  BY <1>1, <1>2, StoreKept DEF Promise!Return, Promise!Idle, Store, Req
<1> QED
  BY <1>3 DEF Mapped, Promise!Next

LEMMA MapResetReturn ==
    ASSUME Factory = {}, SameStore, Req = [call |-> "reset"],
           \A k \in Key : Value(k) = NULL, Req' = [call |-> "none"]
    PROVE  Mapped
<1>1. Req.call = "reset"
  OBVIOUS
<1>2. Store = [j \in Key |-> FactoryValue(j)]
  BY NoDefault DEF Store
<1>3. Promise!Return(TRUE)
  BY <1>1, <1>2, StoreKept DEF Promise!Return, Promise!Idle, Store, Req
<1> QED
  BY <1>3 DEF Mapped, Promise!Next

-----------------------------------------------------------------------------
(* Each action keeps KeyInv, and is a step of KvSpec or none. *)
Chains == \A k \in Key : Single(k) \/ \E m, n : Pair(k, m, n)

LEMMA SameNodes ==
    ASSUME KeyInv, nodes' = nodes
    PROVE  /\ SameStore /\ Chains'
           /\ \A k : (Single(k)' <=> Single(k)) /\ Copies(k)' = Copies(k) /\ Value(k)' = Value(k)
           /\ \A k, m, n : Pair(k, m, n)' <=> Pair(k, m, n)
  BY NodesSame DEF KeyInv, Chains, SameStore

LEMMA OpReturn ==
    ASSUME op \in OpType, op.pc = "return"
    PROVE  /\ op.call \in {"set", "rm", "reset"} /\ op.ok \in BOOLEAN
           /\ op.call = "set" => op.key \in Key /\ op.val \in Val
           /\ op.call = "rm" => op.key \in Key
  BY DEF OpType, RestOp, TryOp, GcOp, MoveOp, FullOp, RmOp, ResetOp

ValueSays ==
    \A k : /\ Copies(k) = {} => Value(k) = NULL /\ Single(k)
           /\ \A n : Copies(k) = {n} => Value(k) = n.val /\ Single(k)
           /\ \A m, n : Pair(k, m, n) => Value(k) = n.val

LEMMA ValueAll == FlashOK /\ RwInv => ValueSays
<1> SUFFICES ASSUME FlashOK, RwInv, NEW k
             PROVE  /\ Copies(k) = {} => Value(k) = NULL /\ Single(k)
                    /\ \A n : Copies(k) = {n} => Value(k) = n.val /\ Single(k)
                    /\ \A m, n : Pair(k, m, n) => Value(k) = n.val
  BY DEF ValueSays
<1>1. Copies(k) = {} => Single(k)
  BY DEF Single
<1>2. \A n : Copies(k) = {n} => Single(k)
  BY DEF Single
<1> QED
  BY <1>1, <1>2, ValueOf

LEMMA ValueSaysNext == (FlashOK /\ RwInv => ValueSays)'
  BY ValueAll, PTL

LEMMA ValueNext ==
    ASSUME FlashOK', RwInv', NEW k
    PROVE  /\ Copies(k)' = {} => Value(k)' = NULL /\ Single(k)'
           /\ \A n : Copies(k)' = {n} => Value(k)' = n.val /\ Single(k)'
           /\ \A m, n : Pair(k, m, n)' => Value(k)' = n.val
<1>1. ValueSays'
  BY ValueSaysNext
<1>2. Copies(k)' = {} => Value(k)' = NULL /\ Single(k)'
  BY <1>1 DEF ValueSays
<1>3. \A n : Copies(k)' = {n} => Value(k)' = n.val /\ Single(k)'
  BY <1>1 DEF ValueSays
<1>4. \A m, n : Pair(k, m, n)' => Value(k)' = n.val
  BY <1>1 DEF ValueSays
<1> QED
  BY <1>2, <1>3, <1>4

(* The power fails, or comes back. *)
LEMMA OffMapped ==
    ASSUME KeyInv, nodes' = nodes, op'.pc = "off"
    PROVE  KeyInv' /\ Mapped
<1>1. SameStore /\ Chains'
  BY SameNodes
<1>2. KeyInv'
  BY <1>1 DEF KeyInv, Chains
<1>3. Req' = [call |-> "off"]
  BY ReqNext
<1> QED
  BY <1>1, <1>2, <1>3, MapOff

LEMMA PowerFailsMapped == ASSUME KeyInv, PowerFails PROVE KeyInv' /\ Mapped
<1>1. nodes' = nodes /\ op'.pc = "off"
  BY DEF PowerFails, PowerLoss, TryTorn, MoveTorn, WriteTorn, NoRam, Resting, flash
<1> QED
  BY <1>1, OffMapped

LEMMA KvInitMapped == ASSUME KeyInv, KvInit PROVE KeyInv' /\ Mapped
<1>1. nodes' = nodes /\ op.pc = "off" /\ op'.pc = "verify"
  BY DEF KvInit, Resting
<1>2. SameStore /\ Chains'
  BY <1>1, SameNodes
<1>3. KeyInv'
  BY <1>1, <1>2 DEF KeyInv, Chains
<1>4. Req' = Req
  BY <1>1, ReqAt, ReqNext
<1> QED
  BY <1>2, <1>3, <1>4, MapStutter

LEMMA KvVerifyMapped ==
    ASSUME Before, FlashOK', RwInv', NEW m \in nodes, NEW n \in nodes, KvVerify(m, n)
    PROVE  KeyInv' /\ Mapped
<1> DEFINE k == m.key
<1>1. /\ op.pc = "verify" /\ op' = op /\ m.key = n.key /\ Rw(m) /\ Older(m, n) /\ KvnodeRm(m)
  BY DEF KvVerify
<1>2. FlashOK /\ RamSafe /\ RwInv /\ Chains
  BY <1>1 DEF Before, TypeInv, SafeInv, KeyInv, Chains
<1>3. nodes' = nodes \ {m} /\ Rw(n)
  BY <1>1, <1>2, KvnodeRmExact DEF RwInv
<1>4. m \in Node /\ n \in Node /\ k \in Key /\ m \in Copies(k) /\ n \in Copies(k)
  BY <1>1, <1>2, <1>3, NodeFields DEF FlashOK, FlashType, Copies
<1>5. m # n
  BY <1>1, <1>4, NodeFields, Numbers DEF Older
<1>6. Pair(k, m, n)
  <2>1. PICK a, b : Pair(k, a, b)
    BY <1>2, <1>4, <1>5 DEF Chains, Single
  <2>2. a \in Copies(k) /\ b \in Copies(k) /\ Copies(k) = {a, b} /\ b.ver = NextVer(a.ver)
    BY <2>1 DEF Pair
  <2>3. ~Older(b, a) /\ a # b
    BY <1>2, <2>2, CopyTyped, Versions
  <2> QED
    BY <1>1, <1>4, <1>5, <2>1, <2>2, <2>3
<1>7. Copies(k) = {m, n} /\ Value(k) = n.val
  BY <1>2, <1>6, ValueOf DEF Pair
<1> HIDE DEF k
<1>8. k = m.key
  BY DEF k
<1>9. \A j : j # m.key => Untouched(j)
  BY <1>1, <1>3, NodeRemoved
<1>10. Copies(m.key)' = {n}
  <2>1. Copies(m.key)' = Copies(m.key) \ {m}
    BY <1>1, <1>3, NodeRemoved
  <2> QED
    BY <1>5, <1>7, <1>8, <2>1
<1>11. Single(m.key)' /\ Value(m.key)' = n.val
  BY <1>10, ValueNext
<1>12. SameStore
  BY <1>7, <1>8, <1>9, <1>11 DEF SameStore, Untouched
<1>13. Chains'
  BY <1>2, <1>9, <1>11 DEF Chains, Untouched
<1>14. KeyInv'
  BY <1>1, <1>13 DEF KeyInv, Chains
<1>15. Req' = Req
  BY <1>1 DEF Req
<1> QED
  BY <1>12, <1>14, <1>15, MapStutter

LEMMA KvVerifiedMapped == ASSUME Before, KvVerified PROVE KeyInv' /\ Mapped
<1>1. /\ op.pc = "verify" /\ op'.pc = "idle" /\ nodes' = nodes
      /\ \A m, n \in nodes : m.key = n.key /\ Rw(m) => ~Older(m, n)
  BY DEF KvVerified, Resting, flash
<1>2. FlashOK /\ Chains
  BY DEF Before, TypeInv, KeyInv, Chains
<1>3. ASSUME NEW k \in Key PROVE Single(k)
  <2>1. ASSUME NEW m, NEW n, Pair(k, m, n) PROVE FALSE
    <3>1. m \in Copies(k) /\ n \in Copies(k) /\ n.ver = NextVer(m.ver)
      BY <2>1 DEF Pair
    <3>2. Older(m, n)
      BY <1>2, <3>1, CopyTyped, Versions
    <3> QED
      BY <1>1, <1>2, <3>1, <3>2, CopyTyped
  <2> QED
    BY <1>2, <2>1 DEF Chains
<1>4. SameStore /\ Chains' /\ \A k \in Key : Single(k)'
  BY <1>1, <1>3, SameNodes DEF Before
<1>5. KeyInv'
  BY <1>1, <1>4 DEF KeyInv, Chains
<1>6. Req = [call |-> "off"] /\ Req' = [call |-> "none"]
  BY <1>1, ReqAt, ReqNext
<1> QED
  BY <1>4, <1>5, <1>6, MapOn

(* A call begins. *)
LEMMA KvSetMapped ==
    ASSUME Before, NEW k \in Key, NEW v \in Val, KvSet(k, v)
    PROVE  KeyInv' /\ Mapped
<1>0. PICK n : n = Found(k)
  OBVIOUS
<1>1. op.pc = "idle" /\ op' = Lookup(k, v, FALSE) /\ nodes' = nodes
  BY DEF KvSet, flash
<1>2. FlashOK /\ RwInv /\ KeyInv /\ \A j \in Key : Single(j)
  BY <1>1 DEF Before, TypeInv, KeyInv
<1>3. Holds(k, n) /\ Value(k) = IF n = NULL THEN NULL ELSE n.val
  BY <1>0, <1>2, FoundHolds
<1>4. /\ op'.pc = (IF n # NULL /\ n.val = v THEN "return" ELSE "try")
      /\ op'.call = "set" /\ op'.key = k /\ op'.val = v /\ op'.old = n
      /\ op'.ver = (IF n = NULL THEN 1 ELSE NextVer(n.ver))
      /\ op'.ok = (n # NULL /\ n.val = v)
  BY <1>0, <1>1 DEF Lookup
<1>5. /\ SameStore /\ Chains' /\ \A j \in Key : Single(j)'
      /\ Copies(k)' = Copies(k) /\ Value(k)' = Value(k)
  BY <1>1, <1>2, SameNodes
<1>6. KeyInv'
  <2>1. Copies(k)' = IF n = NULL THEN {} ELSE {n}
    BY <1>3, <1>5 DEF Holds
  <2>2. Holds(op.key, op.old)'
    BY <1>4, <2>1 DEF Holds
  <2> QED
    BY <1>3, <1>4, <1>5, <2>2 DEF KeyInv, Chains
<1>7. Req = [call |-> "none"] /\ Req' = SetReq(k, v, Value(k))
  BY <1>1, <1>3, <1>4, ReqAt, ReqNext DEF Was
<1> QED
  BY <1>5, <1>6, <1>7, MapSet

LEMMA KvRmMapped ==
    ASSUME Before, NEW k \in Key, KvRm(k)
    PROVE  KeyInv' /\ Mapped
<1> DEFINE n == Found(k)
<1>1. /\ op.pc = "idle" /\ nodes' = nodes
      /\ op'.pc = (IF n = NULL THEN "return" ELSE "rm")
      /\ op'.call = "rm" /\ op'.key = k /\ op'.old = n /\ op'.ok = (n # NULL)
  BY DEF KvRm, flash
<1>2. FlashOK /\ RwInv /\ KeyInv /\ \A j \in Key : Single(j)
  BY <1>1 DEF Before, TypeInv, KeyInv
<1>3. Holds(k, n) /\ Value(k) = IF n = NULL THEN NULL ELSE n.val
  BY <1>2, FoundHolds
<1> HIDE DEF n
<1>4. /\ SameStore /\ Chains' /\ \A j \in Key : Single(j)'
      /\ Copies(k)' = Copies(k) /\ Value(k)' = Value(k)
  BY <1>1, <1>2, SameNodes
<1>5. KeyInv'
  BY <1>1, <1>3, <1>4 DEF KeyInv, Chains, Holds, Was
<1>6. Req = [call |-> "none"] /\ Req' = RmReq(k, Value(k))
  BY <1>1, <1>3, ReqAt, ReqNext DEF Was
<1> QED
  BY <1>4, <1>5, <1>6, MapRm

LEMMA KvResetMapped == ASSUME Before, KvReset PROVE KeyInv' /\ Mapped
<1>1. op.pc = "idle" /\ nodes' = nodes /\ op'.pc = "reset" /\ op'.call = "reset"
  BY DEF KvReset, flash
<1>2. KeyInv /\ \A j \in Key : Single(j)
  BY <1>1 DEF Before, KeyInv
<1>3. SameStore /\ Chains' /\ \A j \in Key : Single(j)'
  BY <1>1, <1>2, SameNodes
<1>4. KeyInv'
  BY <1>1, <1>3 DEF KeyInv, Chains
<1>5. Req = [call |-> "none"] /\ Req' = [call |-> "reset"]
  BY <1>1, ReqAt, ReqNext
<1> QED
  BY <1>3, <1>4, <1>5, MapReset

-----------------------------------------------------------------------------
(* kv_set writes. *)
Away == {"off", "verify", "idle"}

LEMMA SetReqKept ==
    ASSUME op.pc \notin Away, op'.pc \notin Away, op.call = "set", op'.call = "set",
           op'.key = op.key, op'.val = op.val, op'.old = op.old
    PROVE  Req' = Req
  BY DEF Req, Away

LEMMA SetReturns ==
    ASSUME op \in TryOp, NEW ok, Return(ok)
    PROVE  /\ op'.pc = "return" /\ op'.call = "set" /\ op'.ok = ok
           /\ op'.key = op.key /\ op'.val = op.val /\ op'.old = op.old
  BY DEF Return, TryOp

LEMMA TryFields ==
    ASSUME Before, op.pc = "try"
    PROVE  /\ op \in TryOp /\ op.call = "set" /\ op.key \in Key /\ op.val \in Val
           /\ Holds(op.key, op.old) /\ \A j \in Key : Single(j)
           /\ FlashOK /\ RwInv /\ KeyInv
<1>1. op \in TryOp
  BY OpAt DEF Before, TypeInv
<1>2. op.call = "set" /\ op.key \in Key /\ op.val \in Val
  BY <1>1 DEF TryOp
<1> QED
  BY <1>1, <1>2 DEF Before, TypeInv, KeyInv

LEMMA TryOkMapped ==
    ASSUME Before, FlashOK', RwInv', TryOk
    PROVE  KeyInv' /\ Mapped
<1>1. op.pc = "try" /\ Fits /\ WriteVerified(Target) /\ TypeInv /\ SafeInv
  BY DEF TryOk, Before
<1>2. /\ op \in TryOp /\ op.call = "set" /\ op.key \in Key /\ op.val \in Val
      /\ Holds(op.key, op.old) /\ \A j \in Key : Single(j)
      /\ FlashOK /\ RwInv /\ KeyInv
  BY <1>1, TryFields
<1>3. PICK k \in Key : k = op.key
  BY <1>2
<1>4. PICK x : x = Target
  OBVIOUS
<1>5. Rw(x) /\ nodes' = nodes \cup {x}
  <2>1. FlashSafe /\ RamSafe
    BY <1>1 DEF SafeInv
  <2> QED
    BY <1>1, <1>2, <1>4, <2>1, TargetType, TargetSafe, WriteVerifiedSafe
<1>6. x.key = k /\ x.val = op.val /\ x.ver = op.ver
  BY <1>3, <1>4 DEF Target, NewNode
<1>7. /\ \A j : j # k => Untouched(j)
      /\ Copies(k)' = Copies(k) \cup {x}
  BY <1>5, <1>6, NodeAdded
<1>8. Copies(k) = IF op.old = NULL THEN {} ELSE {op.old}
  BY <1>2, <1>3 DEF Holds
<1>9. \A j \in Key \ {k} : Value(j)' = Value(j) /\ Single(j)'
  BY <1>2, <1>7 DEF Untouched
<1>10. Req = SetReq(k, op.val, Was)
  BY <1>1, <1>2, <1>3, ReqAt
<1>11. CASE op.old = NULL
  <2>1. Copies(k)' = {x}
    BY <1>7, <1>8, <1>11
  <2>2. Single(k)' /\ Value(k)' = op.val
    BY <1>6, <2>1, ValueNext
  <2>3. /\ op'.pc = "return" /\ op'.call = "set" /\ op'.ok = TRUE
        /\ op'.key = k /\ op'.val = op.val /\ op'.old = op.old
    BY <1>2, <1>3, <1>11, SetReturns DEF TryOk
  <2>4. \A j \in Key : Single(j)'
    BY <1>9, <2>2
  <2>5. Value(op.key)' = op'.val
    BY <2>2, <2>3
  <2>6. KeyInv'
    BY <2>3, <2>4, <2>5 DEF KeyInv
  <2>7. Req' = Req
    BY <1>1, <1>2, <1>3, <2>3, SetReqKept DEF Away
  <2> QED
    BY <1>9, <1>10, <2>2, <2>6, <2>7, MapSetEffect
<1>12. CASE op.old # NULL
  <2>1. PICK m : m = op.old
    OBVIOUS
  <2>2. Copies(k)' = {m, x} /\ x.ver = NextVer(m.ver)
    BY <1>1, <1>2, <1>6, <1>7, <1>8, <1>12, <2>1 DEF KeyInv
  <2>3. Pair(k, m, x)'
    BY <2>2 DEF Pair
  <2>4. Value(k)' = op.val
    BY <1>6, <2>3, ValueNext
  <2>5. /\ op'.pc = "rmold" /\ op'.call = "set"
        /\ op'.key = k /\ op'.val = op.val /\ op'.old = m
    BY <1>2, <1>3, <1>12, <2>1 DEF TryOk, TryOp
  <2>6. \E n : Pair(op.key, op.old, n)' /\ n.val = op'.val
    BY <1>6, <2>2, <2>5 DEF Pair
  <2>7. KeyInv'
    BY <1>9, <2>3, <2>5, <2>6 DEF KeyInv
  <2>8. Req' = Req
    BY <1>1, <1>2, <1>3, <2>1, <2>5, SetReqKept DEF Away
  <2> QED
    BY <1>9, <1>10, <2>4, <2>7, <2>8, MapSetEffect
<1> QED
  BY <1>11, <1>12

(* The search for a block goes on, or ends in the garbage collection or    *)
(* in failure: the flash is as it was.                                     *)
LEMMA NextBlockMapped ==
    ASSUME Before, op.pc = "try", nodes' = nodes, NextBlock
    PROVE  KeyInv' /\ Mapped
<1>1. /\ op \in TryOp /\ op.call = "set" /\ op.key \in Key /\ op.val \in Val
      /\ Holds(op.key, op.old) /\ \A j \in Key : Single(j)
      /\ FlashOK /\ RwInv /\ KeyInv
  BY TryFields
<1>2. PICK k \in Key : k = op.key
  BY <1>1
<1>3. Value(k) = Was
  BY <1>1, <1>2, HoldsValue DEF Was
<1>4. /\ SameStore /\ Chains' /\ \A j \in Key : Single(j)'
      /\ Copies(k)' = Copies(k) /\ Value(k)' = Value(k)
  BY <1>1, SameNodes
<1>5. /\ op'.call = "set" /\ op'.key = k /\ op'.val = op.val /\ op'.old = op.old
      /\ \/ op'.pc = "try" /\ op'.ver = op.ver
         \/ op'.pc = "gc"
         \/ op'.pc = "return" /\ op'.ok = FALSE
  <2>1. CASE UNCHANGED op
    BY <1>1, <1>2, <2>1
  <2>2. CASE Return(FALSE)
    BY <1>1, <1>2, <2>2, SetReturns
  <2>3. CASE op' = [pc |-> "gc", call |-> "set", key |-> op.key, val |-> op.val,
                    old |-> op.old, ver |-> op.ver, newgc |-> NULL]
    BY <1>2, <2>3
  <2> QED
    BY <2>1, <2>2, <2>3 DEF NextBlock
<1>6. Value(op.key)' = Was'
  BY <1>3, <1>4, <1>5 DEF Was
<1>7. Holds(op.key, op.old)'
  BY <1>1, <1>2, <1>4, <1>5 DEF Holds
<1>8. op.old # NULL => op.ver = NextVer(op.old.ver)
  BY <1>1 DEF KeyInv
<1>9. KeyInv'
  BY <1>4, <1>5, <1>6, <1>7, <1>8 DEF KeyInv, Chains
<1>10. Req' = Req
  BY <1>1, <1>2, <1>5, SetReqKept DEF Away
<1> QED
  BY <1>4, <1>9, <1>10, MapStutter

LEMMA TryNextMapped == ASSUME Before, TryRejected \/ TrySkip PROVE KeyInv' /\ Mapped
<1>1. op.pc = "try" /\ nodes' = nodes /\ NextBlock
  BY DEF TryRejected, TrySkip, WriteRejected, flash
<1> QED
  BY <1>1, NextBlockMapped

LEMMA RmOldMapped ==
    ASSUME Before, FlashOK', RwInv', RmOld
    PROVE  KeyInv' /\ Mapped
<1>1. op.pc = "rmold" /\ KvnodeRm(op.old) /\ Return(TRUE) /\ op.old \in nodes
  BY DEF RmOld, Before, SafeInv
<1>2. op \in TryOp /\ FlashOK /\ RamSafe /\ RwInv /\ KeyInv
  BY <1>1, OpAt DEF Before, TypeInv, SafeInv
<1>3. op.call = "set" /\ op.key \in Key
  BY <1>2 DEF TryOp
<1>4. PICK k \in Key : k = op.key
  BY <1>3
<1>5. PICK m \in nodes : m = op.old
  BY <1>1
<1>6. PICK n : Pair(k, m, n) /\ n.val = op.val
  BY <1>1, <1>2, <1>4, <1>5 DEF KeyInv
<1>7. nodes' = nodes \ {m} /\ Rw(m)
  BY <1>1, <1>2, <1>5, KvnodeRmExact
<1>8. m \in Copies(k) /\ Copies(k) = {m, n} /\ n.ver = NextVer(m.ver) /\ n \in Copies(k)
  BY <1>6 DEF Pair
<1>9. m # n /\ m.key = k
  BY <1>2, <1>8, CopyTyped, Versions
<1>10. /\ \A j : j # k => Untouched(j)
       /\ Copies(k)' = {n}
  <2>1. (\A j : j # k => Untouched(j)) /\ Copies(k)' = Copies(k) \ {m}
    BY <1>7, <1>9, NodeRemoved
  <2> QED
    BY <1>8, <1>9, <2>1
<1>11. Value(k) = n.val /\ Value(k)' = n.val /\ Single(k)'
  BY <1>2, <1>6, <1>10, ValueOf, ValueNext
<1>12. /\ op'.pc = "return" /\ op'.call = "set" /\ op'.ok = TRUE
       /\ op'.key = k /\ op'.val = op.val /\ op'.old = op.old
  BY <1>1, <1>2, <1>4, SetReturns
<1>13. \A j \in Key : Single(j)'
  BY <1>1, <1>2, <1>4, <1>10, <1>11 DEF KeyInv, Untouched
<1>14. Value(op.key)' = op'.val
  BY <1>6, <1>11, <1>12
<1>15. KeyInv'
  BY <1>12, <1>13, <1>14 DEF KeyInv
<1>16. SameStore
  BY <1>10, <1>11 DEF SameStore, Untouched
<1>17. Req' = Req
  BY <1>1, <1>3, <1>4, <1>12, SetReqKept DEF Away
<1> QED
  BY <1>15, <1>16, <1>17, MapStutter

-----------------------------------------------------------------------------
(* The garbage collection. *)
LEMMA GcFields ==
    ASSUME Before, op.pc \in {"gc", "move", "moved"}
    PROVE  /\ op \in GcOp \cup MoveOp /\ (op.pc # "gc" => op \in MoveOp)
           /\ op.call = "set" /\ op.key \in Key /\ op.val \in Val
           /\ Value(op.key) = Was /\ FlashOK /\ RwInv /\ KeyInv
           /\ op.pc # "moved" => \A j \in Key : Single(j)
<1>1. (op.pc = "gc" => op \in GcOp) /\ (op.pc # "gc" => op \in MoveOp)
  BY OpAt DEF Before, TypeInv
<1>2. op.call = "set" /\ op.key \in Key /\ op.val \in Val
  BY <1>1 DEF GcOp, MoveOp
<1> QED
  BY <1>1, <1>2 DEF Before, TypeInv, KeyInv

(* The collection goes on, or gives up, with the flash as it is. *)
LEMMA GcQuiet ==
    ASSUME Before, op.pc \in {"gc", "move"}, nodes' = nodes,
           op'.call = "set", op'.key = op.key, op'.val = op.val, op'.old = op.old,
           \/ op'.pc \in {"gc", "move", "wild"}
           \/ op'.pc = "return" /\ op'.ok = FALSE
    PROVE  KeyInv' /\ Mapped
<1>1. /\ op.call = "set" /\ op.key \in Key /\ Value(op.key) = Was
      /\ KeyInv /\ \A j \in Key : Single(j)
  BY GcFields
<1>2. PICK k \in Key : k = op.key
  BY <1>1
<1>3. /\ SameStore /\ Chains' /\ \A j \in Key : Single(j)'
      /\ Value(k)' = Value(k)
  BY <1>1, SameNodes
<1>4. Value(op.key)' = Was'
  BY <1>1, <1>2, <1>3 DEF Was
<1>5. KeyInv'
  BY <1>3, <1>4 DEF KeyInv, Chains
<1>6. Req' = Req
  BY <1>1, SetReqKept DEF Away
<1> QED
  BY <1>3, <1>5, <1>6, MapStutter

(* kv_set looks for a block once more. *)
LEMMA GcAgain ==
    ASSUME Before, GcEnd, op.newgc # NULL
    PROVE  KeyInv' /\ Mapped
<1>1. op.pc = "gc" /\ nodes' = nodes
  BY DEF GcEnd, flash
<1>2. /\ op.call = "set" /\ op.key \in Key /\ op.val \in Val /\ Value(op.key) = Was
      /\ FlashOK /\ RwInv /\ KeyInv /\ \A j \in Key : Single(j)
  BY <1>1, GcFields
<1>3. PICK k \in Key : k = op.key
  BY <1>2
<1>4. /\ SameStore /\ Chains' /\ \A j \in Key : Single(j)'
      /\ Copies(k)' = Copies(k) /\ Value(k)' = Value(k)
  BY <1>1, <1>2, SameNodes
<1>5. Req = SetReq(k, op.val, Value(k))
  BY <1>1, <1>2, <1>3, ReqAt
<1>6. CASE op.old # NULL
  <2>1. PICK n : n = Found(k)
    OBVIOUS
  <2>2. Holds(k, n) /\ Value(k) = IF n = NULL THEN NULL ELSE n.val
    BY <1>2, <2>1, FoundHolds
  <2>3. op' = Lookup(op.key, op.val, TRUE)
    BY <1>6 DEF GcEnd
  <2>4. /\ op'.pc = (IF n # NULL /\ n.val = op.val THEN "return" ELSE "try")
        /\ op'.call = "set" /\ op'.key = k /\ op'.val = op.val /\ op'.old = n
        /\ op'.ver = (IF n = NULL THEN 1 ELSE NextVer(n.ver))
        /\ op'.ok = (n # NULL /\ n.val = op.val)
    BY <1>3, <2>1, <2>3 DEF Lookup
  <2>5. Copies(k)' = IF n = NULL THEN {} ELSE {n}
    BY <1>4, <2>2 DEF Holds
  <2>6. Holds(op.key, op.old)'
    BY <2>4, <2>5 DEF Holds
  <2>7. KeyInv'
    BY <1>4, <2>2, <2>4, <2>6 DEF KeyInv
  <2>8. Req' = SetReq(k, op.val, Value(k))
    BY <2>2, <2>4, ReqNext DEF Was
  <2> QED
    BY <1>4, <1>5, <2>7, <2>8, MapStutter
<1>7. CASE op.old = NULL
  <2>1. op' = [pc |-> "try", call |-> "set", key |-> op.key,
               val |-> op.val, old |-> NULL, ver |-> op.ver,
               start |-> bid, gced |-> TRUE, ok |-> FALSE]
    BY <1>7 DEF GcEnd
  <2>2. /\ op'.pc = "try" /\ op'.call = "set" /\ op'.key = k
        /\ op'.val = op.val /\ op'.old = NULL
    BY <1>3, <2>1
  <2>3. Copies(k) = {}
    BY <1>2, <1>3, <1>7, SingleNone DEF Was
  <2>4. Copies(k)' = {}
    BY <1>4, <2>3
  <2>5. Holds(op.key, op.old)'
    BY <2>2, <2>4 DEF Holds
  <2>6. KeyInv'
    BY <1>4, <2>2, <2>5 DEF KeyInv
  <2>7. Req' = Req
    BY <1>1, <1>2, <1>3, <1>7, <2>2, SetReqKept DEF Away
  <2> QED
    BY <1>4, <2>6, <2>7, MapStutter
<1> QED
  BY <1>6, <1>7

LEMMA GcQuietMapped ==
    ASSUME Before, GcPick \/ GcEnd \/ GcWild \/ MoveFailed \/ MoveEnd
    PROVE  KeyInv' /\ Mapped
<1>1. CASE GcPick
  BY <1>1, GcFields, GcQuiet DEF GcPick, flash
<1>2. CASE GcEnd
  <2>1. CASE op.newgc = NULL
    <3>1. /\ op.pc = "gc" /\ nodes' = nodes
          /\ op' = [pc |-> "return", call |-> "set", key |-> op.key,
                    val |-> op.val, old |-> op.old, ok |-> FALSE]
      BY <1>2, <2>1 DEF GcEnd, flash
    <3>2. op.call = "set"
      BY <3>1, GcFields
    <3> QED
      BY <3>1, <3>2, GcQuiet
  <2> QED
    BY <1>2, <2>1, GcAgain
<1>3. CASE GcWild
  <2>1. op.pc = "gc" /\ op \in GcOp \cup MoveOp /\ op.call = "set"
    BY <1>3, GcFields DEF GcWild
  <2>2. /\ op'.pc = "wild" /\ op'.call = "set" /\ op'.key = op.key
        /\ op'.val = op.val /\ op'.old = op.old
    BY <1>3, <2>1 DEF GcWild, GcOp, MoveOp
  <2> QED
    BY <1>3, <2>1, <2>2, GcQuiet DEF GcWild, flash
<1>4. CASE MoveFailed
  <2>1. op.pc = "move" /\ op \in MoveOp /\ op.call = "set"
    BY <1>4, GcFields DEF MoveFailed
  <2>2. /\ op'.pc = "move" /\ op'.call = "set" /\ op'.key = op.key
        /\ op'.val = op.val /\ op'.old = op.old
    BY <1>4, <2>1 DEF MoveFailed, Skip, MoveOp
  <2>3. nodes' = nodes
    BY <1>4 DEF MoveFailed, WriteRejected, flash
  <2> QED
    BY <2>1, <2>2, <2>3, GcQuiet
<1>5. CASE MoveEnd
  <2>1. op.pc = "move" /\ op.call = "set" /\ nodes' = nodes
    BY <1>5, GcFields DEF MoveEnd, flash
  <2>2. /\ op'.pc = "gc" /\ op'.call = "set" /\ op'.key = op.key
        /\ op'.val = op.val /\ op'.old = op.old
    BY <1>5, <2>1 DEF MoveEnd
  <2> QED
    BY <2>1, <2>2, GcQuiet
<1> QED
  BY <1>1, <1>2, <1>3, <1>4, <1>5

(* A node is copied into the gc block: the next one to move stays the same. *)
LEMMA MoveOkMapped ==
    ASSUME Before, FlashOK', RwInv', MoveOk
    PROVE  KeyInv' /\ Mapped
<1>1. /\ op.pc = "move" /\ Ahead # {} /\ HasRoom(gc, Moved.len) /\ WriteVerified(Copy)
      /\ op' = [op EXCEPT !.pc = "moved"] /\ gc' = gc /\ TypeInv /\ SafeInv
  BY DEF MoveOk, Before
<1>2. /\ op \in MoveOp /\ op.call = "set" /\ op.key \in Key /\ op.val \in Val
      /\ Value(op.key) = Was /\ FlashOK /\ RwInv /\ KeyInv
      /\ \A j \in Key : Single(j)
  BY <1>1, GcFields
<1>3. PICK m \in nodes : m = Moved
  BY <1>1, MovedType
<1>4. PICK x : x = Copy
  OBVIOUS
<1>5. Rw(x) /\ nodes' = nodes \cup {x} /\ x.blk = gc
  <2>1. FlashSafe /\ RamSafe
    BY <1>1 DEF SafeInv
  <2> QED
    BY <1>1, <1>2, <1>4, <2>1, CopyType, CopySafe, WriteVerifiedSafe
<1>6. x.key = m.key /\ x.val = m.val /\ x.ver = NextVer(m.ver)
  BY <1>3, <1>4 DEF Copy, NewNode
<1>7. m \in Node /\ m.key \in Key /\ m \in Copies(m.key)
  BY <1>2, NodeFields DEF FlashOK, FlashType, RwInv, Copies
<1>8. /\ \A j : j # m.key => Untouched(j)
      /\ Copies(m.key)' = Copies(m.key) \cup {x}
  BY <1>5, <1>6, NodeAdded
<1>9. Copies(m.key) = {m}
  BY <1>2, <1>7 DEF Single
<1>10. Pair(m.key, m, x)'
  BY <1>6, <1>8, <1>9 DEF Pair
<1>11. Value(m.key) = m.val /\ Value(m.key)' = m.val
  BY <1>2, <1>6, <1>9, <1>10, ValueOf, ValueNext
<1>12. SameStore
  BY <1>8, <1>11 DEF SameStore, Untouched
<1>13. /\ op'.pc = "moved" /\ op'.call = "set" /\ op'.key = op.key /\ op'.val = op.val
       /\ op'.old = op.old /\ op'.victim = op.victim /\ op'.cur = op.cur
  BY <1>1, <1>2 DEF MoveOp
<1>14. Moved' = m
  <2>1. op.victim # gc
    BY <1>1 DEF TypeInv
  <2>2. Ahead' = Ahead
    BY <1>5, <1>13, <2>1 DEF Ahead, NodesIn
  <2> QED
    BY <1>3, <2>2 DEF Moved
<1>15. \A j \in Key \ {m.key} : Single(j)'
  BY <1>2, <1>8 DEF Untouched
<1>16. PICK k \in Key : k = op.key
  BY <1>2
<1>17. Value(op.key)' = Was'
  BY <1>2, <1>12, <1>13, <1>16 DEF SameStore, Was
<1>18. \E n : Pair(Moved.key, Moved, n)' /\ n.val = Moved'.val
  BY <1>6, <1>10, <1>14 DEF Pair
<1>19. \A j \in Key \ {Moved'.key} : Single(j)'
  BY <1>14, <1>15
<1>20. KeyInv'
  BY <1>10, <1>13, <1>15, <1>17, <1>18, <1>19 DEF KeyInv
<1>21. Req' = Req
  BY <1>1, <1>2, <1>13, SetReqKept DEF Away
<1> QED
  BY <1>12, <1>20, <1>21, MapStutter

(* The original of a moved node goes. *)
LEMMA RmMovedMapped ==
    ASSUME Before, FlashOK', RwInv', RmMoved
    PROVE  KeyInv' /\ Mapped
<1>1. /\ op.pc = "moved" /\ KvnodeRm(Moved) /\ TypeInv /\ SafeInv /\ Ahead # {}
      /\ op' = [op EXCEPT !.pc = "move", !.cur = End(Moved)]
  BY DEF RmMoved, Before, TypeInv
<1>2. /\ op \in MoveOp /\ op.call = "set" /\ op.key \in Key /\ op.val \in Val
      /\ Value(op.key) = Was /\ FlashOK /\ RwInv /\ KeyInv
  BY <1>1, GcFields
<1>3. PICK m \in nodes : m = Moved
  BY <1>1, MovedType
<1>4. PICK n : Pair(m.key, m, n) /\ n.val = m.val
  BY <1>1, <1>2, <1>3 DEF KeyInv
<1>5. nodes' = nodes \ {m} /\ Rw(m)
  <2>1. RamSafe
    BY <1>1 DEF SafeInv
  <2> QED
    BY <1>1, <1>2, <1>3, <2>1, KvnodeRmExact
<1>6. m \in Copies(m.key) /\ Copies(m.key) = {m, n} /\ n.ver = NextVer(m.ver) /\ n \in Copies(m.key)
  BY <1>4 DEF Pair
<1>7. m # n
  BY <1>2, <1>6, CopyTyped, Versions
<1>8. /\ \A j : j # m.key => Untouched(j)
      /\ Copies(m.key)' = {n}
  <2>1. (\A j : j # m.key => Untouched(j)) /\ Copies(m.key)' = Copies(m.key) \ {m}
    BY <1>5, NodeRemoved
  <2> QED
    BY <1>6, <1>7, <2>1
<1>9. Value(m.key) = n.val /\ Value(m.key)' = n.val /\ Single(m.key)'
  BY <1>2, <1>4, <1>8, ValueOf, ValueNext
<1>10. SameStore
  BY <1>8, <1>9 DEF SameStore, Untouched
<1>11. \A j \in Key : Single(j)'
  BY <1>1, <1>2, <1>3, <1>8, <1>9 DEF KeyInv, Untouched
<1>12. /\ op'.pc = "move" /\ op'.call = "set" /\ op'.key = op.key /\ op'.val = op.val
       /\ op'.old = op.old
  BY <1>1, <1>2 DEF MoveOp
<1>13. PICK k \in Key : k = op.key
  BY <1>2
<1>14. Value(op.key)' = Was'
  BY <1>2, <1>10, <1>12, <1>13 DEF SameStore, Was
<1>15. KeyInv'
  BY <1>11, <1>12, <1>14 DEF KeyInv
<1>16. Req' = Req
  BY <1>1, <1>2, <1>12, SetReqKept DEF Away
<1> QED
  BY <1>10, <1>15, <1>16, MapStutter

-----------------------------------------------------------------------------
(* kv_rm and kv_reset; a call returns. *)
LEMMA RmFoundMapped ==
    ASSUME Factory = {}, Before, FlashOK', RwInv', RmFound
    PROVE  KeyInv' /\ Mapped
<1>1. op.pc = "rm" /\ KvnodeRm(op.old) /\ Return(TRUE) /\ op.old \in nodes
  BY DEF RmFound, Before, SafeInv
<1>2. /\ op \in RmOp /\ op.old \in Node /\ FlashOK /\ RamSafe /\ RwInv /\ KeyInv
      /\ Holds(op.key, op.old) /\ \A j \in Key : Single(j)
  BY <1>1, OpAt DEF Before, TypeInv, SafeInv, KeyInv
<1>3. op.call = "rm" /\ op.key \in Key
  BY <1>2 DEF RmOp
<1>4. PICK k \in Key : k = op.key
  BY <1>3
<1>5. PICK m \in nodes : m = op.old
  BY <1>1
<1>6. m # NULL
  BY <1>2, <1>5, Numbers
<1>7. Copies(k) = {m}
  BY <1>2, <1>4, <1>5, <1>6 DEF Holds
<1>8. m.key = k /\ m.val # NULL
  BY <1>2, <1>7, CopyTyped
<1>9. nodes' = nodes \ {m} /\ Rw(m)
  BY <1>1, <1>2, <1>5, KvnodeRmExact
<1>10. /\ \A j : j # k => Untouched(j)
       /\ Copies(k)' = {}
  <2>1. (\A j : j # k => Untouched(j)) /\ Copies(k)' = Copies(k) \ {m}
    BY <1>8, <1>9, NodeRemoved
  <2> QED
    BY <1>7, <2>1
<1>11. Value(k)' = NULL /\ Single(k)'
  BY <1>10, ValueNext
<1>12. /\ op'.pc = "return" /\ op'.call = "rm" /\ op'.ok = TRUE
       /\ op'.key = k /\ op'.old = m
  BY <1>1, <1>2, <1>4, <1>5 DEF Return, RmOp
<1>13. \A j \in Key : Single(j)'
  BY <1>2, <1>10, <1>11 DEF Untouched
<1>14. Value(op.key)' = NULL /\ Was' # NULL
  BY <1>6, <1>8, <1>11, <1>12 DEF Was
<1>15. KeyInv'
  BY <1>12, <1>13, <1>14 DEF KeyInv
<1>16. Req = RmReq(k, Was) /\ Req' = RmReq(k, Was') /\ Was' = Was
  BY <1>1, <1>3, <1>4, <1>5, <1>12, ReqAt, ReqNext DEF Was
<1>17. \A j \in Key \ {k} : Value(j)' = Value(j)
  BY <1>10 DEF Untouched
<1>18. PICK w : w = Was
  OBVIOUS
<1>19. Req = RmReq(k, w) /\ Req' = Req
  BY <1>16, <1>18
<1> QED
  BY <1>11, <1>15, <1>17, <1>19, MapRmEffect

LEMMA ResetNodeMapped ==
    ASSUME Factory = {}, Before, FlashOK', RwInv', NEW m \in nodes, ResetNode(m)
    PROVE  KeyInv' /\ Mapped
<1>1. op.pc = "reset" /\ KvnodeRm(m) /\ op' = op
  BY DEF ResetNode
<1>2. /\ op \in ResetOp /\ FlashOK /\ RamSafe /\ RwInv /\ KeyInv
      /\ \A j \in Key : Single(j)
  BY <1>1, OpAt DEF Before, TypeInv, SafeInv, KeyInv
<1>3. op.call = "reset"
  BY <1>2 DEF ResetOp
<1>4. m.key \in Key /\ m \in Copies(m.key)
  BY <1>2, NodeFields DEF FlashOK, FlashType, RwInv, Copies
<1>5. Copies(m.key) = {m}
  BY <1>2, <1>4 DEF Single
<1>6. nodes' = nodes \ {m} /\ Rw(m)
  BY <1>1, <1>2, KvnodeRmExact
<1>7. /\ \A j : j # m.key => Untouched(j)
      /\ Copies(m.key)' = {}
  <2>1. (\A j : j # m.key => Untouched(j)) /\ Copies(m.key)' = Copies(m.key) \ {m}
    BY <1>6, NodeRemoved
  <2> QED
    BY <1>5, <2>1
<1>8. Value(m.key)' = NULL /\ Single(m.key)'
  BY <1>7, ValueNext
<1>9. \A j \in Key : Single(j)'
  BY <1>2, <1>7, <1>8 DEF Untouched
<1>10. KeyInv'
  BY <1>1, <1>9 DEF KeyInv
<1>11. Req = [call |-> "reset"] /\ Req' = Req
  BY <1>1, <1>3, ReqAt DEF Req
<1>12. \A j \in Key \ {m.key} : Value(j)' = Value(j)
  BY <1>7 DEF Untouched
<1> QED
  BY <1>4, <1>8, <1>10, <1>11, <1>12, MapResetEffect

LEMMA ResetEndMapped ==
    ASSUME Before, ResetEnd
    PROVE  KeyInv' /\ Mapped
<1>1. /\ op.pc = "reset" /\ Return(TRUE) /\ nodes' = nodes
      /\ \A n \in nodes : ~Rw(n)
  BY DEF ResetEnd, flash
<1>2. op \in ResetOp /\ RwInv /\ KeyInv /\ \A j \in Key : Single(j)
  BY <1>1, OpAt DEF Before, TypeInv, KeyInv
<1>3. nodes = {}
  BY <1>1, <1>2 DEF RwInv
<1>4. op.call = "reset" /\ op'.pc = "return" /\ op'.call = "reset" /\ op'.ok = TRUE
  BY <1>1, <1>2 DEF Return, ResetOp
<1>5. SameStore /\ Chains' /\ \A j \in Key : Single(j)'
  BY <1>1, <1>2, SameNodes
<1>6. KeyInv'
  BY <1>1, <1>3, <1>4, <1>5 DEF KeyInv
<1>7. Req' = Req
  BY <1>1, <1>4, ReqAt, ReqNext
<1> QED
  BY <1>5, <1>6, <1>7, MapStutter

LEMMA KvReturnMapped ==
    ASSUME Factory = {}, Before, KvReturn
    PROVE  KeyInv' /\ Mapped
<1>1. op.pc = "return" /\ op'.pc = "idle" /\ nodes' = nodes
  BY DEF KvReturn, Resting, flash
<1>2. FlashOK /\ RwInv /\ KeyInv /\ op \in OpType /\ \A j \in Key : Single(j)
  BY <1>1 DEF Before, TypeInv, KeyInv
<1>3. SameStore /\ Chains' /\ \A j \in Key : Single(j)'
  BY <1>1, <1>2, SameNodes
<1>4. KeyInv'
  BY <1>1, <1>3 DEF KeyInv
<1>5. Req' = [call |-> "none"]
  BY <1>1, ReqNext
<1>6. /\ op.call \in {"set", "rm", "reset"} /\ op.ok \in BOOLEAN
      /\ op.call = "set" => op.key \in Key /\ op.val \in Val
      /\ op.call = "rm" => op.key \in Key
  BY <1>1, <1>2, OpReturn
<1>7. CASE op.call = "set"
  <2>1. Req = SetReq(op.key, op.val, Was)
    BY <1>1, <1>7, ReqAt
  <2>2. Value(op.key) = IF op.ok THEN op.val ELSE Was
    BY <1>1, <1>2, <1>7 DEF KeyInv
  <2>3. PICK k \in Key : k = op.key
    BY <1>6, <1>7
  <2>4. PICK v : v = op.val
    OBVIOUS
  <2>5. PICK w : w = Was
    OBVIOUS
  <2>6. PICK ok \in BOOLEAN : ok = op.ok
    BY <1>6
  <2>7. Req = SetReq(k, v, w) /\ Value(k) = IF ok THEN v ELSE w
    BY <2>1, <2>2, <2>3, <2>4, <2>5, <2>6
  <2> QED
    BY <1>3, <1>4, <1>5, <2>7, MapSetReturn
<1>8. CASE op.call = "rm"
  <2>1. Req = RmReq(op.key, Was)
    BY <1>1, <1>8, ReqAt
  <2>2. Value(op.key) = NULL /\ (op.ok <=> Was # NULL)
    BY <1>1, <1>2, <1>8 DEF KeyInv
  <2>3. PICK k \in Key : k = op.key
    BY <1>6, <1>8
  <2>4. PICK w : w = Was
    OBVIOUS
  <2>5. PICK ok \in BOOLEAN : ok = op.ok
    BY <1>6
  <2>6. Req = RmReq(k, w) /\ Value(k) = NULL /\ (ok <=> w # NULL)
    BY <2>1, <2>2, <2>3, <2>4, <2>5
  <2> QED
    BY <1>3, <1>4, <1>5, <2>6, MapRmReturn
<1>9. CASE op.call = "reset"
  <2>1. Req = [call |-> "reset"]
    BY <1>1, <1>9, ReqAt
  <2>2. nodes = {}
    BY <1>1, <1>2, <1>9 DEF KeyInv
  <2>3. \A k \in Key : Copies(k) = {}
    BY <2>2 DEF Copies
  <2>4. \A k \in Key : Value(k) = NULL
    BY <1>2, <2>3, ValueOf
  <2> QED
    BY <1>3, <1>4, <1>5, <2>1, <2>4, MapResetReturn
<1> QED
  BY <1>6, <1>7, <1>8, <1>9

-----------------------------------------------------------------------------
LEMMA IdleMapped == ASSUME Before, UNCHANGED vars PROVE KeyInv' /\ Mapped
<1>1. op' = op /\ nodes' = nodes /\ gc' = gc
  BY DEF vars, flash, ram
<1>2. SameStore /\ \A k : (Single(k)' <=> Single(k)) /\ Value(k)' = Value(k) /\ Copies(k)' = Copies(k)
  BY <1>1, SameNodes DEF Before
<1>3. Req' = Req
  BY <1>1 DEF Req
<1>4. Moved' = Moved /\ Was' = Was
  BY <1>1 DEF Moved, Ahead, NodesIn, Was
<1>5. \A k, x : Holds(k, x)' <=> Holds(k, x)
  BY <1>1 DEF Holds, Copies
<1>6. \A k, m, n : Pair(k, m, n)' <=> Pair(k, m, n)
  BY <1>1, SameNodes DEF Before
<1>7. KeyInv'
  BY <1>1, <1>2, <1>4, <1>5, <1>6 DEF Before, KeyInv
<1> QED
  BY <1>2, <1>3, <1>7, MapStutter

LEMMA NextMapped ==
    ASSUME Factory = {}, Torn # "header", Before, [Next]_vars
    PROVE  KeyInv' /\ Mapped
<1>1. TypeInv /\ SafeInv /\ RwInv /\ KeyInv
  BY DEF Before
<1>2. FlashOK' /\ RwInv'
  <2>1. TypeInv'
    BY <1>1, NextType
  <2> QED
    BY <1>1, <2>1, NextRw DEF TypeInv
<1>3. CASE Call
  BY <1>3, KvSetMapped, KvRmMapped, KvResetMapped DEF Call
<1>4. CASE SetStep
  BY <1>2, <1>4, TryOkMapped, TryNextMapped, RmOldMapped DEF SetStep
<1>5. CASE GcStep
  BY <1>2, <1>5, GcQuietMapped, MoveOkMapped, RmMovedMapped DEF GcStep
<1>6. CASE OtherStep
  BY <1>1, <1>2, <1>6, KvInitMapped, KvVerifyMapped, KvVerifiedMapped, RmFoundMapped,
     ResetNodeMapped, ResetEndMapped, KvReturnMapped DEF OtherStep
<1>7. CASE PowerFails
  BY <1>1, <1>7, PowerFailsMapped
<1>8. CASE UNCHANGED vars
  BY <1>8, IdleMapped
<1> QED
  BY <1>3, <1>4, <1>5, <1>6, <1>7, <1>8 DEF Next, Work

LEMMA InitMapped ==
    ASSUME Factory = {}, Init
    PROVE  KeyInv /\ Promise!Init
<1>1. nodes = {} /\ op.pc = "off"
  BY DEF Init, Resting
<1>2. \A k : Copies(k) = {} /\ Value(k) = NULL
  BY <1>1 DEF Copies, Value
<1>3. KeyInv
  BY <1>1, <1>2 DEF KeyInv, Single
<1>4. [k \in Key |-> Value(k)] = [k \in Key |-> FactoryValue(k)]
  BY <1>2, NoDefault
<1>5. Promise!Init
  BY <1>1, <1>4 DEF Promise!Init, Promise!Off
<1> QED
  BY <1>3, <1>5

LEMMA CopiesCounted ==
    ASSUME Before
    PROVE  CopiesOrdered
<1>1. FlashOK /\ RwInv /\ KeyInv
  BY DEF Before, TypeInv
<1> SUFFICES ASSUME NEW k \in Key
             PROVE  /\ Cardinality(Copies(k)) <= (IF op.pc \in {"idle", "try", "rm", "gc"} THEN 1 ELSE 2)
                    /\ \A m, n \in Copies(k) : m # n => (Older(m, n) <=> ~Older(n, m))
  BY DEF CopiesOrdered
<1>2. CASE Single(k)
  <2>1. Copies(k) = {} \/ \E n : Copies(k) = {n}
    BY <1>2 DEF Single
  <2>2. Cardinality(Copies(k)) \in {0, 1}
    BY <2>1, FS_EmptySet, FS_Singleton
  <2> QED
    BY <1>2, <2>2 DEF Single
<1>3. CASE ~Single(k)
  <2>1. PICK m, n : Pair(k, m, n)
    BY <1>1, <1>3 DEF KeyInv
  <2>2. Copies(k) = {m, n} /\ m \in Copies(k) /\ n \in Copies(k) /\ n.ver = NextVer(m.ver)
    BY <2>1 DEF Pair
  <2>3. Older(m, n) /\ ~Older(n, m) /\ m # n
    BY <1>1, <2>2, CopyTyped, Versions
  <2>4. op.pc \notin {"idle", "try", "rm", "gc"}
    BY <1>1, <1>3 DEF KeyInv
  <2>5. Cardinality(Copies(k)) = 2
    <3>1. IsFiniteSet({m}) /\ Cardinality({m}) = 1
      BY FS_Singleton
    <3>2. Cardinality({m} \cup {n}) = Cardinality({m}) + 1
      BY <2>3, <3>1, FS_AddElement
    <3>3. Copies(k) = {m} \cup {n}
      BY <2>2
    <3> QED
      BY <3>1, <3>2, <3>3
  <2> QED
    BY <2>2, <2>3, <2>4, <2>5
<1> QED
  BY <1>2, <1>3

LEMMA KeysKept ==
    ASSUME Factory = {}, Torn # "header"
    PROVE  Spec => []Before
<1>1. Init => RwInv /\ KeyInv
  BY InitMapped DEF Init, Resting, RwInv
<1>2. TypeInv /\ SafeInv /\ RwInv /\ KeyInv /\ [Next]_vars => RwInv' /\ KeyInv'
  BY NextRw, NextMapped DEF Before
<1>3. TypeInv /\ SafeInv /\ RwInv /\ KeyInv <=> Before
  BY DEF Before
<1> QED
  BY <1>1, <1>2, <1>3, BothInv, PTL DEF Spec

(* Without a factory image no key ever has more than two copies, nor two   *)
(* while a call looks for a place to write, and of two copies it is always *)
(* known which one is older, also after the versions have wrapped around.  *)
THEOREM CopiesAlwaysOrdered ==
    ASSUME Factory = {}, Torn # "header"
    PROVE  Spec => []CopiesOrdered
  BY KeysKept, CopiesCounted, PTL

(* Without a factory image the store keeps what the README promises: every *)
(* step is one of KvSpec's or none, whenever the power fails.              *)
THEOREM StoreImplements ==
    ASSUME Factory = {}, Torn # "header"
    PROVE  Spec => PromiseKept
<1>1. Init => Promise!Init
  BY InitMapped
<1>2. Before /\ [Next]_vars => Mapped
  BY NextMapped
<1>3. Mapped <=> [Promise!Next]_<<[k \in Key |-> Value(k)],
           IF op.pc \in {"off", "verify"} THEN [call |-> "off"]
           ELSE IF op.pc = "idle" THEN [call |-> "none"]
           ELSE IF op.call = "reset" THEN [call |-> "reset"]
           ELSE LET was == IF op.old = NULL THEN NULL ELSE op.old.val
                IN  IF op.call = "set"
                    THEN [call |-> "set", key |-> op.key, val |-> op.val, was |-> was]
                    ELSE [call |-> "rm", key |-> op.key, was |-> was]>>
  BY DEF Mapped, Store, Req
<1> QED
  BY <1>1, <1>2, <1>3, KeysKept, PTL DEF Spec, PromiseKept, Promise!Spec
=============================================================================
