---------------------------- MODULE KvProperties ----------------------------
(***************************************************************************)
(* What the key-value store guarantees, among others that it implements    *)
(* KvSpec.                                                                 *)
(***************************************************************************)
EXTENDS KvStore

(* The value a reader of k finds: that of the newest node that can be      *)
(* written over, else the factory value.                                   *)
Value(k) ==
    LET newest == {n \in Copies(k) : \A m \in Copies(k) : m.ver # NextVer(n.ver)}
        fixed  == {n \in nodes : n.key = k /\ ~Rw(n)}
    IN  IF newest # {} THEN (CHOOSE n \in newest : TRUE).val
        ELSE IF fixed # {} THEN (CHOOSE n \in fixed : TRUE).val
        ELSE NULL

FactoryValue(k) ==
    LET f == {n \in Factory : n.key = k}
    IN  IF f = {} THEN NULL ELSE (CHOOSE n \in f : TRUE).val

Promise == INSTANCE KvSpec WITH
    Default <- [k \in Key |-> FactoryValue(k)],
    store   <- [k \in Key |-> Value(k)],
    req     <- IF op.pc \in {"off", "verify"} THEN [call |-> "off"]
               ELSE IF op.pc = "idle" THEN [call |-> "none"]
               ELSE IF op.call = "reset" THEN [call |-> "reset"]
               ELSE LET was == IF op.old = NULL THEN NULL ELSE op.old.val
                    IN  IF op.call = "set"
                        THEN [call |-> "set", key |-> op.key, val |-> op.val, was |-> was]
                        ELSE [call |-> "rm", key |-> op.key, was |-> was]

(* README.md, power-loss protection: "a write fails or succeeds; for a     *)
(* stored key the value after a failed write is still the old one; a key   *)
(* that did not exist does not exist after it", whenever the power fails   *)
(* during the set or the garbage collection and verification around it.    *)
PromiseKept == Promise!Spec

(* What op holds: outside of calls; while kv_set looks for a block, while  *)
(* it collects garbage, while it moves a node, and when that failed; in    *)
(* kv_rm; in kv_reset.                                                     *)
MaybeNode == Node \cup {NULL}

RestOp  == [pc : {"off", "verify", "idle"}, call : {"none"}]
TryOp   == [pc : {"try", "rmold", "return"}, call : {"set"}, key : Key, val : Val,
            old : MaybeNode, ver : Ver, start : Block, gced : BOOLEAN, ok : BOOLEAN]
GcOp    == [pc : {"gc", "wild"}, call : {"set"}, key : Key, val : Val,
            old : MaybeNode, ver : Ver, newgc : Block \cup {NULL}]
MoveOp  == [pc : {"move", "moved"}, call : {"set"}, key : Key, val : Val,
            old : MaybeNode, ver : Ver, newgc : Block \cup {NULL},
            cur : 0..Words, victim : Block]
FullOp  == [pc : {"return"}, call : {"set"}, key : Key, val : Val,
            old : MaybeNode, ok : BOOLEAN]
RmOp    == [pc : {"rm", "return"}, call : {"rm"}, key : Key, old : MaybeNode,
            ok : BOOLEAN]
ResetOp == [pc : {"reset", "return"}, call : {"reset"}, ok : BOOLEAN]

OpType == RestOp \cup TryOp \cup GcOp \cup MoveOp \cup FullOp \cup RmOp \cup ResetOp

(* Nodes lie within their block, and the counters hold what the code puts  *)
(* there; kv_size is 16 bits wide.                                         *)
FlashType ==
    /\ nodes \subseteq Node /\ torn \subseteq Node
    /\ \A n \in nodes \cup torn : End(n) <= Words
    /\ tail \in [Block -> 0..Words] /\ used \in [Block -> 0..Words]
    /\ wo \in [Block -> 0..Words]
    /\ cnt \in [Block -> Nat] /\ roc \in [Block -> Nat]
    /\ kvsz \in [Block -> 0..(SizeRange-1)]

(* Every variable is what its C type and its block can hold. *)
TypeOK ==
    /\ FlashType
    /\ bid \in Block /\ gc \in Block \cup {NULL}
    /\ op \in OpType

(* Nodes of a block lie one behind the other, and nothing is written       *)
(* where a node already is, also after junk was overlooked at power-up.    *)
NodesApart ==
    /\ \A m, n \in nodes : m # n /\ m.blk = n.blk => End(m) <= n.at \/ End(n) <= m.at
    /\ \A n \in nodes : End(n) <= tail[n.blk]
    /\ op.pc # "off" => \A b \in Block : tail[b] <= wo[b]

(* The counters in RAM tell what is on the flash: kvnode_rm decides by     *)
(* count whether it may erase the whole block, kv_gc by kv_size whether a  *)
(* block fits into the gc block.                                           *)
CountersMatch ==
    op.pc # "off" => \A b \in Block :
        /\ cnt[b] = Cardinality(NodesIn(b))
        /\ kvsz[b] = Cardinality(LiveWords(b))

(* A key has one node, or two while its value is being replaced or moved,  *)
(* and then the versions tell which is older, also when they wrap around.  *)
CopiesOrdered ==
    \A k \in Key :
        /\ Cardinality(Copies(k)) <= (IF op.pc \in {"idle", "try", "rm", "gc"} THEN 1 ELSE 2)
        /\ \A m, n \in Copies(k) : m # n => (Older(m, n) <=> ~Older(n, m))

(* Erasing a block, which kvnode_rm does for the last node in it, never    *)
(* takes another node along.                                               *)
EraseTakesOne == [][\A m, n \in nodes \ nodes' : m = n]_vars

(* README.md, power-loss protection: no key is ever corrupted; a read      *)
(* never returns what no call wrote.                                       *)
NeverCorrupt == \A k \in Key : Value(k) # GARBAGE

(* A call ends, unless the power fails: the search for a block and the     *)
(* garbage collection terminate.                                           *)
CallsReturn ==
    op.pc \in {"try", "rmold", "gc", "move", "moved", "rm", "reset"}
        ~> op.pc \in {"return", "off", "wild"}
=============================================================================
