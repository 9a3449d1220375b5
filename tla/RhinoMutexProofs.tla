-------------------------- MODULE RhinoMutexProofs --------------------------
(***************************************************************************)
(* Proofs about the mutexes of the Rhino kernel.  The first half is about  *)
(* who owns them: the list of the mutexes that a task holds is linked      *)
(* through the mutexes themselves, and the code reads the links while it   *)
(* hands the mutexes over; here the list of every task is shown to hold    *)
(* the mutexes that name it as their owner, whatever is locked, handed     *)
(* over, deleted or created again.  The second half is about the           *)
(* priorities that owners inherit from those who wait: they are exact      *)
(* after every call, and the best ready task runs.                         *)
(***************************************************************************)
EXTENDS RhinoProofs

(***************************************************************************)
(* The mutexes S form a list that begins with h: they can be ranked, no    *)
(* two alike, such that h has the highest rank and every mutex is linked   *)
(* to the next lower one.  h or a link is NULL when there is none.         *)
(***************************************************************************)
Top(r, S, h) == IF h = NULL THEN S = {} ELSE h \in S /\ \A x \in S : r[x] <= r[h]

Ranked(k, h, S, r) ==
    /\ S \subseteq Mutex /\ Top(r, S, h)
    /\ \A x, y \in S : r[x] = r[y] => x = y
    /\ \A x \in S : Top(r, {y \in S : r[y] < r[x]}, k.mtx[x].next)

Linked(k, h, S) == \E r \in [Mutex -> Nat] : Ranked(k, h, S, r)

LEMMA LinkedSame ==
    ASSUME NEW k, NEW h, NEW S, Linked(k, h, S), NEW k2,
           \A x \in S : k2.mtx[x].next = k.mtx[x].next
    PROVE  Linked(k2, h, S)
<1>1. PICK r \in [Mutex -> Nat] : Ranked(k, h, S, r)
  BY DEF Linked
<1>2. Ranked(k2, h, S, r)
  BY <1>1 DEF Ranked
<1> QED
  BY <1>2 DEF Linked

LEMMA LinkedHead ==
    ASSUME NEW k, NEW h, NEW S, Linked(k, h, S)
    PROVE  /\ S \subseteq Mutex /\ h \in S \cup {NULL}
           /\ h = NULL <=> S = {}
<1>1. PICK r \in [Mutex -> Nat] : Ranked(k, h, S, r)
  BY DEF Linked
<1> QED
  BY <1>1 DEF Ranked, Top

LEMMA LinkedNone ==
    ASSUME NEW k
    PROVE  Linked(k, NULL, {})
<1> DEFINE r == [m \in Mutex |-> 0]
<1>1. r \in [Mutex -> Nat]
  OBVIOUS
<1>2. Ranked(k, NULL, {}, r)
  BY DEF Ranked, Top
<1> QED
  BY <1>1, <1>2 DEF Linked

(* The rest of the list without its first mutex. *)
LEMMA LinkedRest ==
    ASSUME NEW k, NEW h, NEW S, Linked(k, h, S), h # NULL
    PROVE  Linked(k, k.mtx[h].next, S \ {h})
<1> DEFINE T == S \ {h}
<1>1. PICK r \in [Mutex -> Nat] : Ranked(k, h, S, r)
  BY DEF Linked
<1>2. h \in S /\ S \subseteq Mutex /\ \A x \in S : r[x] <= r[h] /\ r[x] \in Nat
  BY <1>1 DEF Ranked, Top
<1>3. \A x, y \in S : r[x] = r[y] => x = y
  BY <1>1 DEF Ranked
<1>4. \A x \in T : r[x] < r[h]
  <2> SUFFICES ASSUME NEW x \in T PROVE r[x] < r[h]
    OBVIOUS
  <2>1. r[x] # r[h] /\ r[x] <= r[h] /\ r[x] \in Nat /\ r[h] \in Nat
    BY <1>2, <1>3
  <2> QED
    BY <2>1
<1>5. {y \in S : r[y] < r[h]} = T
  <2>1. ~(r[h] < r[h])
    BY <1>2
  <2> QED
    BY <1>4, <2>1
<1>6. Top(r, T, k.mtx[h].next)
  BY <1>1, <1>2, <1>5 DEF Ranked
<1>7. ASSUME NEW x \in T PROVE Top(r, {y \in T : r[y] < r[x]}, k.mtx[x].next)
  <2>1. ~(r[h] < r[x])
    BY <1>2, <1>4
  <2>2. {y \in T : r[y] < r[x]} = {y \in S : r[y] < r[x]}
    BY <2>1
  <2> QED
    BY <1>1, <2>2 DEF Ranked
<1>8. Ranked(k, k.mtx[h].next, T, r)
  BY <1>2, <1>3, <1>6, <1>7 DEF Ranked
<1> QED
  BY <1>8 DEF Linked

(* A mutex further down is taken out. *)
LEMMA LinkedOut ==
    ASSUME NEW k, NEW h, NEW S, Linked(k, h, S), NEW m \in S, m # h, NEW k2,
           \A x \in S : k2.mtx[x].next = IF k.mtx[x].next = m THEN k.mtx[m].next
                                         ELSE k.mtx[x].next
    PROVE  Linked(k2, h, S \ {m})
<1> DEFINE T == S \ {m}
<1>1. PICK r \in [Mutex -> Nat] : Ranked(k, h, S, r)
  BY DEF Linked
<1>2. /\ h \in S /\ S \subseteq Mutex /\ h # NULL /\ m # NULL
      /\ \A x \in S : r[x] <= r[h] /\ r[x] \in Nat
  BY <1>1, Kinds DEF Ranked, Top
<1>3. \A x, y \in S : r[x] = r[y] => x = y
  BY <1>1 DEF Ranked
<1>4. Top(r, T, h)
  BY <1>2 DEF Top
<1>5. ASSUME NEW x \in T PROVE Top(r, {y \in T : r[y] < r[x]}, k2.mtx[x].next)
  <2>1. Top(r, {y \in S : r[y] < r[x]}, k.mtx[x].next)
    BY <1>1 DEF Ranked
  <2>2. Top(r, {y \in S : r[y] < r[m]}, k.mtx[m].next)
    BY <1>1 DEF Ranked
  <2>3. CASE k.mtx[x].next = m
    <3>1. r[m] < r[x] /\ \A y \in S : r[y] < r[x] => r[y] <= r[m]
      BY <1>2, <2>1, <2>3 DEF Top
    <3>2. ASSUME NEW y \in S PROVE y # m /\ r[y] < r[x] <=> r[y] < r[m]
      <4>1. r[y] \in Nat /\ r[m] \in Nat /\ r[x] \in Nat /\ (r[y] = r[m] => y = m)
        BY <1>2, <1>3
      <4>2. r[y] < r[x] => r[y] <= r[m]
        BY <3>1
      <4> QED
        BY <3>1, <4>1, <4>2
    <3>3. {y \in T : r[y] < r[x]} = {y \in S : r[y] < r[m]}
      BY <3>2
    <3> QED
      BY <2>2, <2>3, <3>3
  <2>4. CASE k.mtx[x].next # m
    <3>1. k2.mtx[x].next = k.mtx[x].next
      BY <2>4
    <3> QED
      BY <2>1, <2>4, <3>1 DEF Top
  <2> QED
    BY <2>3, <2>4
<1>6. Ranked(k2, h, T, r)
  BY <1>2, <1>3, <1>4, <1>5 DEF Ranked
<1> QED
  BY <1>6 DEF Linked

(* A mutex is put in front. *)
LEMMA LinkedPush ==
    ASSUME NEW k, NEW h, NEW S, Linked(k, h, S), NEW m \in Mutex \ S, NEW k2,
           k2.mtx[m].next = h, \A x \in S : k2.mtx[x].next = k.mtx[x].next
    PROVE  Linked(k2, m, S \cup {m})
<1> DEFINE T == S \cup {m}
<1>1. PICK r \in [Mutex -> Nat] : Ranked(k, h, S, r)
  BY DEF Linked
<1>2. S \subseteq Mutex /\ Top(r, S, h) /\ \A x, y \in S : r[x] = r[y] => x = y
  BY <1>1 DEF Ranked
<1> DEFINE n == IF h = NULL THEN 0 ELSE r[h] + 1
           q == [r EXCEPT ![m] = n]
<1>3. n \in Nat /\ \A x \in S : r[x] < n
  <2>1. \A x \in Mutex : r[x] \in Nat
    OBVIOUS
  <2>2. CASE h = NULL
    BY <1>2, <2>2 DEF Top
  <2>3. CASE h # NULL
    <3>1. h \in S /\ \A x \in S : r[x] <= r[h]
      BY <1>2, <2>3 DEF Top
    <3> QED
      BY <1>2, <2>1, <2>3, <3>1
  <2> QED
    BY <2>2, <2>3
<1> HIDE DEF n
<1>4. q \in [Mutex -> Nat] /\ q[m] = n /\ \A x \in S : q[x] = r[x] /\ q[x] \in Nat
  BY <1>2, <1>3
<1> HIDE DEF q
<1>5. Top(q, T, m)
  BY <1>3, <1>4, Kinds DEF Top
<1>6. \A x, y \in T : q[x] = q[y] => x = y
  BY <1>2, <1>3, <1>4
<1>7. ASSUME NEW x \in T PROVE Top(q, {y \in T : q[y] < q[x]}, k2.mtx[x].next)
  <2>1. CASE x = m
    <3>1. {y \in T : q[y] < q[x]} = S
      BY <1>3, <1>4, <2>1
    <3> QED
      BY <1>2, <1>4, <2>1, <3>1 DEF Top
  <2>2. CASE x # m
    <3>1. x \in S /\ ~(q[m] < q[x])
      BY <1>3, <1>4, <2>2
    <3>2. {y \in T : q[y] < q[x]} = {y \in S : r[y] < r[x]}
      BY <1>4, <3>1
    <3>3. Top(r, {y \in S : r[y] < r[x]}, k2.mtx[x].next)
      BY <1>1, <3>1 DEF Ranked
    <3> QED
      BY <1>4, <3>2, <3>3 DEF Top
  <2> QED
    BY <2>1, <2>2
<1>8. T \subseteq Mutex
  BY <1>2
<1>9. Ranked(k2, m, T, q)
  BY <1>5, <1>6, <1>7, <1>8 DEF Ranked
<1> QED
  BY <1>4, <1>9 DEF Linked

-----------------------------------------------------------------------------
(* One mutex less. *)
LEMMA OneLess ==
    ASSUME NEW S \in SUBSET Mutex, NEW n \in Nat \ {0}, Cardinality(S) <= n, NEW x \in S
    PROVE  Cardinality(S \ {x}) <= n - 1
<1>1. IsFiniteSet(S)
  BY RhinoAssumption, FS_Subset
<1>2. Cardinality(S) \in Nat /\ Cardinality(S \ {x}) = Cardinality(S) - 1
  BY <1>1, FS_CardinalityType, FS_RemoveElement
<1> QED
  BY <1>2

LEMMA NoneLeft ==
    ASSUME NEW S \in SUBSET Mutex, NEW n \in Nat
    PROVE  /\ Cardinality(S) <= 0 => S = {}
           /\ Cardinality({}) <= n
           /\ Cardinality(S) <= Cardinality(Mutex) /\ Cardinality(Mutex) \in Nat
<1>1. IsFiniteSet(S) /\ Cardinality(S) <= Cardinality(Mutex)
  BY RhinoAssumption, FS_Subset
<1>2. Cardinality(S) \in Nat /\ Cardinality(Mutex) \in Nat
  BY <1>1, RhinoAssumption, FS_CardinalityType
<1>3. Cardinality({}) = 0
  BY FS_EmptySet
<1>4. Cardinality(S) = 0 => S = {}
  BY <1>1, FS_EmptySet
<1> QED
  BY <1>1, <1>2, <1>3, <1>4

(* Following the links of a list meets its mutexes, each once. *)
LEMMA LinksAre ==
    ASSUME NEW k \in KState, NEW t \in Task, NEW S, Linked(k, k.tcb[t].mutex_list, S)
    PROVE  /\ Held(k, t) = S
           /\ LET node == Links(k, t)
              IN  \A i, j \in DOMAIN node : node[i] = node[j] /\ node[i] # NULL => i = j
<1> DEFINE n == Cardinality(Mutex)
           node == Links(k, t)
           Past(i) == {node[j] : j \in 0..(i-1)}
<1>1. /\ node \in [0..n -> Mutex \cup {NULL}]
      /\ node[0] = k.tcb[t].mutex_list
      /\ \A i \in 1..n : node[i] = IF node[i-1] = NULL THEN NULL ELSE k.mtx[node[i-1]].next
  BY LinksOf
<1>2. S \in SUBSET Mutex /\ Cardinality(S) <= n /\ n \in Nat
  BY LinkedHead, NoneLeft
<1>3. Held(k, t) = Range(node) \ {NULL}
  BY DEF Held
<1> HIDE DEF n, node
<1> DEFINE Rest(i) == S \ Past(i)
           D == {i \in 0..n : Linked(k, node[i], Rest(i)) /\ Cardinality(Rest(i)) <= n - i}
<1>4. 0 \in D
  <2>1. Past(0) = {}
    BY <1>2
  <2>2. Rest(0) = S /\ 0 \in 0..n /\ n - 0 = n
    BY <1>2, <2>1
  <2> QED
    BY <1>1, <1>2, <2>2
<1>5. ASSUME NEW i \in 1..n, i - 1 \in D PROVE i \in D
  <2> DEFINE x == node[i-1]
  <2>1. /\ i \in 0..n /\ i - 1 \in 0..n /\ n - i \in Nat /\ n - (i - 1) \in Nat \ {0}
        /\ (n - (i - 1)) - 1 = n - i
    BY <1>2
  <2>2. Linked(k, x, Rest(i-1)) /\ Cardinality(Rest(i-1)) <= n - (i - 1)
    BY <1>5
  <2>3. Past(i) = Past(i-1) \cup {x}
    <3>1. 0..(i-1) = 0..((i-1)-1) \cup {i-1}
      BY <1>2
    <3> QED
      BY <3>1
  <2>4. Rest(i) = Rest(i-1) \ {x}
    BY <2>3
  <2>5. Rest(i-1) \in SUBSET Mutex
    BY <1>2
  <2>6. node[i] = IF x = NULL THEN NULL ELSE k.mtx[x].next
    BY <1>1
  <2> HIDE DEF x, Past
  <2>7. CASE x = NULL
    <3>1. Rest(i-1) = {}
      BY <2>2, <2>7, LinkedHead
    <3>2. Rest(i) = {}
      BY <2>4, <3>1
    <3>3. Linked(k, node[i], Rest(i))
      BY <2>6, <2>7, <3>2, LinkedNone
    <3>4. Cardinality(Rest(i)) <= n - i
      BY <1>2, <2>1, <3>2, NoneLeft
    <3> QED
      BY <2>1, <3>3, <3>4
  <2>8. CASE x # NULL
    <3>1. x \in Rest(i-1)
      BY <2>2, <2>8, LinkedHead
    <3>2. Linked(k, node[i], Rest(i))
      BY <2>2, <2>4, <2>6, <2>8, LinkedRest
    <3>3. Cardinality(Rest(i)) <= n - i
      <4> DEFINE m == n - (i - 1)
      <4>1. m \in Nat \ {0} /\ m - 1 = n - i /\ Cardinality(Rest(i-1)) <= m
        BY <2>1, <2>2
      <4> HIDE DEF m
      <4> QED
        BY <2>4, <2>5, <3>1, <4>1, OneLess
    <3> QED
      BY <2>1, <3>2, <3>3
  <2> QED
    BY <2>7, <2>8
<1> HIDE DEF D
<1>6. \A i \in 0..n : i \in D
  <2>1. \A i \in 1..n : i - 1 \in D => i \in D
    BY <1>5
  <2> QED
    BY <1>2, <1>4, <2>1, UpTo
<1>7. \A i \in 0..n : node[i] \in Rest(i) \cup {NULL} /\ Cardinality(Rest(i)) <= n - i
  BY <1>6, LinkedHead DEF D
<1>8. S \subseteq Past(n)
  <2>1. n \in 0..n /\ n - n = 0
    BY <1>2
  <2>2. Rest(n) \in SUBSET Mutex /\ Cardinality(Rest(n)) <= 0
    BY <1>2, <1>7, <2>1
  <2>3. Rest(n) = {}
    BY <1>2, <2>2, NoneLeft
  <2> QED
    BY <2>3
<1>9. Range(node) \ {NULL} = S
  <2>1. S \subseteq Range(node)
    <3>1. Past(n) \subseteq Range(node)
      BY <1>1, <1>2 DEF Range
    <3> QED
      BY <1>8, <3>1
  <2>2. \A i \in 0..n : node[i] \in S \cup {NULL}
    BY <1>7
  <2>3. NULL \notin S
    BY <1>2, Kinds
  <2> QED
    BY <1>1, <2>1, <2>2, <2>3 DEF Range
<1>10. \A i, j \in 0..n : i < j /\ node[j] # NULL => node[i] # node[j]
  <2> SUFFICES ASSUME NEW i \in 0..n, NEW j \in 0..n, i < j, node[j] # NULL
               PROVE  node[i] # node[j]
    OBVIOUS
  <2>1. i \in 0..(j-1)
    BY <1>2
  <2>2. node[i] \in Past(j)
    BY <2>1
  <2>3. node[j] \in Rest(j)
    BY <1>7
  <2> QED
    BY <2>2, <2>3
<1>11. \A i, j \in 0..n : node[i] = node[j] /\ node[i] # NULL => i = j
  <2> SUFFICES ASSUME NEW i \in 0..n, NEW j \in 0..n, node[i] = node[j], node[i] # NULL
               PROVE  i = j
    OBVIOUS
  <2>1. ~(i < j) /\ ~(j < i)
    BY <1>10
  <2> QED
    BY <1>2, <2>1
<1>12. DOMAIN node = 0..n
  BY <1>1
<1> QED
  BY <1>3, <1>9, <1>11, <1>12 DEF node

-----------------------------------------------------------------------------
(***************************************************************************)
(* The list of every task that is not deleted, but for h, holds the        *)
(* mutexes that own says are its own.                                      *)
(***************************************************************************)
Mine(own, t) == {m \in Mutex : own[m] = t}

Lists(k, own, h) ==
    \A t \in Task \ {h} :
        k.tcb[t].state # "DELETED" => Linked(k, k.tcb[t].mutex_list, Mine(own, t))

OwnType == [Mutex -> Task \cup {NULL}]

LEMMA ListsSame ==
    ASSUME NEW k, NEW own, NEW h, Lists(k, own, h), NEW k2,
           \A m \in Mutex : own[m] # NULL => k2.mtx[m].next = k.mtx[m].next,
           \A t \in Task \ {h} :
               /\ k2.tcb[t].mutex_list = k.tcb[t].mutex_list
               /\ k2.tcb[t].state # "DELETED" => k.tcb[t].state # "DELETED"
    PROVE  Lists(k2, own, h)
<1> SUFFICES ASSUME NEW t \in Task \ {h}, k2.tcb[t].state # "DELETED"
             PROVE  Linked(k2, k2.tcb[t].mutex_list, Mine(own, t))
  BY DEF Lists
<1>1. Linked(k, k.tcb[t].mutex_list, Mine(own, t))
  BY DEF Lists
<1>2. \A x \in Mine(own, t) : k2.mtx[x].next = k.mtx[x].next
  BY Kinds DEF Mine
<1> HIDE DEF Mine
<1>3. Linked(k2, k.tcb[t].mutex_list, Mine(own, t))
  BY <1>1, <1>2, LinkedSame
<1> QED
  BY <1>3

(* What a change of the links leaves alone. *)
Relinked(k, k2) ==
    /\ k2.live = k.live
    /\ \A m \in Mutex : k2.mtx[m].task = k.mtx[m].task /\ k2.mtx[m].nested = k.mtx[m].nested
    /\ \A u \in Task : /\ k2.tcb[u].state = k.tcb[u].state
                       /\ k2.tcb[u].blk_obj = k.tcb[u].blk_obj
                       /\ k2.tcb[u].blk_state = k.tcb[u].blk_state

(* A mutex list is given a new head. *)
LEMMA NewHead ==
    ASSUME NEW k \in KState, NEW t \in Task, NEW m \in Mutex \cup {NULL}
    PROVE  LET k2 == [k EXCEPT !.tcb[t].mutex_list = m]
           IN  /\ k2.mtx = k.mtx /\ k2.live = k.live /\ k2.tcb[t].mutex_list = m
               /\ \A u \in Task \ {t} : k2.tcb[u].mutex_list = k.tcb[u].mutex_list
<1> DEFINE k2 == [k EXCEPT !.tcb[t].mutex_list = m]
<1>1. /\ k2.mtx = k.mtx /\ Alike(k, k2) /\ k2.tcb[t].mutex_list = m
      /\ \A u \in AllTask \ {t} : k2.tcb[u] = k.tcb[u]
  BY WithMutexList
<1> HIDE DEF k2
<1>2. /\ k2.mtx = k.mtx /\ k2.live = k.live /\ k2.tcb[t].mutex_list = m
      /\ \A u \in Task \ {t} : k2.tcb[u].mutex_list = k.tcb[u].mutex_list
  BY <1>1, Kinds DEF Alike
<1> QED
  BY <1>2 DEF k2

LEMMA PushMutexIs ==
    ASSUME NEW k, Good(k), NEW t \in Task, NEW m \in Mutex, NEW k2, k2 = PushMutex(k, t, m)
    PROVE  /\ Relinked(k, k2)
           /\ INHERIT => /\ k2.mtx[m].next = k.tcb[t].mutex_list
                         /\ \A x \in Mutex \ {m} : k2.mtx[x].next = k.mtx[x].next
                         /\ k2.tcb[t].mutex_list = m
                         /\ \A u \in Task \ {t} : k2.tcb[u].mutex_list = k.tcb[u].mutex_list
           /\ ~INHERIT => k2 = k
<1>0. k \in KState /\ Alike(k, k2)
  BY GoodState, PushMutexOf
<1>1. CASE ~INHERIT
  BY <1>1 DEF PushMutex, Relinked
<1>2. CASE INHERIT
  <2> DEFINE h == k.tcb[t].mutex_list
             r == [k.mtx[m] EXCEPT !.next = h]
             f == [k.mtx EXCEPT ![m] = r]
             x == [k EXCEPT !.mtx = f]
  <2>1. h \in Mutex \cup {NULL}
    BY <1>0, Kinds, Fields, TcbFields
  <2>2. /\ r \in MutexRecord /\ r.next = h
        /\ r.task = k.mtx[m].task /\ r.nested = k.mtx[m].nested
    BY <1>0, <2>1, MutexFields DEF MutexRecord
  <2>3. k2 = [x EXCEPT !.tcb[t].mutex_list = m]
    BY <1>2 DEF PushMutex
  <2> HIDE DEF r
  <2>4. /\ f \in [Mutex -> MutexRecord] /\ f[m] = r
        /\ \A y \in Mutex \ {m} : f[y] = k.mtx[y]
    BY <1>0, <2>2, Fields
  <2> HIDE DEF f
  <2>5. x \in KState /\ x.mtx = f /\ x.tcb = k.tcb /\ Alike(k, x)
    BY <1>0, <2>4, WithMtx
  <2> HIDE DEF x
  <2>6. /\ k2.mtx = x.mtx /\ k2.tcb[t].mutex_list = m
        /\ \A u \in Task \ {t} : k2.tcb[u].mutex_list = x.tcb[u].mutex_list
    BY <1>2, <2>3, <2>5, NewHead
  <2>7. Relinked(k, k2)
    <3>1. \A y \in Mutex : k2.mtx[y].task = k.mtx[y].task /\ k2.mtx[y].nested = k.mtx[y].nested
      BY <2>2, <2>4, <2>5, <2>6
    <3> QED
      BY <1>0, <3>1, Kinds DEF Alike, Relinked
  <2> QED
    BY <1>2, <2>2, <2>4, <2>5, <2>6, <2>7
<1> QED
  BY <1>1, <1>2

LEMMA UnlinkMutexIs ==
    ASSUME NEW k, Good(k), NEW t \in Task, NEW m \in Mutex, NEW k2, k2 = UnlinkMutex(k, t, m)
    PROVE  /\ Relinked(k, k2)
           /\ \A u \in Task \ {t} : k2.tcb[u].mutex_list = k.tcb[u].mutex_list
           /\ k.tcb[t].mutex_list = m =>
                  k2.mtx = k.mtx /\ k2.tcb[t].mutex_list = k.mtx[m].next
           /\ k.tcb[t].mutex_list # m =>
                  /\ k2.tcb[t].mutex_list = k.tcb[t].mutex_list
                  /\ \A x \in Mutex :
                        k2.mtx[x].next = IF x \in Held(k, t) /\ k.mtx[x].next = m
                                         THEN k.mtx[m].next ELSE k.mtx[x].next
<1>0. k \in KState /\ k.mtx[m].next \in Mutex \cup {NULL} /\ Alike(k, k2)
  BY GoodState, MutexFields, UnlinkMutexOf
<1>1. CASE k.tcb[t].mutex_list = m
  <2>1. k2 = [k EXCEPT !.tcb[t].mutex_list = k.mtx[m].next]
    BY <1>1 DEF UnlinkMutex
  <2>2. /\ k2.mtx = k.mtx /\ k2.tcb[t].mutex_list = k.mtx[m].next
        /\ \A u \in Task \ {t} : k2.tcb[u].mutex_list = k.tcb[u].mutex_list
    BY <1>0, <2>1, NewHead
  <2>3. Relinked(k, k2)
    BY <1>0, <2>2, Kinds DEF Alike, Relinked
  <2> QED
    BY <1>1, <2>2, <2>3
<1>2. CASE k.tcb[t].mutex_list # m
  <2> DEFINE r(x) == IF x \in Held(k, t) /\ k.mtx[x].next = m
                     THEN [k.mtx[x] EXCEPT !.next = k.mtx[m].next] ELSE k.mtx[x]
             f == [x \in Mutex |-> r(x)]
  <2>1. ASSUME NEW x \in Mutex
        PROVE  /\ r(x) \in MutexRecord
               /\ r(x).task = k.mtx[x].task /\ r(x).nested = k.mtx[x].nested
               /\ r(x).next = IF x \in Held(k, t) /\ k.mtx[x].next = m
                              THEN k.mtx[m].next ELSE k.mtx[x].next
    BY <1>0, MutexFields DEF MutexRecord
  <2>2. k2 = [k EXCEPT !.mtx = f]
    BY <1>2 DEF UnlinkMutex
  <2> HIDE DEF r
  <2>3. f \in [Mutex -> MutexRecord] /\ \A x \in Mutex : f[x] = r(x)
    BY <2>1
  <2> HIDE DEF f
  <2>4. k2.mtx = f /\ k2.tcb = k.tcb
    BY <1>0, <2>2, <2>3, WithMtx
  <2>5. Relinked(k, k2)
    BY <1>0, <2>1, <2>3, <2>4 DEF Alike, Relinked
  <2> QED
    BY <1>2, <2>1, <2>3, <2>4, <2>5
<1> QED
  BY <1>1, <1>2

(* A mutex that nobody but h owns is given to t. *)
LEMMA PushLists ==
    ASSUME NEW k, Good(k), NEW own \in OwnType, NEW h, Lists(k, own, h), NEW t \in Task,
           NEW m \in Mutex, own[m] \in {NULL, h}, INHERIT, NEW k2, k2 = PushMutex(k, t, m)
    PROVE  Lists(k2, [own EXCEPT ![m] = t], h)
<1> DEFINE own2 == [own EXCEPT ![m] = t]
<1>1. /\ Relinked(k, k2)
      /\ k2.mtx[m].next = k.tcb[t].mutex_list /\ k2.tcb[t].mutex_list = m
      /\ \A x \in Mutex \ {m} : k2.mtx[x].next = k.mtx[x].next
      /\ \A u \in Task \ {t} : k2.tcb[u].mutex_list = k.tcb[u].mutex_list
  BY PushMutexIs
<1>2. own2[m] = t /\ \A x \in Mutex \ {m} : own2[x] = own[x]
  BY DEF OwnType
<1> HIDE DEF own2
<1>3. SUFFICES ASSUME NEW u \in Task \ {h}, k2.tcb[u].state # "DELETED"
               PROVE  Linked(k2, k2.tcb[u].mutex_list, Mine(own2, u))
  BY DEF Lists, own2
<1>4. Linked(k, k.tcb[u].mutex_list, Mine(own, u))
  BY <1>1, <1>3 DEF Lists, Relinked
<1>5. m \notin Mine(own, u) /\ Mine(own, u) \subseteq Mutex
  BY <1>3, Kinds DEF Mine
<1>6. CASE u = t
  <2>1. Mine(own2, u) = Mine(own, u) \cup {m}
    BY <1>2, <1>6 DEF Mine
  <2>2. \A x \in Mine(own, u) : k2.mtx[x].next = k.mtx[x].next
    BY <1>1, <1>5
  <2>3. Linked(k2, m, Mine(own, u) \cup {m})
    BY <1>1, <1>4, <1>5, <1>6, <2>2, LinkedPush
  <2> QED
    BY <1>1, <1>6, <2>1, <2>3
<1>7. CASE u # t
  <2>1. Mine(own2, u) = Mine(own, u)
    BY <1>2, <1>5, <1>7 DEF Mine
  <2>2. \A x \in Mine(own, u) : k2.mtx[x].next = k.mtx[x].next
    BY <1>1, <1>5
  <2>3. Linked(k2, k.tcb[u].mutex_list, Mine(own, u))
    BY <1>4, <2>2, LinkedSame
  <2>4. k2.tcb[u].mutex_list = k.tcb[u].mutex_list
    BY <1>1, <1>7
  <2> QED
    BY <2>1, <2>3, <2>4
<1> QED
  BY <1>6, <1>7

(* The owner t gives up the mutex m. *)
LEMMA GivenLists ==
    ASSUME NEW k, Good(k), NEW own \in OwnType, Lists(k, own, NULL), NEW t \in Task,
           k.tcb[t].state # "DELETED", NEW m \in Mutex, own[m] = t, INHERIT,
           NEW k2, k2 = Given(k, t, m)
    PROVE  Relinked(k, k2) /\ Lists(k2, [own EXCEPT ![m] = NULL], NULL)
<1> DEFINE own2 == [own EXCEPT ![m] = NULL]
           S == Mine(own, t)
<1>1. k \in KState
  BY GoodState
<1>2. Linked(k, k.tcb[t].mutex_list, S)
  BY Kinds DEF Lists
<1>3. m \in S /\ S \subseteq Mutex
  BY DEF Mine
<1> HIDE DEF S
<1>4. Held(k, t) = S
  BY <1>1, <1>2, LinksAre
<1>5. k2 = UnlinkMutex(k, t, m)
  BY <1>3, <1>4, Kinds DEF Given
<1>6. /\ Relinked(k, k2)
      /\ \A u \in Task \ {t} : k2.tcb[u].mutex_list = k.tcb[u].mutex_list
      /\ k.tcb[t].mutex_list = m =>
             k2.mtx = k.mtx /\ k2.tcb[t].mutex_list = k.mtx[m].next
      /\ k.tcb[t].mutex_list # m =>
             /\ k2.tcb[t].mutex_list = k.tcb[t].mutex_list
             /\ \A x \in Mutex :
                   k2.mtx[x].next = IF x \in S /\ k.mtx[x].next = m
                                    THEN k.mtx[m].next ELSE k.mtx[x].next
  BY <1>4, <1>5, UnlinkMutexIs
<1>7. own2[m] = NULL /\ \A x \in Mutex \ {m} : own2[x] = own[x]
  BY DEF OwnType
<1> HIDE DEF own2
<1>8. ASSUME NEW u \in Task \ {NULL}, k2.tcb[u].state # "DELETED"
      PROVE  Linked(k2, k2.tcb[u].mutex_list, Mine(own2, u))
  <2>1. CASE u = t
    <3>1. Mine(own2, u) = S \ {m}
      BY <1>7, <2>1, Kinds DEF Mine, S
    <3>2. CASE k.tcb[t].mutex_list = m
      <4>1. Linked(k, k.mtx[m].next, S \ {m})
        BY <1>2, <3>2, Kinds, LinkedRest
      <4>2. Linked(k2, k.mtx[m].next, S \ {m})
        BY <1>6, <3>2, <4>1, LinkedSame
      <4> QED
        BY <1>6, <2>1, <3>1, <3>2, <4>2
    <3>3. CASE k.tcb[t].mutex_list # m
      <4>1. \A x \in S : k2.mtx[x].next = IF k.mtx[x].next = m THEN k.mtx[m].next
                                          ELSE k.mtx[x].next
        BY <1>3, <1>6, <3>3
      <4>2. Linked(k2, k.tcb[t].mutex_list, S \ {m})
        BY <1>2, <1>3, <3>3, <4>1, LinkedOut
      <4> QED
        BY <1>6, <2>1, <3>1, <3>3, <4>2
    <3> QED
      BY <3>2, <3>3
  <2>2. CASE u # t
    <3>1. Mine(own2, u) = Mine(own, u)
      BY <1>7, <2>2, Kinds DEF Mine
    <3>2. Linked(k, k.tcb[u].mutex_list, Mine(own, u))
      BY <1>6, <1>8 DEF Lists, Relinked
    <3>3. \A x \in Mine(own, u) : k2.mtx[x].next = k.mtx[x].next
      <4>1. \A x \in Mine(own, u) : x \in Mutex /\ x \notin S
        BY <2>2 DEF Mine, S
      <4> QED
        BY <1>6, <4>1
    <3>4. Linked(k2, k.tcb[u].mutex_list, Mine(own, u))
      BY <3>2, <3>3, LinkedSame
    <3> QED
      BY <1>6, <2>2, <3>1, <3>4
  <2> QED
    BY <2>1, <2>2
<1>9. Lists(k2, own2, NULL)
  BY <1>8 DEF Lists
<1> QED
  BY <1>6, <1>9 DEF own2

-----------------------------------------------------------------------------
(***************************************************************************)
(* The invariant.  Owner: the owners of the mutexes that exist, when they  *)
(* are listed at all.  Claim: what task u is told about mutexes.           *)
(*  - A mutex that u waits for has an owner, and that is not u.            *)
(*  - Without krhino_task_del no task is ever deleted.                     *)
(*  - A call that locks a mutex waits for that one, or is over.            *)
(*  - Strict: where no task is deleted and no mutex made anew, such a call *)
(*    that is over was told that it got the mutex if and only if u owns    *)
(*    it, and then holds it once.                                          *)
(***************************************************************************)
Owner(k) == [m \in Mutex |-> IF INHERIT /\ m \in k.live THEN k.mtx[m].task ELSE NULL]

OwnersAlive(k) ==
    \A m \in Mutex : Owner(k)[m] # NULL => k.tcb[Owner(k)[m]].state # "DELETED"

Strict == {"task_del", "mutex_create"} \cap Calls = {}

Waits(k, u, m) == k.tcb[u].state \in Pending /\ k.tcb[u].blk_obj = m

Over(k, u) == k.tcb[u].state \in {"RDY", "SUSPENDED"}

Told(k, u, m) ==
    IF k.tcb[u].blk_state = "FINISH" THEN k.mtx[m].task = u /\ k.mtx[m].nested = 1
    ELSE k.mtx[m].task # u

Claim(k, c, u) ==
    /\ \A m \in Mutex : Waits(k, u, m) => k.mtx[m].task \notin {NULL, u}
    /\ "task_del" \notin Calls => k.tcb[u].state # "DELETED"
    /\ c[u] \in Mutex => Over(k, u) \/ Waits(k, u, c[u])
    /\ Strict /\ c[u] \in Mutex \cap k.live /\ Over(k, u) => Told(k, u, c[u])

Own(k, c) == Lists(k, Owner(k), NULL) /\ OwnersAlive(k) /\ \A u \in Task : Claim(k, c, u)

OwnInv == Own(Kernel, call)

LEMMA OwnerType ==
    ASSUME NEW k \in KState
    PROVE  /\ Owner(k) \in OwnType
           /\ \A m \in Mutex : Owner(k)[m] =
                  IF INHERIT /\ m \in k.live THEN k.mtx[m].task ELSE NULL
BY MutexFields DEF Owner, OwnType

LEMMA OwnerSame ==
    ASSUME NEW k, NEW k2, \A m \in Mutex : k2.mtx[m].task = k.mtx[m].task,
           Mutex \cap k2.live = Mutex \cap k.live
    PROVE  Owner(k2) = Owner(k)
BY DEF Owner

(* What the helpers do to a task that gets no mutex. *)
Eased(a, b) ==
    /\ b.state \in Pending => a.state \in Pending /\ b.blk_obj = a.blk_obj
    /\ b.state \in Sleeping => a.state \in Sleeping
    /\ b.state = "DELETED" <=> a.state = "DELETED"
    /\ b.state \in {"RDY", "SUSPENDED"} =>
           IF a.state \in {"RDY", "SUSPENDED"} THEN b.blk_state = a.blk_state
           ELSE a.state \in Pending /\ a.blk_obj \in Mutex => b.blk_state # "FINISH"

SameList(k, k2, u) == k2.tcb[u].mutex_list = k.tcb[u].mutex_list

LEMMA EasedSame ==
    ASSUME NEW a
    PROVE  Eased(a, a)
BY DEF Eased

SameOwners(k, k2) ==
    \A m \in Mutex : k2.mtx[m].task = k.mtx[m].task /\ k2.mtx[m].nested = k.mtx[m].nested

LEMMA ClaimEased ==
    ASSUME NEW k, NEW c, NEW u, Claim(k, c, u), NEW k2, SameOwners(k, k2),
           Mutex \cap k2.live \subseteq k.live, Eased(k.tcb[u], k2.tcb[u]),
           k2.tcb[u].state \in TaskState
    PROVE  Claim(k2, c, u)
<1>1. \A m : Waits(k2, u, m) => Waits(k, u, m)
  BY DEF Waits, Eased
<1>2. \A m \in Mutex : Waits(k2, u, m) => k2.mtx[m].task \notin {NULL, u}
  BY <1>1 DEF Claim, SameOwners
<1>3. "task_del" \notin Calls => k2.tcb[u].state # "DELETED"
  BY DEF Claim, Eased
<1>4. ASSUME c[u] \in Mutex PROVE Over(k2, u) \/ Waits(k2, u, c[u])
  <2>1. Over(k, u) \/ Waits(k, u, c[u])
    BY <1>4 DEF Claim
  <2>2. k.tcb[u].state \notin Sleeping \cup {"DELETED"}
    BY <2>1, States DEF Over, Waits
  <2>3. k2.tcb[u].state \notin Sleeping \cup {"DELETED"}
    BY <2>2 DEF Eased
  <2>4. k2.tcb[u].state \in {"RDY", "SUSPENDED"} \/ k2.tcb[u].state \in Pending
    BY <2>3, States
  <2> QED
    BY <2>1, <2>4, States DEF Over, Waits, Eased
<1>5. ASSUME Strict, c[u] \in Mutex \cap k2.live, Over(k2, u) PROVE Told(k2, u, c[u])
  <2>1. c[u] \in Mutex \cap k.live
    BY <1>5
  <2>2. CASE Over(k, u)
    <3>1. Told(k, u, c[u])
      BY <1>5, <2>1, <2>2 DEF Claim
    <3>2. k2.tcb[u].blk_state = k.tcb[u].blk_state
      BY <1>5, <2>2 DEF Over, Eased
    <3> QED
      BY <2>1, <3>1, <3>2 DEF Told, SameOwners
  <2>3. CASE ~Over(k, u)
    <3>1. Waits(k, u, c[u])
      BY <2>1, <2>3 DEF Claim
    <3>2. k2.mtx[c[u]].task # u
      BY <2>1, <3>1 DEF Claim, SameOwners
    <3>3. k2.tcb[u].blk_state # "FINISH"
      BY <1>5, <2>1, <2>3, <3>1 DEF Over, Waits, Eased
    <3> QED
      BY <3>2, <3>3 DEF Told
  <2> QED
    BY <2>2, <2>3
<1> QED
  BY <1>2, <1>3, <1>4, <1>5 DEF Claim

(* All tasks but t are eased, and t has no other list. *)
LEMMA OwnNear ==
    ASSUME NEW k \in KState, NEW c, Own(k, c), NEW k2 \in KState, NEW t, k2.mtx = k.mtx,
           Mutex \cap k2.live = Mutex \cap k.live,
           \A u \in Task \ {t} : Eased(k.tcb[u], k2.tcb[u]) /\ SameList(k, k2, u),
           t \in Task => /\ SameList(k, k2, t)
                         /\ k2.tcb[t].state = "DELETED" <=> k.tcb[t].state = "DELETED",
           NEW c2, \A u \in Task \ {t} : c2[u] = c[u], t \in Task => Claim(k2, c2, t)
    PROVE  Own(k2, c2)
<1>1. Owner(k2) = Owner(k)
  BY OwnerSame
<1>2. \A u \in Task : /\ k2.tcb[u].mutex_list = k.tcb[u].mutex_list
                      /\ k2.tcb[u].state = "DELETED" <=> k.tcb[u].state = "DELETED"
  BY DEF Eased, SameList
<1>3. Lists(k2, Owner(k2), NULL)
  <2>1. Lists(k, Owner(k), NULL)
    BY DEF Own
  <2> QED
    BY <1>1, <1>2, <2>1, ListsSame
<1>4. OwnersAlive(k2)
  <2>1. \A m \in Mutex : Owner(k)[m] \in Task \cup {NULL}
    BY OwnerType DEF OwnType
  <2> QED
    BY <1>1, <1>2, <2>1 DEF Own, OwnersAlive
<1>5. ASSUME NEW u \in Task PROVE Claim(k2, c2, u)
  <2>1. CASE u = t
    BY <2>1
  <2>2. CASE u # t
    <3>1. Claim(k, c, u) /\ Eased(k.tcb[u], k2.tcb[u]) /\ c2[u] = c[u]
      BY <2>2 DEF Own
    <3>2. k2.tcb[u].state \in TaskState
      BY Fields, TcbFields, Kinds
    <3>3. Claim(k2, c, u)
      <4>1. SameOwners(k, k2) /\ Mutex \cap k2.live \subseteq k.live
        BY DEF SameOwners
      <4> QED
        BY <3>1, <3>2, <4>1, ClaimEased
    <3> QED
      BY <3>1, <3>3 DEF Claim
  <2> QED
    BY <2>1, <2>2
<1> QED
  BY <1>3, <1>4, <1>5 DEF Own

LEMMA OwnEased ==
    ASSUME NEW k \in KState, NEW c, Own(k, c), NEW k2 \in KState, k2.mtx = k.mtx,
           Mutex \cap k2.live = Mutex \cap k.live,
           \A u \in Task : Eased(k.tcb[u], k2.tcb[u]) /\ SameList(k, k2, u)
    PROVE  Own(k2, c)
<1>1. NULL \notin Task
  BY Kinds
<1> QED
  BY <1>1, OwnNear

LEMMA TiedEased ==
    ASSUME NEW k, NEW k2, NEW h, Tied(k, k2, h)
    PROVE  \A u \in Task \ {h} : Eased(k.tcb[u], k2.tcb[u]) /\ SameList(k, k2, u)
BY Kinds DEF Tied, Softer, Eased, SameClaims, SameList

LEMMA OwnTied ==
    ASSUME NEW k \in KState, NEW c, Own(k, c), NEW k2 \in KState, Tied(k, k2, NULL)
    PROVE  Own(k2, c)
<1>1. \A u \in Task : Eased(k.tcb[u], k2.tcb[u]) /\ SameList(k, k2, u)
  BY TiedEased, Kinds
<1> QED
  BY <1>1, OwnEased DEF Tied

-----------------------------------------------------------------------------
(* Changes of one mutex. *)
Others(k, k2, m) == \A x \in Mutex \ {m} : k2.mtx[x] = k.mtx[x]

PutMtx(k, m, r)    == [k EXCEPT !.mtx[m] = r]
PutOwner(k, m, v)  == [k EXCEPT !.mtx[m].task = v]
PutNested(k, m, n) == [k EXCEPT !.mtx[m].nested = n]

LEMMA WithRecord ==
    ASSUME NEW k, Good(k), NEW m \in Mutex, NEW r \in MutexRecord,
           NEW k2, k2 = PutMtx(k, m, r)
    PROVE  /\ Good(k2) /\ Alike(k, k2) /\ k2.tcb = k.tcb
           /\ k2.mtx[m] = r /\ Others(k, k2, m)
<1> DEFINE f == [k.mtx EXCEPT ![m] = r]
<1>1. k \in KState /\ k.mtx \in [Mutex -> MutexRecord]
  BY GoodState, Fields
<1>2. f \in [Mutex -> MutexRecord] /\ f[m] = r /\ \A x \in Mutex \ {m} : f[x] = k.mtx[x]
  BY <1>1
<1>3. k2 = [k EXCEPT !.mtx = f]
  BY DEF PutMtx
<1> HIDE DEF f
<1>4. Alike(k, k2) /\ k2.mtx = f /\ k2.tcb = k.tcb
  BY <1>1, <1>2, <1>3, WithMtx
<1>5. Good(k2)
  BY <1>4, AlikeOf
<1> QED
  BY <1>2, <1>4, <1>5 DEF Others

LEMMA NewOwner ==
    ASSUME NEW k, Good(k), NEW m \in Mutex, NEW v \in Task \cup {NULL},
           NEW k2, k2 = PutOwner(k, m, v)
    PROVE  /\ Good(k2) /\ Alike(k, k2) /\ k2.tcb = k.tcb /\ Others(k, k2, m)
           /\ k2.mtx[m].task = v /\ k2.mtx[m].next = k.mtx[m].next
           /\ k2.mtx[m].nested = k.mtx[m].nested
<1> DEFINE r == [k.mtx[m] EXCEPT !.task = v]
<1>1. /\ r \in MutexRecord /\ r.task = v /\ r.next = k.mtx[m].next
      /\ r.nested = k.mtx[m].nested
  BY GoodState, MutexFields DEF MutexRecord
<1>2. k2 = PutMtx(k, m, r)
  BY DEF PutMtx, PutOwner
<1> HIDE DEF r
<1>3. Good(k2) /\ Alike(k, k2) /\ k2.tcb = k.tcb /\ k2.mtx[m] = r /\ Others(k, k2, m)
  BY <1>1, <1>2, WithRecord
<1> QED
  BY <1>1, <1>3

LEMMA NewNested ==
    ASSUME NEW k, Good(k), NEW m \in Mutex, NEW n \in 0..MaxNested,
           NEW k2, k2 = PutNested(k, m, n)
    PROVE  /\ Good(k2) /\ Alike(k, k2) /\ k2.tcb = k.tcb /\ Others(k, k2, m)
           /\ k2.mtx[m].nested = n /\ k2.mtx[m].next = k.mtx[m].next
           /\ k2.mtx[m].task = k.mtx[m].task
<1> DEFINE r == [k.mtx[m] EXCEPT !.nested = n]
<1>1. /\ r \in MutexRecord /\ r.nested = n /\ r.next = k.mtx[m].next
      /\ r.task = k.mtx[m].task
  BY GoodState, MutexFields DEF MutexRecord
<1>2. k2 = PutMtx(k, m, r)
  BY DEF PutMtx, PutNested
<1> HIDE DEF r
<1>3. Good(k2) /\ Alike(k, k2) /\ k2.tcb = k.tcb /\ k2.mtx[m] = r /\ Others(k, k2, m)
  BY <1>1, <1>2, WithRecord
<1> QED
  BY <1>1, <1>3

(***************************************************************************)
(* The mutex m passes to v, the waiter that is woken for it, or to nobody  *)
(* (NULL); the other tasks are eased.                                      *)
(***************************************************************************)
Passed(k, k2, m, v) ==
    /\ k2.live = k.live
    /\ k2.mtx[m].task = v
    /\ \A x \in Mutex \ {m} : /\ k2.mtx[x].task = k.mtx[x].task
                              /\ k2.mtx[x].nested = k.mtx[x].nested
    /\ \A u \in Task \ {v} : Eased(k.tcb[u], k2.tcb[u])
    /\ IF v = NULL THEN \A u \in Task : ~Waits(k, u, m)
       ELSE Waits(k, v, m) /\ Over(k2, v) /\ k2.tcb[v].blk_state = "FINISH"

LEMMA ClaimPassed ==
    ASSUME NEW k, NEW c, NEW u \in Task, Claim(k, c, u), NEW k2 \in KState, NEW m \in Mutex,
           NEW v, Passed(k, k2, m, v), Strict => c[u] # m \/ k.mtx[m].task # u,
           Strict => v = NULL \/ k2.mtx[m].nested = 1
    PROVE  Claim(k2, c, u)
<1>1. CASE u = v
  <2>1. v # NULL /\ Waits(k, v, m) /\ Over(k2, v) /\ k2.tcb[v].blk_state = "FINISH"
    BY <1>1, Kinds DEF Passed
  <2>2. ~Over(k, u) /\ \A x : ~Waits(k2, u, x)
    BY <1>1, <2>1, States DEF Over, Waits
  <2>3. c[u] \in Mutex => c[u] = m
    BY <1>1, <2>1, <2>2 DEF Claim, Waits
  <2>4. Strict => Told(k2, u, m)
    BY <1>1, <2>1 DEF Told, Passed
  <2>5. k2.tcb[u].state # "DELETED"
    BY <1>1, <2>1 DEF Over
  <2> QED
    BY <1>1, <2>1, <2>2, <2>3, <2>4, <2>5 DEF Claim
<1>2. CASE u # v
  <2>1. Eased(k.tcb[u], k2.tcb[u]) /\ k2.tcb[u].state \in TaskState
    BY <1>2, Fields, TcbFields, Kinds DEF Passed
  <2>2. \A x : Waits(k2, u, x) => Waits(k, u, x)
    BY <2>1 DEF Waits, Eased
  <2>3. ASSUME NEW x \in Mutex, Waits(k2, u, x) PROVE k2.mtx[x].task \notin {NULL, u}
    <3>1. Waits(k, u, x) /\ k.mtx[x].task \notin {NULL, u}
      BY <2>2, <2>3 DEF Claim
    <3> QED
      BY <1>2, <3>1 DEF Passed
  <2>4. "task_del" \notin Calls => k2.tcb[u].state # "DELETED"
    BY <2>1 DEF Claim, Eased
  <2>5. ASSUME c[u] \in Mutex PROVE Over(k2, u) \/ Waits(k2, u, c[u])
    <3>1. Over(k, u) \/ Waits(k, u, c[u])
      BY <2>5 DEF Claim
    <3>2. k.tcb[u].state \notin Sleeping \cup {"DELETED"}
      BY <3>1, States DEF Over, Waits
    <3>3. k2.tcb[u].state \notin Sleeping \cup {"DELETED"}
      BY <2>1, <3>2 DEF Eased
    <3>4. k2.tcb[u].state \in {"RDY", "SUSPENDED"} \/ k2.tcb[u].state \in Pending
      BY <2>1, <3>3, States
    <3> QED
      BY <2>1, <3>1, <3>4, States DEF Over, Waits, Eased
  <2>6. ASSUME Strict, c[u] \in Mutex \cap k2.live, Over(k2, u) PROVE Told(k2, u, c[u])
    <3>1. c[u] \in Mutex \cap k.live
      BY <2>6 DEF Passed
    <3>2. Over(k, u) => Told(k, u, c[u]) /\ k2.tcb[u].blk_state = k.tcb[u].blk_state
      BY <2>1, <2>6, <3>1 DEF Claim, Over, Eased
    <3>3. ~Over(k, u) => k.mtx[c[u]].task # u /\ k2.tcb[u].blk_state # "FINISH"
      BY <2>1, <2>6, <3>1 DEF Claim, Over, Waits, Eased
    <3>4. CASE c[u] = m
      <4>1. k2.tcb[u].blk_state # "FINISH"
        BY <2>6, <3>2, <3>3, <3>4 DEF Told
      <4> QED
        BY <1>2, <3>4, <4>1 DEF Told, Passed
    <3>5. CASE c[u] # m
      <4>1. /\ k2.mtx[c[u]].task = k.mtx[c[u]].task
            /\ k2.mtx[c[u]].nested = k.mtx[c[u]].nested
        BY <3>1, <3>5 DEF Passed
      <4> QED
        BY <3>2, <3>3, <4>1 DEF Told
    <3> QED
      BY <3>4, <3>5
  <2> QED
    BY <2>3, <2>4, <2>5, <2>6 DEF Claim
<1> QED
  BY <1>1, <1>2

(***************************************************************************)
(* The mutex m is handed over.  own says who owned what before, m not      *)
(* being on a list but h's.                                                *)
(***************************************************************************)
Reowned(own, m, v) == IF INHERIT THEN [own EXCEPT ![m] = v] ELSE own

NextsKept(k, k2, m) == \A x \in Mutex \ {m} : k2.mtx[x].next = k.mtx[x].next

LEMMA ReownedIs ==
    ASSUME NEW k \in KState, NEW own \in OwnType, NEW m \in Mutex, NEW v,
           \A x \in Mutex \ {m} : own[x] = Owner(k)[x], m \in k.live \/ v = NULL \/ ~INHERIT,
           ~INHERIT => own = Owner(k),
           NEW k2, k2.live = k.live, k2.mtx[m].task = v \/ m \notin k.live,
           \A x \in Mutex \ {m} : k2.mtx[x].task = k.mtx[x].task
    PROVE  Owner(k2) = Reowned(own, m, v)
<1>1. CASE ~INHERIT
  BY <1>1 DEF Owner, Reowned
<1>2. CASE INHERIT
  <2> DEFINE own2 == [own EXCEPT ![m] = v]
  <2>1. own2 = [x \in Mutex |-> IF x = m THEN v ELSE own[x]]
    BY DEF OwnType
  <2>2. ASSUME NEW x \in Mutex PROVE Owner(k2)[x] = IF x = m THEN v ELSE own[x]
    BY <1>2, <2>2 DEF Owner
  <2>3. Owner(k2) = [x \in Mutex |-> Owner(k2)[x]]
    BY DEF Owner
  <2>4. Owner(k2) = own2
    BY <2>1, <2>2, <2>3
  <2> QED
    BY <1>2, <2>4 DEF Reowned
<1> QED
  BY <1>1, <1>2

LEMMA HandOverIs ==
    ASSUME NEW k, Good(k), NEW m \in Mutex, k.waitq[m] # <<>>, NEW own \in OwnType, NEW h,
           Lists(k, own, h), INHERIT => own[m] \in {NULL, h}, NEW k2, k2 = HandOver(k, m),
           NEW v, v = Head(k.waitq[m])
    PROVE  /\ v \in Task /\ Good(k2) /\ Passed(k, k2, m, v) /\ NextsKept(k, k2, m)
           /\ Lists(k2, Reowned(own, m, v), h) /\ k2.mtx[m].nested = k.mtx[m].nested
<1> DEFINE x1 == PendTaskWakeup(k, v)
           x2 == PutOwner(x1, m, v)
<1>1. m \in Obj /\ "FINISH" \in BlkState \ {"STALE"}
  BY Kinds DEF BlkState
<1>2. v \in Task /\ k.tcb[v].state \in Pending /\ k.tcb[v].blk_obj = m
  BY <1>1, FirstWaiter
<1>3. x1 = WakeAs(k, v, "FINISH")
  BY DEF PendTaskWakeup, WakeAs, PutBlkObj
<1>4. k2 = PushMutex(x2, v, m)
  BY DEF HandOver, PutOwner
<1> HIDE DEF x1
<1>5. /\ Good(x1) /\ Near(k, x1, v)
      /\ x1.tcb[v] = TcbBlkObj(Woken(k.tcb[v], "FINISH"), NULL)
  BY <1>1, <1>2, <1>3, WakeAsOf
<1>6. k.tcb[v] \in Tcb /\ v \in AllTask
  BY <1>2, GoodState, Fields, Kinds
<1>7. /\ x1.tcb[v].state \in {"RDY", "SUSPENDED"} /\ x1.tcb[v].blk_state = "FINISH"
      /\ x1.tcb[v].mutex_list = k.tcb[v].mutex_list
  BY <1>5, <1>6 DEF TcbBlkObj, Woken, Tcb
<1>8. /\ Good(x2) /\ x2.tcb = x1.tcb /\ Alike(x1, x2) /\ Others(x1, x2, m)
      /\ x2.mtx[m].task = v /\ x2.mtx[m].next = x1.mtx[m].next
      /\ x2.mtx[m].nested = x1.mtx[m].nested
  BY <1>2, <1>5, NewOwner
<1> HIDE DEF x2
<1>9. Good(k2)
  BY <1>2, <1>4, <1>8, PushMutexOf
<1>10. Relinked(x2, k2)
  BY <1>2, <1>4, <1>8, PushMutexIs
<1>11. NextsKept(x2, k2, m)
  <2>1. CASE INHERIT
    BY <1>2, <1>4, <1>8, <2>1, PushMutexIs DEF NextsKept
  <2>2. CASE ~INHERIT
    <3>1. k2 = x2
      BY <1>2, <1>4, <1>8, <2>2, PushMutexIs
    <3> QED
      BY <3>1 DEF NextsKept
  <2> QED
    BY <2>1, <2>2
<1>12. /\ \A x \in Mutex \ {m} : x2.mtx[x] = k.mtx[x]
       /\ x2.live = k.live /\ \A u \in Task \ {v} : x2.tcb[u] = k.tcb[u]
       /\ x2.mtx[m].next = k.mtx[m].next /\ x2.mtx[m].nested = k.mtx[m].nested
  BY <1>5, <1>8, Kinds DEF Near, Others, Alike
<1>13. Passed(k, k2, m, v)
  <2>1. \A u \in Task \ {v} : Eased(k.tcb[u], k2.tcb[u])
    <3>1. \A u \in Task \ {v} : /\ k2.tcb[u].state = k.tcb[u].state
                                /\ k2.tcb[u].blk_obj = k.tcb[u].blk_obj
                                /\ k2.tcb[u].blk_state = k.tcb[u].blk_state
      BY <1>10, <1>12 DEF Relinked
    <3> QED
      BY <3>1 DEF Eased
  <2>2. Waits(k, v, m) /\ Over(k2, v) /\ k2.tcb[v].blk_state = "FINISH"
    BY <1>2, <1>7, <1>8, <1>10 DEF Waits, Over, Relinked
  <2>3. /\ k2.live = k.live /\ k2.mtx[m].task = v
        /\ \A x \in Mutex \ {m} : /\ k2.mtx[x].task = k.mtx[x].task
                                  /\ k2.mtx[x].nested = k.mtx[x].nested
    BY <1>8, <1>10, <1>12 DEF Relinked
  <2> QED
    BY <1>2, <2>1, <2>2, <2>3, Kinds DEF Passed
<1>14. Lists(k2, Reowned(own, m, v), h)
  <2>1. Lists(x2, own, h)
    <3>1. \A u \in Task : /\ x2.tcb[u].mutex_list = k.tcb[u].mutex_list
                          /\ x2.tcb[u].state # "DELETED" => k.tcb[u].state # "DELETED"
      BY <1>2, <1>7, <1>8, <1>12, States
    <3>2. \A x \in Mutex : x2.mtx[x].next = k.mtx[x].next
      BY <1>12
    <3> QED
      BY <3>1, <3>2, ListsSame
  <2>2. CASE INHERIT
    BY <1>2, <1>4, <1>8, <2>1, <2>2, PushLists DEF Reowned
  <2>3. CASE ~INHERIT
    <3>1. k2 = x2
      BY <1>2, <1>4, <1>8, <2>3, PushMutexIs
    <3> QED
      BY <2>1, <2>3, <3>1 DEF Reowned
  <2> QED
    BY <2>2, <2>3
<1>15. NextsKept(k, k2, m) /\ k2.mtx[m].nested = k.mtx[m].nested
  BY <1>10, <1>11, <1>12 DEF NextsKept, Relinked
<1> QED
  BY <1>2, <1>9, <1>13, <1>14, <1>15

LEMMA AlivePassed ==
    ASSUME NEW k \in KState, OwnersAlive(k), NEW k2, NEW m \in Mutex, NEW v \in Task \cup {NULL},
           Passed(k, k2, m, v)
    PROVE  OwnersAlive(k2)
<1>1. SUFFICES ASSUME NEW x \in Mutex, INHERIT, x \in k2.live, k2.mtx[x].task # NULL
               PROVE  k2.tcb[k2.mtx[x].task].state # "DELETED"
  BY DEF OwnersAlive, Owner
<1>2. CASE k2.mtx[x].task = v
  BY <1>1, <1>2 DEF Passed, Over
<1>3. CASE k2.mtx[x].task # v
  <2> DEFINE w == k2.mtx[x].task
  <2>1. x # m /\ w = k.mtx[x].task /\ x \in k.live
    BY <1>1, <1>3 DEF Passed
  <2>2. w \in Task \ {v}
    BY <1>1, <1>3, <2>1, MutexFields
  <2>3. k.tcb[w].state # "DELETED"
    BY <1>1, <2>1 DEF OwnersAlive, Owner
  <2> HIDE DEF w
  <2>4. Eased(k.tcb[w], k2.tcb[w])
    BY <2>2 DEF Passed
  <2>5. k2.tcb[w].state # "DELETED"
    BY <2>3, <2>4 DEF Eased
  <2> QED
    BY <2>5 DEF w
<1> QED
  BY <1>2, <1>3

LEMMA NoWaiter ==
    ASSUME NEW k, Good(k), NEW o \in Obj
    PROVE  k.waitq[o] = <<>> <=> \A u \in Task : ~Waits(k, u, o)
<1>1. \A u \in Task : u \in Range(k.waitq[o]) <=> Waits(k, u, o)
  BY Kinds DEF Good, But, WaitPart, Waits
<1>2. k.waitq[o] \in Seq(Task)
  BY GoodState, Fields
<1>3. CASE k.waitq[o] = <<>>
  <2>1. \A u \in Task : u \notin Range(k.waitq[o])
    BY <1>3 DEF Range
  <2> QED
    BY <1>1, <1>3, <2>1
<1>4. CASE k.waitq[o] # <<>>
  <2>1. Head(k.waitq[o]) \in Task /\ Head(k.waitq[o]) \in Range(k.waitq[o])
    BY <1>4, FirstWaiter
  <2> QED
    BY <1>1, <1>4, <2>1
<1> QED
  BY <1>3, <1>4

-----------------------------------------------------------------------------
(***************************************************************************)
(* task_mutex_free.  The list of the deleted task u is taken apart: what   *)
(* is left of it begins at s.mutex.  Only mutexes of u, as it was in k,    *)
(* have other owners.                                                      *)
(***************************************************************************)
OthersFreed(k, k2, u) ==
    \A x \in Mutex : k2.mtx[x].task # k.mtx[x].task => k.mtx[x].task = u

Left(s, u) == Mine(Owner(s.k), u)

Claims(k, c) == \A w \in Task : Claim(k, c, w)

Freeing(k, c, u, s) ==
    /\ s \in FreeLoop /\ s.k.live = k.live
    /\ Lists(s.k, Owner(s.k), u) /\ OwnersAlive(s.k) /\ Claims(s.k, c)
    /\ Linked(s.k, s.mutex, Mine(Owner(s.k), u))
    /\ OthersFreed(k, s.k, u)

(* m has passed from u to v. *)
FreedTo(k, k2, u, m, v) ==
    /\ Passed(k, k2, m, v) /\ NextsKept(k, k2, m) /\ v # u
    /\ Lists(k2, [Owner(k) EXCEPT ![m] = v], u) /\ Good(k2)
    /\ Owner(k2) = [Owner(k) EXCEPT ![m] = v]

LEMMA FreeOneIs ==
    ASSUME NEW k, Good(k), NEW c, NEW u \in Task, Lists(k, Owner(k), u),
           Claims(k, c),
           NEW m \in Mutex, Owner(k)[m] = u, NEW k2, k2 = FreeOne(k, m)
    PROVE  \E v \in Task \cup {NULL} : FreedTo(k, k2, u, m, v)
<1>1. k \in KState /\ m \in Obj
  BY GoodState, Kinds
<1>2. INHERIT /\ m \in k.live /\ k.mtx[m].task = u
  BY <1>1, Kinds, OwnerType
<1> DEFINE own == Owner(k)
<1>3. own \in OwnType
  BY <1>1, OwnerType
<1>4. ASSUME NEW v, Passed(k, k2, m, v) PROVE Owner(k2) = [own EXCEPT ![m] = v]
  <2>1. /\ k2.live = k.live /\ k2.mtx[m].task = v
        /\ \A x \in Mutex \ {m} : k2.mtx[x].task = k.mtx[x].task
    BY <1>4 DEF Passed
  <2>2. Owner(k2) = Reowned(own, m, v)
    BY <1>1, <1>2, <1>3, <2>1, ReownedIs
  <2> QED
    BY <1>2, <2>2 DEF Reowned
<1>5. CASE k.waitq[m] # <<>>
  <2> DEFINE v == Head(k.waitq[m])
  <2>1. k2 = HandOver(k, m)
    BY <1>5 DEF FreeOne
  <2>2. /\ v \in Task /\ Good(k2) /\ Passed(k, k2, m, v) /\ NextsKept(k, k2, m)
        /\ Lists(k2, Reowned(own, m, v), u)
    BY <1>2, <1>3, <1>5, <2>1, HandOverIs
  <2> HIDE DEF v
  <2>3. v # u
    <3>1. Waits(k, v, m)
      BY <2>2, Kinds DEF Passed
    <3> QED
      BY <1>2, <2>2, <3>1 DEF Claim, Claims
  <2>4. Lists(k2, [own EXCEPT ![m] = v], u)
    BY <1>2, <2>2 DEF Reowned
  <2> QED
    BY <1>4, <2>2, <2>3, <2>4 DEF FreedTo
<1>6. CASE k.waitq[m] = <<>>
  <2>1. k2 = PutOwner(k, m, NULL)
    BY <1>6 DEF FreeOne, PutOwner
  <2>2. /\ Good(k2) /\ Alike(k, k2) /\ k2.tcb = k.tcb /\ Others(k, k2, m)
        /\ k2.mtx[m].task = NULL /\ k2.mtx[m].next = k.mtx[m].next
    BY <2>1, NewOwner
  <2>3. \A w \in Task : ~Waits(k, w, m)
    BY <1>1, <1>6, NoWaiter
  <2>4. Passed(k, k2, m, NULL)
    <3>1. \A w \in Task : Eased(k.tcb[w], k2.tcb[w])
      BY <2>2, EasedSame
    <3> QED
      BY <2>2, <2>3, <3>1 DEF Passed, Others, Alike
  <2>5. NextsKept(k, k2, m)
    BY <2>2 DEF NextsKept, Others
  <2>6. Lists(k2, [own EXCEPT ![m] = NULL], u)
    <3> DEFINE own2 == [own EXCEPT ![m] = NULL]
    <3>1. \A w \in Task \ {u} : Mine(own2, w) = Mine(own, w)
      BY <1>3, Kinds DEF Mine, OwnType
    <3>2. \A x \in Mutex : k2.mtx[x].next = k.mtx[x].next
      BY <2>2 DEF Others
    <3>3. Lists(k2, own, u)
      BY <2>2, <3>2, ListsSame
    <3> HIDE DEF own, own2
    <3>4. Lists(k2, own2, u)
      BY <3>1, <3>3 DEF Lists
    <3> QED
      BY <3>4 DEF own2
  <2> QED
    BY <1>4, <2>2, <2>4, <2>5, <2>6, Kinds DEF FreedTo
<1> QED
  BY <1>5, <1>6

LEMMA FreeStepIs ==
    ASSUME NEW k, NEW c, NEW u \in Task, NEW s, Freeing(k, c, u, s), ~Strict,
           NEW s2, s2 = FreeStep(s)
    PROVE  /\ Freeing(k, c, u, s2)
           /\ Left(s2, u) = Left(s, u) \ {s.mutex}
<1> DEFINE x == s.k
           m == s.mutex
           y == FreeOne(x, m)
<1>1. /\ Good(x) /\ x \in KState /\ m \in Mutex \cup {NULL}
      /\ x.live = k.live /\ Lists(x, Owner(x), u) /\ OwnersAlive(x)
      /\ Claims(x, c)
      /\ Linked(x, m, Mine(Owner(x), u)) /\ OthersFreed(k, x, u)
  BY DEF Freeing, FreeLoop
<1>2. s2 \in FreeLoop
  BY FreeStepOf DEF Freeing
<1>3. CASE m = NULL
  <2>1. s2 = s
    BY <1>3 DEF FreeStep
  <2>2. m \notin Mine(Owner(x), u)
    BY <1>3, Kinds DEF Mine
  <2> QED
    BY <2>1, <2>2 DEF Left
<1>4. CASE m # NULL
  <2>1. s2.k = y /\ s2.mutex = x.mtx[m].next /\ y = FreeOne(x, m)
    BY <1>4 DEF FreeStep
  <2> HIDE DEF x, m, y
  <2>2. m \in Mine(Owner(x), u) /\ m \in Mutex
    BY <1>1, <1>4, LinkedHead
  <2>3. Owner(x)[m] = u
    BY <2>2 DEF Mine
  <2>13. PICK v \in Task \cup {NULL} : FreedTo(x, y, u, m, v)
    BY <1>1, <2>1, <2>2, <2>3, FreeOneIs
  <2>4. /\ Passed(x, y, m, v) /\ NextsKept(x, y, m) /\ v # u
        /\ Lists(y, [Owner(x) EXCEPT ![m] = v], u) /\ Good(y)
        /\ Owner(y) = [Owner(x) EXCEPT ![m] = v]
    BY <2>13 DEF FreedTo
  <2>5. y \in KState
    BY <2>4, GoodState
  <2>6. Mine(Owner(y), u) = Mine(Owner(x), u) \ {m}
    <3>1. Owner(x) \in OwnType
      BY <1>1, OwnerType
    <3> QED
      BY <2>4, <3>1 DEF Mine, OwnType
  <2>7. Linked(y, s2.mutex, Mine(Owner(y), u))
    <3>1. Linked(x, x.mtx[m].next, Mine(Owner(x), u) \ {m})
      BY <1>1, <1>4, LinkedRest
    <3>2. \A z \in Mine(Owner(x), u) \ {m} : y.mtx[z].next = x.mtx[z].next
      BY <2>4 DEF NextsKept, Mine
    <3>3. Linked(y, x.mtx[m].next, Mine(Owner(x), u) \ {m})
      BY <3>1, <3>2, LinkedSame
    <3> QED
      BY <2>1, <2>6, <3>3
  <2>8. OwnersAlive(y)
    BY <1>1, <2>2, <2>4, AlivePassed
  <2>9. Claims(y, c)
    BY <1>1, <2>2, <2>4, <2>5, ClaimPassed DEF Claims
  <2>10. OthersFreed(k, y, u)
    <3>1. x.mtx[m].task = u
      BY <1>1, <2>2, <2>3, OwnerType, Kinds
    <3>2. \A z \in Mutex \ {m} : y.mtx[z].task = x.mtx[z].task
      BY <2>4 DEF Passed
    <3> QED
      BY <1>1, <2>2, <3>1, <3>2 DEF OthersFreed
  <2>11. y.live = k.live
    BY <1>1, <2>4 DEF Passed
  <2>12. Freeing(k, c, u, s2)
    BY <1>2, <2>1, <2>4, <2>7, <2>8, <2>9, <2>10, <2>11 DEF Freeing
  <2> QED
    BY <2>1, <2>6, <2>12 DEF x, m, Left
<1> QED
  BY <1>3, <1>4

(* After krhino_task_del has freed them, u owns no mutex. *)
LEMMA TaskMutexFreeIs ==
    ASSUME NEW k, Good(k), NEW c, Own(k, c), NEW u \in Task, k.tcb[u].state # "DELETED",
           ~Strict, NEW k2, k2 = TaskMutexFree(k, u)
    PROVE  /\ Good(k2) /\ k2.live = k.live /\ OwnersAlive(k2)
           /\ Lists(k2, Owner(k2), u) /\ Mine(Owner(k2), u) = {}
           /\ Claims(k2, c) /\ OthersFreed(k, k2, u)
<1> DEFINE n == Cardinality(Mutex)
           r == FreeRounds(k, u)
           left(i) == Mine(Owner(r[i].k), u)
<1>1. n \in Nat
  BY RhinoAssumption, FS_CardinalityType
<1>2. /\ r[0] = [k |-> k, mutex |-> k.tcb[u].mutex_list] /\ r[0] \in FreeLoop
      /\ \A i \in 1..n : r[i] = FreeStep(r[i-1])
  BY FreeRoundsOf
<1>3. k2 = r[n].k
  BY DEF TaskMutexFree
<1>4. Linked(k, k.tcb[u].mutex_list, Mine(Owner(k), u)) /\ Lists(k, Owner(k), u)
  BY Kinds DEF Own, Lists
<1> HIDE DEF n, r
<1>5. Freeing(k, c, u, r[0]) /\ r[0].k = k
  BY <1>2, <1>4 DEF Own, Claims, Freeing, OthersFreed
<1> DEFINE S == {i \in 0..n : Freeing(k, c, u, r[i]) /\ Cardinality(left(i)) <= n - i}
<1>6. \A i : left(i) \in SUBSET Mutex
  BY DEF Mine
<1>7. 0 \in S
  <2>1. Cardinality(left(0)) <= n /\ n - 0 = n
    BY <1>1, <1>6, NoneLeft DEF n
  <2> QED
    BY <1>1, <1>5, <2>1
<1>8. ASSUME NEW i \in 1..n, i - 1 \in S PROVE i \in S
  <2>1. /\ i \in 0..n /\ n - i \in Nat /\ n - (i - 1) \in Nat \ {0}
        /\ (n - (i - 1)) - 1 = n - i
    BY <1>1
  <2>2. Freeing(k, c, u, r[i-1]) /\ Cardinality(left(i-1)) <= n - (i - 1)
    BY <1>8
  <2>3. Freeing(k, c, u, r[i]) /\ left(i) = left(i-1) \ {r[i-1].mutex}
    <3>1. r[i] = FreeStep(r[i-1])
      BY <1>2
    <3>2. Freeing(k, c, u, r[i-1])
      BY <2>2
    <3> DEFINE s == r[i-1]
               s2 == r[i]
    <3>3. Freeing(k, c, u, s) /\ s2 = FreeStep(s)
      BY <3>1, <3>2
    <3> HIDE DEF s, s2
    <3>4. /\ Freeing(k, c, u, s2)
          /\ Left(s2, u) = Left(s, u) \ {s.mutex}
      BY <3>3, FreeStepIs
    <3> QED
      BY <3>4 DEF s, s2, Left
  <2>4. Linked(r[i-1].k, r[i-1].mutex, left(i-1))
    BY <2>2 DEF Freeing
  <2> DEFINE a == n - (i - 1)
             x == r[i-1].mutex
  <2>5. a \in Nat \ {0} /\ a - 1 = n - i /\ Cardinality(left(i-1)) <= a
    BY <2>1, <2>2
  <2> HIDE DEF a, x
  <2>6. CASE x = NULL
    <3>1. left(i-1) = {}
      BY <2>4, <2>6, LinkedHead DEF x
    <3>2. left(i) = {}
      BY <2>3, <3>1
    <3>3. Cardinality(left(i)) <= n - i
      BY <2>1, <3>2, NoneLeft
    <3> QED
      BY <2>1, <2>3, <3>3
  <2>7. CASE x # NULL
    <3>1. x \in left(i-1) /\ left(i-1) \in SUBSET Mutex
      BY <1>6, <2>4, <2>7, LinkedHead DEF x
    <3> HIDE DEF left
    <3>2. Cardinality(left(i-1) \ {x}) <= a - 1
      BY <2>5, <3>1, OneLess
    <3>3. Cardinality(left(i)) <= n - i
      BY <2>3, <2>5, <3>2 DEF x
    <3> QED
      BY <2>1, <2>3, <3>3
  <2> QED
    BY <2>6, <2>7
<1> HIDE DEF S
<1>9. n \in S
  <2>1. \A i \in 1..n : i - 1 \in S => i \in S
    BY <1>8
  <2>2. n \in 0..n
    BY <1>1
  <2> QED
    BY <1>1, <1>7, <2>1, <2>2, UpTo
<1>10. Freeing(k, c, u, r[n]) /\ Cardinality(left(n)) <= 0
  <2>1. n - n = 0
    BY <1>1
  <2> QED
    BY <1>9, <2>1 DEF S
<1>11. left(n) = {}
  BY <1>6, <1>10, NoneLeft
<1> QED
  BY <1>3, <1>10, <1>11 DEF Freeing, FreeLoop

-----------------------------------------------------------------------------
(***************************************************************************)
(* The actions.  Released: the step of ReleasedByOwner.                    *)
(***************************************************************************)
Released ==
    \A m \in live \cap Mutex :
        LET owner == mtx[m].task
        IN  owner # NULL /\ mtx'[m].task # owner
              => \/ Runs(owner) /\ mtx[m].nested = 1
                 \/ Alive(owner) /\ tcb'[owner].state = "DELETED"

LEMMA OwnNext ==
    ASSUME NEW k \in KState, Become(k), Own(k, call')
    PROVE  OwnInv'
<1>1. Kernel' = k
  BY BecomeOf
<1>2. Own(Kernel', call')
  BY <1>1
<1> QED
  BY <1>2 DEF OwnInv, Kernel

LEMMA Settled ==
    ASSUME NEW k \in KState, Become(k), Own(k, call'),
           \A m \in live \cap Mutex : mtx[m].task # NULL => k.mtx[m].task = mtx[m].task
    PROVE  OwnInv' /\ Released
<1>1. mtx' = k.mtx
  BY DEF Become
<1>2. Released
  BY <1>1 DEF Released
<1> QED
  BY <1>2, OwnNext

LEMMA SettledTied ==
    ASSUME Inv, OwnInv, NEW k \in KState, Tied(Kernel, k, NULL), Become(k), call' = call
    PROVE  OwnInv' /\ Released
<1>1. Own(k, call)
  BY InvHas, OwnTied DEF OwnInv
<1>2. k.mtx = mtx
  BY KernelIs DEF Tied
<1>3. Own(k, call')
  BY <1>1
<1> QED
  BY <1>2, <1>3, Settled

LEMMA Ends ==
    ASSUME NEW k, Resched(k) \/ NoResched(k)
    PROVE  Become(k) /\ call' = call
BY DEF Resched, NoResched, CoreSched

LEMMA EasedEased ==
    ASSUME NEW a, NEW b \in Tcb, NEW c, Eased(a, b), Eased(b, c)
    PROVE  Eased(a, c)
<1>1. b.state \in TaskState
  BY TcbFields
<1>2. CASE b.state \in {"RDY", "SUSPENDED"}
  BY <1>2, States DEF Eased
<1>3. CASE b.state \in Pending
  BY <1>3, States DEF Eased
<1>4. CASE b.state \in Sleeping \cup {"DELETED"}
  BY <1>4, States DEF Eased
<1> QED
  BY <1>1, <1>2, <1>3, <1>4, States

(* mutex_release, when the task that is given is the owner. *)
LEMMA ReleaseIs ==
    ASSUME NEW k, Good(k), NEW own \in OwnType, Lists(k, own, NULL), NEW t \in Task,
           NEW m \in Mutex, INHERIT => own[m] = t /\ k.tcb[t].state # "DELETED",
           NEW k2, k2 = MutexRelease(k, t, m)
    PROVE  /\ Good(k2) /\ k2.live = k.live /\ SameOwners(k, k2)
           /\ \A u \in Task : Eased(k.tcb[u], k2.tcb[u])
           /\ Lists(k2, Reowned(own, m, NULL), NULL)
<1> DEFINE g == Given(k, t, m)
<1>1. Good(k2) /\ Tied(g, k2, NULL)
  BY Kinds, MutexReleaseOf
<1>2. Relinked(k, g) /\ Lists(g, Reowned(own, m, NULL), NULL)
  <2>1. CASE INHERIT
    BY <2>1, GivenLists DEF Reowned
  <2>2. CASE ~INHERIT
    BY <2>2 DEF Given, Reowned, Relinked
  <2> QED
    BY <2>1, <2>2
<1> HIDE DEF g
<1>3. \A u \in Task : Eased(g.tcb[u], k2.tcb[u]) /\ SameList(g, k2, u)
  BY <1>1, TiedEased, Kinds
<1>4. \A u \in Task : Eased(k.tcb[u], k2.tcb[u])
  BY <1>2, <1>3 DEF Relinked, Eased
<1>5. k2.live = k.live /\ SameOwners(k, k2)
  BY <1>1, <1>2 DEF Relinked, Tied, SameOwners
<1>6. Lists(k2, Reowned(own, m, NULL), NULL)
  <2>1. \A x \in Mutex : k2.mtx[x].next = g.mtx[x].next
    BY <1>1 DEF Tied
  <2>2. \A u \in Task : /\ k2.tcb[u].mutex_list = g.tcb[u].mutex_list
                        /\ k2.tcb[u].state # "DELETED" => g.tcb[u].state # "DELETED"
    BY <1>3 DEF SameList, Eased
  <2> QED
    BY <1>2, <2>1, <2>2, ListsSame
<1> QED
  BY <1>1, <1>4, <1>5, <1>6

(* A mutex that exists has passed on, and the lists with it. *)
LEMMA OwnPassed ==
    ASSUME NEW k \in KState, NEW c, Own(k, c), NEW k2 \in KState, NEW m \in Mutex, m \in k.live,
           NEW v \in Task \cup {NULL}, Passed(k, k2, m, v),
           Lists(k2, Reowned(Owner(k), m, v), NULL),
           Strict => \A u \in Task : c[u] # m \/ k.mtx[m].task # u,
           Strict => v = NULL \/ k2.mtx[m].nested = 1
    PROVE  Own(k2, c)
<1>1. Owner(k2) = Reowned(Owner(k), m, v)
  <2>1. /\ k2.live = k.live /\ k2.mtx[m].task = v
        /\ \A x \in Mutex \ {m} : k2.mtx[x].task = k.mtx[x].task
    BY DEF Passed
  <2>2. Owner(k) \in OwnType
    BY OwnerType
  <2> DEFINE own == Owner(k)
  <2>3. own \in OwnType /\ own = Owner(k)
    BY <2>2
  <2> HIDE DEF own
  <2>4. Owner(k2) = Reowned(own, m, v)
    BY <2>1, <2>3, ReownedIs
  <2> QED
    BY <2>3, <2>4
<1>2. OwnersAlive(k2)
  BY AlivePassed DEF Own
<1>3. \A u \in Task : Claim(k2, c, u)
  BY ClaimPassed DEF Own
<1> QED
  BY <1>1, <1>2, <1>3 DEF Own

LEMMA OwnHas ==
    ASSUME Inv, OwnInv
    PROVE  /\ Own(Kernel, call) /\ Lists(Kernel, Owner(Kernel), NULL) /\ OwnersAlive(Kernel)
           /\ Claims(Kernel, call) /\ Owner(Kernel) \in OwnType
           /\ \A m \in Mutex : Owner(Kernel)[m] =
                  IF INHERIT /\ m \in live THEN mtx[m].task ELSE NULL
           /\ \A m \in Mutex : mtx[m].task \in Task \cup {NULL}
<1>1. /\ Own(Kernel, call) /\ Lists(Kernel, Owner(Kernel), NULL) /\ OwnersAlive(Kernel)
      /\ Claims(Kernel, call)
  BY DEF OwnInv, Own, Claims
<1>2. /\ Owner(Kernel) \in OwnType
      /\ \A m \in Mutex : Owner(Kernel)[m] =
             IF INHERIT /\ m \in Kernel.live THEN Kernel.mtx[m].task ELSE NULL
  BY InvHas, OwnerType
<1>3. \A m \in Mutex : Kernel.mtx[m].task \in Task \cup {NULL}
  BY InvHas, MutexFields
<1> QED
  BY <1>1, <1>2, <1>3, KernelIs

(* The owner unlocks: nobody waits, or the first waiter gets the mutex. *)
LEMMA UnlockFreeIs ==
    ASSUME Inv, OwnInv, NEW t \in Task, call[t] = NULL, NEW m \in Mutex, m \in live,
           mtx[m].task = t, waitq[m] = <<>>,
           NEW k, Good(k), k.live = live, SameOwners(PutNested(Kernel, m, 0), k),
           \A u \in Task : Eased(tcb[u], k.tcb[u]),
           Lists(k, Reowned(Owner(Kernel), m, NULL), NULL),
           NEW k2, k2 = PutOwner(k, m, NULL)
    PROVE  /\ k2 \in KState /\ Own(k2, call)
           /\ \A x \in Mutex \ {m} : k2.mtx[x].task = mtx[x].task
<1>1. 0 \in 0..MaxNested /\ m \in Obj
  BY Kinds, KernelAssumption
<1> DEFINE down == PutNested(Kernel, m, 0)
<1>2. \A x \in Mutex \ {m} : down.mtx[x] = mtx[x]
  BY <1>1, InvHas, NewNested, KernelIs DEF Others
<1> HIDE DEF down
<1>3. /\ Good(k2) /\ Alike(k, k2) /\ k2.tcb = k.tcb /\ Others(k, k2, m)
      /\ k2.mtx[m].task = NULL /\ k2.mtx[m].next = k.mtx[m].next
  BY NewOwner
<1>4. k2 \in KState
  BY <1>3, GoodState
<1>5. Passed(Kernel, k2, m, NULL)
  <2>1. \A u \in Task : ~Waits(Kernel, u, m)
    BY <1>1, InvHas, KernelIs, NoWaiter
  <2>2. \A x \in Mutex \ {m} : /\ k2.mtx[x].task = mtx[x].task
                               /\ k2.mtx[x].nested = mtx[x].nested
    BY <1>2, <1>3 DEF Others, SameOwners, down
  <2> QED
    BY <1>3, <2>1, <2>2, KernelIs DEF Passed, Alike
<1>6. Lists(k2, Reowned(Owner(Kernel), m, NULL), NULL)
  <2>1. \A x \in Mutex : k2.mtx[x].next = k.mtx[x].next
    BY <1>3 DEF Others
  <2> QED
    BY <1>3, <2>1, ListsSame
<1>7. \A u \in Task : call[u] # m \/ Kernel.mtx[m].task # u
  BY KernelIs, Kinds
<1>8. \A x \in Mutex \ {m} : k2.mtx[x].task = mtx[x].task
  BY <1>5, KernelIs DEF Passed
<1>9. Own(k2, call)
  BY <1>4, <1>5, <1>6, <1>7, InvHas, OwnHas, OwnPassed, KernelIs
<1> QED
  BY <1>4, <1>8, <1>9

LEMMA UnlockGivenIs ==
    ASSUME Inv, OwnInv, NEW t \in Task, call[t] = NULL, NEW m \in Mutex, m \in live,
           mtx[m].task = t, NEW k, Good(k), k.waitq[m] # <<>>, k.live = live,
           SameOwners(PutNested(Kernel, m, 0), k),
           \A u \in Task : Eased(tcb[u], k.tcb[u]),
           Lists(k, Reowned(Owner(Kernel), m, NULL), NULL),
           NEW k2, k2 = PutNested(HandOver(k, m), m, 1)
    PROVE  /\ k2 \in KState /\ Own(k2, call)
           /\ \A x \in Mutex \ {m} : k2.mtx[x].task = mtx[x].task
<1>1. 0 \in 0..MaxNested /\ 1 \in 0..MaxNested
  BY KernelAssumption
<1> DEFINE down == PutNested(Kernel, m, 0)
           own == Reowned(Owner(Kernel), m, NULL)
           v == Head(k.waitq[m])
           x == HandOver(k, m)
<1>2. \A y \in Mutex \ {m} : down.mtx[y] = mtx[y]
  BY <1>1, InvHas, NewNested, KernelIs DEF Others
<1>3. own \in OwnType /\ (INHERIT => own[m] = NULL) /\ Reowned(own, m, v) = Reowned(Owner(Kernel), m, v)
  <2>1. Owner(Kernel) \in OwnType
    BY OwnHas
  <2> QED
    BY <2>1 DEF Reowned, OwnType
<1>4. Lists(k, own, NULL) /\ k2 = PutNested(x, m, 1) /\ x = HandOver(k, m) /\ v = Head(k.waitq[m])
  OBVIOUS
<1> HIDE DEF down, own, v, x
<1>5. /\ v \in Task /\ Good(x) /\ Passed(k, x, m, v)
      /\ Lists(x, Reowned(own, m, v), NULL)
  BY <1>3, <1>4, HandOverIs
<1>6. /\ Good(k2) /\ Alike(x, k2) /\ k2.tcb = x.tcb /\ Others(x, k2, m)
      /\ k2.mtx[m].nested = 1 /\ k2.mtx[m].next = x.mtx[m].next
      /\ k2.mtx[m].task = x.mtx[m].task
  BY <1>1, <1>4, <1>5, NewNested
<1>7. k2 \in KState /\ k \in KState
  BY <1>6, GoodState
<1>8. Passed(Kernel, k2, m, v)
  <2>1. \A u \in Task \ {v} : Eased(tcb[u], k2.tcb[u])
    <3>1. ASSUME NEW u \in Task \ {v} PROVE Eased(tcb[u], k2.tcb[u])
      <4>1. Eased(tcb[u], k.tcb[u]) /\ Eased(k.tcb[u], x.tcb[u]) /\ k.tcb[u] \in Tcb
        BY <1>5, <1>7, Fields, Kinds DEF Passed
      <4> QED
        BY <1>6, <4>1, EasedEased
    <3> QED
      BY <3>1
  <2>2. v # NULL /\ Waits(k, v, m) /\ Over(x, v) /\ x.tcb[v].blk_state = "FINISH"
    BY <1>5, Kinds DEF Passed
  <2>3. Waits(Kernel, v, m) /\ Over(k2, v) /\ k2.tcb[v].blk_state = "FINISH"
    BY <1>5, <1>6, <2>2, KernelIs DEF Waits, Over, Eased
  <2>4. \A y \in Mutex \ {m} : /\ k2.mtx[y].task = mtx[y].task
                               /\ k2.mtx[y].nested = mtx[y].nested
    BY <1>2, <1>5, <1>6 DEF Others, SameOwners, Passed, down
  <2>5. k2.live = live /\ k2.mtx[m].task = v
    BY <1>5, <1>6 DEF Passed, Alike
  <2> QED
    BY <2>1, <2>2, <2>3, <2>4, <2>5, KernelIs DEF Passed
<1>9. Lists(k2, Reowned(Owner(Kernel), m, v), NULL)
  <2>1. \A y \in Mutex : k2.mtx[y].next = x.mtx[y].next
    BY <1>6 DEF Others
  <2>2. Lists(k2, Reowned(own, m, v), NULL)
    BY <1>5, <1>6, <2>1, ListsSame
  <2> QED
    BY <1>3, <2>2
<1>10. \A u \in Task : call[u] # m \/ Kernel.mtx[m].task # u
  BY KernelIs, Kinds
<1>11. \A y \in Mutex \ {m} : k2.mtx[y].task = mtx[y].task
  BY <1>8, KernelIs DEF Passed
<1>12. Own(k2, call)
  BY <1>5, <1>6, <1>7, <1>8, <1>9, <1>10, InvHas, OwnHas, OwnPassed, KernelIs
<1> QED
  BY <1>7, <1>11, <1>12

LEMMA MutexUnlockOwn ==
    ASSUME Inv, OwnInv, NEW t \in Task, NEW m \in Mutex, MutexUnlock(t, m)
    PROVE  OwnInv' /\ Released
<1> DEFINE down == PutNested(Kernel, m, 0)
           k == MutexRelease(down, t, m)
           free == PutOwner(k, m, NULL)
           once == PutNested(HandOver(k, m), m, 1)
<1>1. /\ IF waitq[m] = <<>> THEN NoResched(free) ELSE Resched(once)
      /\ t = active /\ call[t] = NULL /\ m \in live /\ mtx[m].task = t /\ mtx[m].nested = 1
  BY DEF MutexUnlock, Runs, PutNested, PutOwner
<1>2. 0 \in 0..MaxNested /\ m \in Obj
  BY Kinds, KernelAssumption
<1>3. /\ Good(down) /\ Alike(Kernel, down) /\ down.tcb = tcb /\ Others(Kernel, down, m)
      /\ down.mtx[m].nested = 0 /\ down.mtx[m].next = mtx[m].next
      /\ down.mtx[m].task = mtx[m].task
  BY <1>2, InvHas, NewNested, KernelIs
<1>4. down.live = live
  BY <1>3, KernelIs DEF Alike
<1>5. Lists(down, Owner(Kernel), NULL)
  <2>1. \A x \in Mutex : down.mtx[x].next = Kernel.mtx[x].next
    BY <1>3, KernelIs DEF Others
  <2>2. down.tcb = Kernel.tcb
    BY <1>3, KernelIs
  <2>3. Lists(Kernel, Owner(Kernel), NULL)
    BY OwnHas
  <2> HIDE DEF down
  <2> QED
    BY <2>1, <2>2, <2>3, ListsSame
<1>6. INHERIT => Owner(Kernel)[m] = t /\ down.tcb[t].state # "DELETED"
  BY <1>1, <1>3, InvHas, OwnHas
<1>7. k = MutexRelease(down, t, m)
  OBVIOUS
<1>8. Owner(Kernel) \in OwnType
  BY OwnHas
<1> HIDE DEF down, k
<1>9. /\ Good(k) /\ k.live = down.live /\ SameOwners(down, k)
      /\ \A u \in Task : Eased(down.tcb[u], k.tcb[u])
      /\ Lists(k, Reowned(Owner(Kernel), m, NULL), NULL)
  BY <1>3, <1>5, <1>6, <1>7, <1>8, ReleaseIs
<1>10. /\ k.live = live /\ SameOwners(PutNested(Kernel, m, 0), k)
       /\ \A u \in Task : Eased(tcb[u], k.tcb[u])
  BY <1>3, <1>4, <1>9 DEF down
<1> DEFINE done(x) == /\ x \in KState /\ Own(x, call)
                      /\ \A y \in Mutex \ {m} : x.mtx[y].task = mtx[y].task
<1>11. \E x : done(x) /\ Become(x) /\ call' = call
  <2>1. CASE waitq[m] = <<>>
    <3>1. done(free)
      BY <1>1, <1>9, <1>10, <2>1, UnlockFreeIs
    <3>2. Become(free) /\ call' = call
      BY <1>1, <2>1, Ends
    <3> QED
      BY <3>1, <3>2
  <2>2. CASE waitq[m] # <<>>
    <3>1. k.waitq[m] # <<>>
      <4>1. PICK u \in Task : Waits(Kernel, u, m)
        BY <1>2, <2>2, InvHas, KernelIs, NoWaiter
      <4>2. Placed(down, k)
        BY <1>3, <1>7, Kinds, MutexReleaseOf
      <4>3. Waits(k, u, m)
        BY <1>3, <4>1, <4>2, KernelIs, Kinds DEF Waits, Placed
      <4> QED
        BY <1>2, <1>9, <4>3, NoWaiter
    <3>2. done(once)
      BY <1>1, <1>9, <1>10, <3>1, UnlockGivenIs
    <3>3. Become(once) /\ call' = call
      BY <1>1, <2>2, Ends
    <3> QED
      BY <3>2, <3>3
  <2> QED
    BY <2>1, <2>2
<1>12. PICK x : done(x) /\ Become(x) /\ call' = call
  BY <1>11
<1>13. OwnInv'
  BY <1>12, OwnNext
<1>14. \A y \in Mutex \ {m} : mtx'[y].task = mtx[y].task
  BY <1>12 DEF Become
<1>15. Released
  <2>1. Runs(t) /\ mtx[m].task = t /\ mtx[m].nested = 1
    BY DEF MutexUnlock
  <2> QED
    BY <1>14, <2>1 DEF Released
<1> QED
  BY <1>13, <1>15

(* The counts of a mutex that the running task owns. *)
LEMMA NestedOwn ==
    ASSUME Inv, OwnInv, NEW t \in Task, call[t] = NULL, NEW m \in Mutex, mtx[m].task = t,
           NEW n \in 0..MaxNested, NEW k, k = PutNested(Kernel, m, n), NoResched(k)
    PROVE  OwnInv' /\ Released
<1>1. /\ Good(k) /\ Alike(Kernel, k) /\ k.tcb = tcb /\ Others(Kernel, k, m)
      /\ k.mtx[m].next = mtx[m].next /\ k.mtx[m].task = mtx[m].task
  BY InvHas, NewNested, KernelIs
<1>2. /\ k.live = live /\ \A x \in Mutex : k.mtx[x].next = mtx[x].next /\ k.mtx[x].task = mtx[x].task
      /\ k \in KState /\ Become(k) /\ call' = call
  BY <1>1, GoodState, KernelIs, Ends DEF Alike, Others
<1>3. Owner(k) = Owner(Kernel)
  BY <1>2, OwnerSame, KernelIs
<1>4. Lists(k, Owner(k), NULL)
  <2>1. Lists(Kernel, Owner(Kernel), NULL)
    BY OwnHas
  <2> QED
    BY <1>1, <1>2, <1>3, <2>1, ListsSame, KernelIs
<1>5. OwnersAlive(k)
  BY <1>1, <1>3, OwnHas, KernelIs DEF OwnersAlive
<1>6. ASSUME NEW u \in Task PROVE Claim(k, call, u)
  <2>1. Claim(Kernel, call, u)
    BY OwnHas DEF Claims
  <2>2. Over(k, u) = Over(Kernel, u) /\ \A x : Waits(k, u, x) = Waits(Kernel, u, x)
    BY <1>1, KernelIs DEF Over, Waits
  <2>3. \A x \in Mutex : x # m \/ u # t => Told(k, u, x) = Told(Kernel, u, x)
    BY <1>1, KernelIs DEF Told, Others
  <2>4. call[u] = m => u # t
    BY Kinds
  <2> QED
    BY <1>1, <1>2, <2>1, <2>2, <2>3, <2>4, KernelIs DEF Claim
<1>7. Own(k, call')
  BY <1>2, <1>4, <1>5, <1>6 DEF Own
<1> QED
  BY <1>2, <1>7, Settled

LEMMA MutexLockNestedOwn ==
    ASSUME Inv, OwnInv, NEW t \in Task, NEW m \in Mutex, MutexLockNested(t, m)
    PROVE  OwnInv' /\ Released
<1> DEFINE n == mtx[m].nested + 1
           k == PutNested(Kernel, m, n)
<1>1. /\ NoResched([Kernel EXCEPT !.mtx[m].nested = @ + 1]) /\ mtx[m].nested < MaxNested
      /\ call[t] = NULL /\ mtx[m].task = t
  BY DEF MutexLockNested, Runs
<1>2. NoResched(k)
  BY <1>1, KernelIs DEF PutNested
<1>3. n \in 0..MaxNested
  BY <1>1, InvHas, KernelIs, MutexFields, KernelAssumption
<1> HIDE DEF n, k
<1> QED
  BY <1>1, <1>2, <1>3, NestedOwn DEF k

LEMMA MutexUnlockNestedOwn ==
    ASSUME Inv, OwnInv, NEW t \in Task, NEW m \in Mutex, MutexUnlockNested(t, m)
    PROVE  OwnInv' /\ Released
<1> DEFINE n == mtx[m].nested - 1
           k == PutNested(Kernel, m, n)
<1>1. /\ NoResched([Kernel EXCEPT !.mtx[m].nested = @ - 1]) /\ mtx[m].nested > 1
      /\ call[t] = NULL /\ mtx[m].task = t
  BY DEF MutexUnlockNested, Runs
<1>2. NoResched(k)
  BY <1>1, KernelIs DEF PutNested
<1>3. n \in 0..MaxNested
  BY <1>1, InvHas, KernelIs, MutexFields, KernelAssumption
<1> HIDE DEF n, k
<1> QED
  BY <1>1, <1>2, <1>3, NestedOwn DEF k

LEMMA MutexLockFreeOwn ==
    ASSUME Inv, OwnInv, NEW t \in Task, NEW m \in Mutex, MutexLockFree(t, m)
    PROVE  OwnInv' /\ Released
<1> DEFINE x1 == PutOwner(Kernel, m, t)
           x2 == PutNested(x1, m, 1)
           k == PushMutex(x2, t, m)
           own == Owner(Kernel)
<1>1. /\ NoResched(k) /\ t = active /\ call[t] = NULL /\ m \in live /\ mtx[m].task = NULL
  BY DEF MutexLockFree, Runs, PutOwner, PutNested
<1>2. /\ Good(x1) /\ Alike(Kernel, x1) /\ x1.tcb = tcb /\ Others(Kernel, x1, m)
      /\ x1.mtx[m].task = t /\ x1.mtx[m].next = mtx[m].next
  BY InvHas, NewOwner, KernelIs
<1>3. k = PushMutex(x2, t, m) /\ 1 \in 0..MaxNested
  BY KernelAssumption
<1> HIDE DEF x1
<1>4. /\ Good(x2) /\ Alike(x1, x2) /\ x2.tcb = x1.tcb /\ Others(x1, x2, m)
      /\ x2.mtx[m].task = x1.mtx[m].task /\ x2.mtx[m].next = x1.mtx[m].next
  BY <1>2, <1>3, NewNested
<1> HIDE DEF x2
<1>5. Good(k) /\ Relinked(x2, k)
  BY <1>3, <1>4, PushMutexOf, PushMutexIs
<1>6. ~INHERIT => k = x2
  BY <1>3, <1>4, PushMutexIs
<1>7. /\ k.live = live /\ k.mtx[m].task = t /\ k \in KState
      /\ \A x \in Mutex \ {m} : k.mtx[x].task = mtx[x].task /\ k.mtx[x].nested = mtx[x].nested
      /\ \A u \in Task : /\ k.tcb[u].state = tcb[u].state /\ k.tcb[u].blk_obj = tcb[u].blk_obj
                         /\ k.tcb[u].blk_state = tcb[u].blk_state
  BY <1>2, <1>4, <1>5, GoodState, KernelIs DEF Alike, Others, Relinked
<1>8. own \in OwnType /\ own[m] = NULL /\ Lists(Kernel, own, NULL)
  BY <1>1, OwnHas
<1>9. own = Owner(Kernel)
  OBVIOUS
<1> HIDE DEF own
<1>10. Lists(x2, own, NULL)
  <2>1. \A x \in Mutex : x2.mtx[x].next = mtx[x].next
    BY <1>2, <1>4, KernelIs DEF Others
  <2> QED
    BY <1>2, <1>4, <1>8, <2>1, ListsSame, KernelIs
<1>11. Lists(k, Reowned(own, m, t), NULL)
  <2>1. CASE INHERIT
    BY <1>3, <1>4, <1>8, <1>10, <2>1, PushLists DEF Reowned
  <2>2. CASE ~INHERIT
    BY <1>6, <1>10, <2>2 DEF Reowned
  <2> QED
    BY <2>1, <2>2
<1> HIDE DEF k
<1>12. Owner(k) = Reowned(own, m, t)
  <2>1. \A x \in Mutex \ {m} : k.mtx[x].task = Kernel.mtx[x].task
    BY <1>7, KernelIs
  <2> QED
    BY <1>1, <1>7, <1>8, <1>9, <2>1, InvHas, KernelIs, ReownedIs
<1>13. OwnersAlive(k)
  <2>1. k.tcb[t].state # "DELETED"
    BY <1>1, <1>7, InvHas
  <2>2. ASSUME NEW x \in Mutex, Owner(k)[x] # NULL PROVE k.tcb[Owner(k)[x]].state # "DELETED"
    <3>1. Owner(k)[x] = t \/ Owner(k)[x] = own[x]
      BY <1>8, <1>12 DEF Reowned, OwnType
    <3>2. own[x] # NULL => own[x] \in Task /\ tcb[own[x]].state # "DELETED"
      BY <1>8, <1>9, OwnHas, KernelIs DEF OwnersAlive, OwnType
    <3> QED
      BY <1>7, <2>1, <2>2, <3>1, <3>2
  <2> QED
    BY <2>2 DEF OwnersAlive
<1>14. ASSUME NEW u \in Task PROVE Claim(k, call, u)
  <2>1. Claim(Kernel, call, u)
    BY OwnHas DEF Claims
  <2>2. Over(k, u) = Over(Kernel, u) /\ \A x : Waits(k, u, x) = Waits(Kernel, u, x)
    BY <1>7, KernelIs DEF Over, Waits
  <2>3. ~Waits(k, u, m)
    BY <1>1, <2>1, <2>2, KernelIs DEF Claim
  <2>4. \A x \in Mutex \ {m} : Told(k, u, x) = Told(Kernel, u, x)
    BY <1>7, KernelIs DEF Told
  <2>5. call[u] = m /\ Told(Kernel, u, m) => Told(k, u, m)
    <3>1. call[u] = m => u # t
      BY <1>1, Kinds
    <3> QED
      BY <1>1, <1>7, <3>1, KernelIs, Kinds DEF Told
  <2>6. \A x \in Mutex : Waits(k, u, x) => k.mtx[x].task \notin {NULL, u}
    BY <1>7, <2>1, <2>2, <2>3, KernelIs DEF Claim
  <2> QED
    BY <1>7, <2>1, <2>2, <2>4, <2>5, <2>6, KernelIs DEF Claim
<1>15. Become(k) /\ call' = call
  BY <1>1, Ends
<1>16. Own(k, call')
  BY <1>11, <1>12, <1>13, <1>14, <1>15 DEF Own
<1>17. \A x \in live \cap Mutex : mtx[x].task # NULL => k.mtx[x].task = mtx[x].task
  BY <1>1, <1>7
<1> QED
  BY <1>7, <1>15, <1>16, <1>17, Settled

(* A mutex that is made again has no owner and no waiter. *)
LEMMA MutexCreateOwn ==
    ASSUME Inv, OwnInv, NEW t \in Task, NEW m \in Mutex, "mutex_create" \in Calls,
           MutexCreate(t, m)
    PROVE  OwnInv' /\ Released
<1> DEFINE k == [Kernel EXCEPT !.live = @ \cup {m}, !.mtx[m] = FreeMutex]
<1>1. m \notin live /\ NoResched(k) /\ m \in Obj
  BY Kinds DEF MutexCreate
<1>2. FreeMutex \in MutexRecord /\ FreeMutex.task = NULL
  BY KernelAssumption DEF FreeMutex, MutexRecord
<1>3. /\ k \in KState /\ k.tcb = tcb /\ k.live = live \cup {m} /\ k.mtx[m].task = NULL
      /\ \A x \in Mutex \ {m} : k.mtx[x] = mtx[x]
  BY <1>1, <1>2, InvHas, KernelIs DEF KState
<1>4. Become(k) /\ call' = call
  BY <1>1, Ends
<1> HIDE DEF k
<1>5. ~Strict
  BY DEF Strict
<1>6. Owner(k) = Owner(Kernel) /\ Owner(Kernel)[m] = NULL
  BY <1>1, <1>3, KernelIs DEF Owner
<1>7. Lists(k, Owner(k), NULL)
  <2>1. Lists(Kernel, Owner(Kernel), NULL)
    BY OwnHas
  <2>2. \A x \in Mutex : Owner(Kernel)[x] # NULL => k.mtx[x].next = Kernel.mtx[x].next
    BY <1>3, <1>6, KernelIs
  <2> QED
    BY <1>3, <1>6, <2>1, <2>2, ListsSame, KernelIs
<1>8. OwnersAlive(k)
  BY <1>3, <1>6, OwnHas, KernelIs DEF OwnersAlive
<1>9. ASSUME NEW u \in Task PROVE Claim(k, call, u)
  <2>1. Claim(Kernel, call, u)
    BY OwnHas DEF Claims
  <2>2. Over(k, u) = Over(Kernel, u) /\ \A x : Waits(k, u, x) = Waits(Kernel, u, x)
    BY <1>3, KernelIs DEF Over, Waits
  <2>3. ~Waits(k, u, m)
    BY <1>1, <1>3, Unwaited DEF Waits
  <2> QED
    BY <1>3, <1>5, <2>1, <2>2, <2>3, KernelIs DEF Claim
<1>10. Own(k, call')
  BY <1>4, <1>7, <1>8, <1>9 DEF Own
<1>11. \A x \in live \cap Mutex : mtx[x].task # NULL => k.mtx[x].task = mtx[x].task
  BY <1>1, <1>3
<1> QED
  BY <1>3, <1>4, <1>10, <1>11, Settled

(* A mutex that is deleted is taken off its owner's list, and those that   *)
(* waited for it are told so.                                              *)
LEMMA MutexDelOwn ==
    ASSUME Inv, OwnInv, NEW t \in Task, NEW m \in Mutex, MutexDel(t, m)
    PROVE  OwnInv' /\ Released
<1> DEFINE dead == [Kernel EXCEPT !.live = @ \ {m}]
           owner == mtx[m].task
           k == IF owner = NULL THEN dead ELSE MutexRelease(dead, owner, m)
           k2 == PendRmAll(k, m)
           own == Owner(Kernel)
<1>1. Resched(k2)
  BY DEF MutexDel
<1>2. owner \in Task \cup {NULL} /\ m \in Obj /\ m \in live
  BY InvHas, KernelIs, MutexFields, Kinds DEF MutexDel
<1>3. Good(dead)
  BY <1>2, DeadObject DEF SoundBut
<1>4. dead.live = live \ {m} /\ dead.mtx = mtx /\ dead.tcb = tcb
  BY KernelIs DEF Kernel
<1>5. /\ own \in OwnType /\ Lists(Kernel, own, NULL) /\ own = Owner(Kernel)
      /\ own[m] = IF INHERIT THEN owner ELSE NULL
  BY <1>2, OwnHas
<1>6. owner # NULL => k = MutexRelease(dead, owner, m)
  OBVIOUS
<1>7. owner = NULL => k = dead
  OBVIOUS
<1>8. INHERIT /\ owner # NULL => own[m] = owner /\ dead.tcb[owner].state # "DELETED"
  BY <1>4, <1>5, OwnHas, KernelIs DEF OwnersAlive
<1>9. k2 = PendRmAll(k, m)
  OBVIOUS
<1> HIDE DEF dead, own, k, k2, owner
<1>10. Lists(dead, own, NULL)
  BY <1>4, <1>5, ListsSame, KernelIs
<1> DEFINE done == /\ Good(k) /\ k.live = dead.live /\ SameOwners(dead, k)
                   /\ \A u \in Task : Eased(dead.tcb[u], k.tcb[u])
                   /\ Lists(k, Reowned(own, m, NULL), NULL)
<1>11. done
  <2>1. CASE owner = NULL
    <3>1. Reowned(own, m, NULL) = own
      BY <1>5, <2>1 DEF Reowned, OwnType
    <3>2. SameOwners(dead, k) /\ \A u \in Task : Eased(dead.tcb[u], k.tcb[u])
      BY <1>7, <2>1, EasedSame DEF SameOwners
    <3> QED
      BY <1>3, <1>7, <1>10, <2>1, <3>1, <3>2
  <2>2. CASE owner # NULL
    BY <1>2, <1>3, <1>5, <1>6, <1>8, <1>10, <2>2, ReleaseIs
  <2> QED
    BY <2>1, <2>2
<1> HIDE DEF done
<1>12. Good(k2) /\ Tied(k, k2, NULL)
  BY <1>2, <1>9, <1>11, PendRmAllOf DEF done
<1>13. k2 \in KState /\ k2.mtx = k.mtx /\ k2.live = live \ {m}
  BY <1>4, <1>11, <1>12, GoodState DEF Tied, done
<1>14. \A u \in Task : Eased(k.tcb[u], k2.tcb[u]) /\ SameList(k, k2, u)
  BY <1>12, TiedEased, Kinds
<1>15. Lists(k2, Reowned(own, m, NULL), NULL)
  <2>1. Lists(k, Reowned(own, m, NULL), NULL)
    BY <1>11 DEF done
  <2> QED
    BY <1>13, <1>14, <2>1, ListsSame DEF Eased, SameList
<1>16. SameOwners(Kernel, k2)
  BY <1>4, <1>11, <1>13, KernelIs DEF done, SameOwners
<1>17. Owner(k2) = Reowned(own, m, NULL)
  <2>1. \A x \in Mutex : Owner(k2)[x] = IF x = m THEN NULL ELSE own[x]
    BY <1>5, <1>13, <1>16, OwnHas, KernelIs DEF Owner, SameOwners
  <2>2. Owner(k2) = [x \in Mutex |-> IF x = m THEN NULL ELSE own[x]]
    BY <2>1 DEF Owner
  <2>3. Reowned(own, m, NULL) = [x \in Mutex |-> IF x = m THEN NULL ELSE own[x]]
    BY <1>5 DEF Reowned, OwnType
  <2> QED
    BY <2>2, <2>3
<1>18. \A u \in Task : Eased(tcb[u], k2.tcb[u])
  <2>1. ASSUME NEW u \in Task PROVE Eased(tcb[u], k2.tcb[u])
    <3>1. Eased(tcb[u], k.tcb[u]) /\ k.tcb[u] \in Tcb
      BY <1>4, <1>11, GoodState, Fields, Kinds DEF done
    <3>2. Eased(k.tcb[u], k2.tcb[u])
      BY <1>14
    <3> QED
      BY <3>1, <3>2, EasedEased
  <2> QED
    BY <2>1
<1>19. OwnersAlive(k2)
  <2>1. ASSUME NEW x \in Mutex, Owner(k2)[x] # NULL PROVE k2.tcb[Owner(k2)[x]].state # "DELETED"
    <3>1. Owner(k2)[x] = own[x] /\ own[x] # NULL /\ own[x] \in Task
      BY <1>5, <1>17, <2>1 DEF Reowned, OwnType
    <3>2. tcb[own[x]].state # "DELETED"
      BY <1>5, <3>1, OwnHas, KernelIs DEF OwnersAlive
    <3> QED
      BY <1>18, <3>1, <3>2 DEF Eased
  <2> QED
    BY <2>1 DEF OwnersAlive
<1>20. ASSUME NEW u \in Task PROVE Claim(k2, call, u)
  <2>1. Claim(Kernel, call, u) /\ Eased(Kernel.tcb[u], k2.tcb[u])
    BY <1>18, OwnHas, KernelIs DEF Claims
  <2>2. k2.tcb[u].state \in TaskState
    BY <1>13, Fields, TcbFields, Kinds
  <2>3. Mutex \cap k2.live \subseteq Kernel.live
    BY <1>13, KernelIs
  <2> QED
    BY <1>16, <2>1, <2>2, <2>3, ClaimEased
<1>21. Become(k2) /\ call' = call
  BY <1>1, Ends
<1>22. Own(k2, call')
  BY <1>15, <1>17, <1>19, <1>20, <1>21 DEF Own
<1>23. \A x \in live \cap Mutex : mtx[x].task # NULL => k2.mtx[x].task = mtx[x].task
  BY <1>16, KernelIs DEF SameOwners
<1> QED
  BY <1>13, <1>21, <1>22, <1>23, Settled

-----------------------------------------------------------------------------
(***************************************************************************)
(* Actions that give nobody a mutex.  All tasks but t are eased.           *)
(***************************************************************************)
LEMMA SettledNear ==
    ASSUME Inv, OwnInv, Inv', mtx' = mtx, Mutex \cap live' = Mutex \cap live, NEW t,
           \A u \in Task \ {t} : /\ Eased(tcb[u], tcb'[u])
                                 /\ tcb'[u].mutex_list = tcb[u].mutex_list
                                 /\ call'[u] = call[u],
           t \in Task => /\ tcb'[t].mutex_list = tcb[t].mutex_list
                         /\ tcb'[t].state = "DELETED" <=> tcb[t].state = "DELETED"
                         /\ Claim(Kernel', call', t)
    PROVE  OwnInv' /\ Released
<1> DEFINE k2 == Kernel'
<1>1. k2 \in KState
  <2>1. Good(k2)
    BY DEF Inv, Sound, SoundBut
  <2> QED
    BY <2>1, GoodState
<1>2. /\ k2.tcb = tcb' /\ k2.mtx = mtx' /\ k2.live = live'
      /\ Kernel.tcb = tcb /\ Kernel.mtx = mtx /\ Kernel.live = live
  BY DEF Kernel
<1>3. t \in Task => Claim(k2, call', t)
  OBVIOUS
<1>4. k2 = Kernel'
  OBVIOUS
<1> HIDE DEF k2
<1>5. /\ \A u \in Task \ {t} : Eased(Kernel.tcb[u], k2.tcb[u]) /\ SameList(Kernel, k2, u)
      /\ t \in Task => /\ SameList(Kernel, k2, t)
                       /\ k2.tcb[t].state = "DELETED" <=> Kernel.tcb[t].state = "DELETED"
      /\ \A u \in Task \ {t} : call'[u] = call[u]
  BY <1>2 DEF SameList
<1>6. Own(k2, call')
  BY <1>1, <1>2, <1>3, <1>5, InvHas, OwnHas, OwnNear
<1>7. Released
  BY DEF Released
<1>8. OwnInv'
  BY <1>4, <1>6 DEF OwnInv
<1> QED
  BY <1>7, <1>8

LEMMA SettledEased ==
    ASSUME Inv, OwnInv, Inv', mtx' = mtx, Mutex \cap live' = Mutex \cap live, call' = call,
           \A u \in Task : Eased(tcb[u], tcb'[u]) /\ tcb'[u].mutex_list = tcb[u].mutex_list
    PROVE  OwnInv' /\ Released
<1>1. NULL \notin Task
  BY Kinds
<1> QED
  BY <1>1, SettledNear

(* The running task waits for o, which is not its own. *)
LEMMA BlockedOwn ==
    ASSUME Inv, OwnInv, NEW k, Good(k), Onward(Kernel, k), Tied(Kernel, k, NULL),
           NEW t \in Task, t = active,
           NEW o \in live, o \in Obj, o \in Sem => count[o] = 0, NEW n \in Timeouts,
           o \in Mutex => mtx[o].task \notin {NULL, t},
           CoreSched(PendToBlkObj(k, o, t, n), 0), CallSet(t, o)
    PROVE  OwnInv' /\ Released
<1> DEFINE k2 == PendToBlkObj(k, o, t, n)
<1>1. Sound(k, call)
  BY InvHas, SoundOnward DEF Sound
<1>2. /\ k.tcb[t].state = "RDY" /\ o \in k.live /\ (o \in Sem => k.count[o] = 0)
  BY InvHas, KernelIs DEF Onward, Softer
<1>3. /\ call' \in CallType /\ call'[t] = o /\ \A u \in Task \ {t} : call'[u] = call[u]
  BY DEF CallSet
<1>4. Become(k2)
  BY DEF CoreSched
<1>5. k2 = PendToBlkObj(k, o, t, n)
  OBVIOUS
<1> HIDE DEF k2
<1>6. /\ Sound(k2, call') /\ Near(k, k2, t)
      /\ k2.tcb[t].state = "PEND" /\ k2.tcb[t].blk_obj = o
      /\ k2.tcb[t].mutex_list = k.tcb[t].mutex_list
  BY <1>1, <1>2, <1>3, <1>5, Blocked
<1>7. Good(k2) /\ k2 \in KState /\ k \in KState
  BY <1>6, GoodState DEF Sound, SoundBut
<1>8. k2.mtx = mtx /\ k.mtx = mtx
  BY <1>6, KernelIs DEF Near, Tied
<1>9. Own(k, call)
  BY <1>7, InvHas, OwnTied DEF OwnInv
<1>10. Claim(k2, call', t)
  <2>1. \A m \in Mutex : Waits(k2, t, m) => k2.mtx[m].task \notin {NULL, t}
    BY <1>6, <1>8 DEF Waits
  <2>2. Waits(k2, t, o) /\ ~Over(k2, t) /\ k2.tcb[t].state # "DELETED"
    BY <1>6, States DEF Waits, Over
  <2> QED
    BY <1>3, <2>1, <2>2 DEF Claim
<1>11. \A u \in Task \ {t} : Eased(k.tcb[u], k2.tcb[u]) /\ SameList(k, k2, u)
  <2>1. \A u \in Task \ {t} : k2.tcb[u] = k.tcb[u]
    BY <1>6, Kinds DEF Near
  <2> QED
    BY <2>1, EasedSame DEF SameList
<1>12. /\ k2.mtx = k.mtx /\ Mutex \cap k2.live = Mutex \cap k.live /\ SameList(k, k2, t)
       /\ k2.tcb[t].state = "DELETED" <=> k.tcb[t].state = "DELETED"
  BY <1>2, <1>6 DEF Near, SameList
<1>13. Own(k2, call')
  BY <1>3, <1>7, <1>9, <1>10, <1>11, <1>12, OwnNear
<1> QED
  BY <1>4, <1>7, <1>8, <1>13, Settled

LEMMA MutexLockPendOwn ==
    ASSUME Inv, OwnInv, NEW t \in Task, NEW m \in Mutex, NEW n \in Timeouts,
           MutexLockPend(t, m, n)
    PROVE  OwnInv' /\ Released
<1> DEFINE owner == mtx[m].task
           k == IF INHERIT /\ tcb[t].prio < tcb[owner].prio
                THEN TaskPriChange(Kernel, owner, tcb[t].prio) ELSE Kernel
<1>1. /\ t = active /\ m \in live /\ owner \notin {NULL, t}
      /\ CoreSched(PendToBlkObj(k, m, t, n), 0) /\ call' = [call EXCEPT ![t] = m]
  BY DEF MutexLockPend, Runs
<1>2. owner \in Task /\ tcb[t].prio \in Prio /\ m \in Obj /\ m \notin Sem
  BY <1>1, InvHas, KernelIs, MutexFields, Fields, TcbFields, Kinds
<1>3. CallSet(t, m)
  BY <1>1, <1>2, CallSetOf
<1>4. owner = mtx[m].task
  OBVIOUS
<1> HIDE DEF owner
<1>5. Good(k) /\ Onward(Kernel, k) /\ Tied(Kernel, k, NULL)
  <2>1. CASE INHERIT /\ tcb[t].prio < tcb[owner].prio
    <3>1. k = TaskPriChange(Kernel, owner, tcb[t].prio)
      BY <2>1
    <3> HIDE DEF k
    <3>2. Good(k) /\ Reprio(Kernel, k)
      BY <1>2, <3>1, InvHas, TaskPriChangeOf
    <3> QED
      BY <2>1, <3>2, InvHas, ReprioOnward, ReprioTied
  <2>2. CASE ~(INHERIT /\ tcb[t].prio < tcb[owner].prio)
    <3>1. k = Kernel
      BY <2>2
    <3> QED
      BY <3>1, InvHas, OnwardSame, TiedSame
  <2> QED
    BY <2>1, <2>2
<1> HIDE DEF k
<1> QED
  BY <1>1, <1>2, <1>3, <1>4, <1>5, BlockedOwn

LEMMA SemTakePendOwn ==
    ASSUME Inv, OwnInv, NEW t \in Task, NEW s \in Sem, NEW n \in Timeouts, SemTakePend(t, s, n)
    PROVE  OwnInv' /\ Released
<1>1. /\ t = active /\ s \in live /\ count[s] = 0
      /\ CoreSched(PendToBlkObj(Kernel, s, t, n), 0) /\ call' = [call EXCEPT ![t] = s]
  BY DEF SemTakePend, Runs
<1>2. s \in Obj /\ s \notin Mutex
  BY Kinds
<1>3. CallSet(t, s)
  BY <1>1, <1>2, CallSetOf
<1>4. Good(Kernel) /\ Onward(Kernel, Kernel) /\ Tied(Kernel, Kernel, NULL)
  BY InvHas, OnwardSame, TiedSame
<1> QED
  BY <1>1, <1>2, <1>3, <1>4, BlockedOwn

LEMMA SettledSame ==
    ASSUME Inv, OwnInv, Inv', mtx' = mtx, tcb' = tcb, Mutex \cap live' = Mutex \cap live,
           call' = call
    PROVE  OwnInv' /\ Released
BY EasedSame, SettledEased

LEMMA CountOwn ==
    ASSUME Inv, OwnInv, Inv', NEW s \in Sem, NEW n, NEW L, L \in {live, live \cup {s}},
           NoResched([Kernel EXCEPT !.live = L, !.count[s] = n])
    PROVE  OwnInv' /\ Released
<1>1. mtx' = mtx /\ tcb' = tcb /\ live' = L /\ call' = call
  BY DEF NoResched, Become, Kernel
<1>2. Mutex \cap live' = Mutex \cap live
  BY <1>1, Kinds
<1> QED
  BY <1>1, <1>2, SettledSame

LEMMA SemCreateOwn ==
    ASSUME Inv, OwnInv, Inv', NEW t \in Task, NEW s \in Sem, SemCreate(t, s)
    PROVE  OwnInv' /\ Released
<1>1. PICK n \in 0..MaxCount : NoResched([Kernel EXCEPT !.live = @ \cup {s}, !.count[s] = n])
  BY DEF SemCreate
<1> DEFINE L == live \cup {s}
<1>2. NoResched([Kernel EXCEPT !.live = L, !.count[s] = n])
  BY <1>1, KernelIs
<1>3. L \in {live, live \cup {s}}
  OBVIOUS
<1> HIDE DEF L
<1> QED
  BY <1>2, <1>3, CountOwn

LEMMA SemCountOwn ==
    ASSUME Inv, OwnInv, Inv', NEW s \in Sem, NEW n, NoResched([Kernel EXCEPT !.count[s] = n])
    PROVE  OwnInv' /\ Released
<1>1. NoResched([Kernel EXCEPT !.live = live, !.count[s] = n])
  BY LiveSame
<1> QED
  BY <1>1, CountOwn

LEMMA SemTakeOwn ==
    ASSUME Inv, OwnInv, Inv', NEW t \in Task, NEW s \in Sem, SemTake(t, s)
    PROVE  OwnInv' /\ Released
<1>1. NoResched([Kernel EXCEPT !.count[s] = count[s] - 1])
  BY KernelIs DEF SemTake
<1> QED
  BY <1>1, SemCountOwn

LEMMA SemCountSetOwn ==
    ASSUME Inv, OwnInv, Inv', NEW t \in Task, NEW s \in Sem, SemCountSet(t, s)
    PROVE  OwnInv' /\ Released
<1>1. PICK n \in 0..MaxCount : NoResched([Kernel EXCEPT !.count[s] = n])
  BY DEF SemCountSet
<1> QED
  BY <1>1, SemCountOwn

LEMMA SemGiveOwn ==
    ASSUME Inv, OwnInv, Inv', NEW s \in Sem, SemGive(s)
    PROVE  OwnInv' /\ Released
<1>1. CASE waitq[s] = <<>>
  <2>1. NoResched([Kernel EXCEPT !.count[s] = count[s] + 1])
    BY <1>1, KernelIs DEF SemGive
  <2> QED
    BY <2>1, SemCountOwn
<1>2. CASE waitq[s] # <<>>
  <2> DEFINE k == PendTaskWakeup(Kernel, Head(waitq[s]))
  <2>1. Resched(k) /\ s \in Obj
    BY <1>2, Kinds DEF SemGive
  <2>2. "FINISH" \in BlkState \ {"STALE"}
    BY DEF BlkState
  <2>3. k = WakeFirstAs(Kernel, s, "FINISH")
    BY <1>2, KernelIs DEF WakeFirstAs, WakeAs, PendTaskWakeup, PutBlkObj
  <2> HIDE DEF k
  <2>4. Good(k) /\ Tied(Kernel, k, NULL)
    BY <2>1, <2>2, <2>3, InvHas, WakeFirstOf
  <2>5. k \in KState /\ Become(k) /\ call' = call
    BY <2>1, <2>4, GoodState, Ends
  <2> QED
    BY <2>4, <2>5, SettledTied
<1> QED
  BY <1>1, <1>2

LEMMA SemGiveAllOwn ==
    ASSUME Inv, OwnInv, NEW s \in Sem, SemGiveAll(s)
    PROVE  OwnInv' /\ Released
<1> DEFINE k == WakeupAll(Kernel, s)
<1>1. Resched(k) /\ s \in Obj
  BY Kinds DEF SemGiveAll
<1>2. Good(k) /\ Tied(Kernel, k, NULL)
  BY <1>1, InvHas, WakeupAllOf
<1> HIDE DEF k
<1>3. k \in KState /\ Become(k) /\ call' = call
  BY <1>1, <1>2, GoodState, Ends
<1> QED
  BY <1>2, <1>3, SettledTied

LEMMA SemDelOwn ==
    ASSUME Inv, OwnInv, NEW t \in Task, NEW s \in Sem, SemDel(t, s)
    PROVE  OwnInv' /\ Released
<1> DEFINE dead == [Kernel EXCEPT !.live = @ \ {s}]
           k == PendRmAll(dead, s)
<1>1. Resched(k) /\ s \in Obj /\ s \notin Mutex
  BY Kinds DEF SemDel
<1>2. Good(dead)
  BY <1>1, DeadObject DEF SoundBut
<1>3. dead.live = live \ {s} /\ dead.mtx = mtx /\ dead.tcb = tcb
  BY KernelIs DEF Kernel
<1> HIDE DEF dead
<1>4. Good(k) /\ Tied(dead, k, NULL)
  BY <1>1, <1>2, PendRmAllOf
<1> HIDE DEF k
<1>5. dead \in KState /\ k \in KState /\ Become(k) /\ call' = call
  BY <1>1, <1>2, <1>4, GoodState, Ends
<1>6. Own(dead, call)
  <2>1. Mutex \cap dead.live = Mutex \cap Kernel.live /\ dead.mtx = Kernel.mtx
    BY <1>1, <1>3, KernelIs
  <2>2. \A u \in Task : Eased(Kernel.tcb[u], dead.tcb[u]) /\ SameList(Kernel, dead, u)
    BY <1>3, KernelIs, EasedSame DEF SameList
  <2> QED
    BY <1>5, <2>1, <2>2, InvHas, OwnHas, OwnEased
<1>7. Own(k, call')
  BY <1>4, <1>5, <1>6, OwnTied
<1>8. k.mtx = mtx
  BY <1>3, <1>4 DEF Tied
<1> QED
  BY <1>5, <1>7, <1>8, Settled

(* Where the control blocks are rewritten. *)
LEMMA TcbRewritten ==
    ASSUME Inv, NEW k, k.live = live, k.mtx = mtx, NEW u \in Task, NEW r,
           k.tcb = [tcb EXCEPT ![u] = r], Become(k)
    PROVE  /\ tcb'[u] = r /\ \A w \in Task \ {u} : tcb'[w] = tcb[w]
           /\ mtx' = mtx /\ live' = live
<1>1. tcb \in [AllTask -> Tcb] /\ u \in AllTask
  BY InvHas, KernelIs, Fields, Kinds
<1>2. tcb' = [tcb EXCEPT ![u] = r] /\ mtx' = mtx /\ live' = live
  BY DEF Become
<1> QED
  BY <1>1, <1>2, Kinds

LEMMA PendEndOwn ==
    ASSUME Inv, OwnInv, Inv', NEW t \in Task, PendEnd(t)
    PROVE  OwnInv' /\ Released
<1> DEFINE r == [tcb[t] EXCEPT !.blk_state = "STALE"]
           k == [Kernel EXCEPT !.tcb[t].blk_state = "STALE"]
<1>1. k.live = live /\ k.mtx = mtx /\ k.tcb = [tcb EXCEPT ![t] = r] /\ Become(k)
  BY DEF Kernel, PendEnd, Become
<1>2. tcb[t] \in Tcb /\ tcb[t].state = "RDY" /\ t \in AllTask
  BY InvHas, TcbHas, Kinds DEF PendEnd
<1>3. r.state = "RDY" /\ r.mutex_list = tcb[t].mutex_list
  BY <1>2 DEF Tcb
<1>4. CallSet(t, NULL)
  <2>1. call' = [call EXCEPT ![t] = NULL]
    BY DEF PendEnd
  <2> QED
    BY <2>1, CallSetOf
<1> HIDE DEF r, k
<1>5. /\ tcb'[t] = r /\ \A w \in Task \ {t} : tcb'[w] = tcb[w]
      /\ mtx' = mtx /\ live' = live
  BY <1>1, TcbRewritten
<1>6. Claim(Kernel', call', t)
  <2>1. Kernel'.tcb = tcb'
    BY DEF Kernel
  <2> QED
    BY <1>3, <1>4, <1>5, <2>1, Kinds, States DEF Claim, CallSet, Waits
<1>7. \A w \in Task \ {t} : Eased(tcb[w], tcb'[w]) /\ call'[w] = call[w]
  BY <1>4, <1>5, EasedSame DEF CallSet
<1> QED
  BY <1>2, <1>3, <1>5, <1>6, <1>7, SettledNear

LEMMA TaskSleepOwn ==
    ASSUME Inv, OwnInv, Inv', NEW t \in Task, NEW n \in Timeouts, TaskSleep(t, n)
    PROVE  OwnInv' /\ Released
<1> DEFINE r == [tcb[t] EXCEPT !.state = "SLEEP"]
           k == ReadyRm(TickInsert([Kernel EXCEPT !.tcb[t].state = "SLEEP"], t, n), t)
<1>1. Become(k) /\ t = active
  BY DEF TaskSleep, CoreSched, Runs
<1>2. k.live = live /\ k.mtx = mtx /\ k.tcb = [tcb EXCEPT ![t] = r]
  BY DEF Kernel, ReadyRm, TickInsert
<1>3. tcb[t] \in Tcb /\ tcb[t].state = "RDY" /\ t \in AllTask
  BY <1>1, InvHas, TcbHas, Kinds
<1>4. r.state = "SLEEP" /\ r.mutex_list = tcb[t].mutex_list
  BY <1>3 DEF Tcb
<1>5. CallSet(t, "sleep")
  <2>1. call' = [call EXCEPT ![t] = "sleep"]
    BY DEF TaskSleep
  <2> QED
    BY <2>1, CallSetOf
<1> HIDE DEF r, k
<1>6. /\ tcb'[t] = r /\ \A w \in Task \ {t} : tcb'[w] = tcb[w]
      /\ mtx' = mtx /\ live' = live
  BY <1>1, <1>2, TcbRewritten
<1>7. Claim(Kernel', call', t)
  <2>1. Kernel'.tcb = tcb'
    BY DEF Kernel
  <2>2. call'[t] \notin Mutex
    BY <1>5, RhinoAssumption DEF CallSet
  <2> QED
    BY <1>4, <1>6, <2>1, <2>2, States DEF Claim, Waits
<1>8. \A w \in Task \ {t} : Eased(tcb[w], tcb'[w]) /\ call'[w] = call[w]
  BY <1>5, <1>6, EasedSame DEF CallSet
<1> QED
  BY <1>3, <1>4, <1>6, <1>7, <1>8, States, SettledNear

LEMMA TaskYieldOwn ==
    ASSUME Inv, OwnInv, Inv', NEW t \in Task, TaskYield(t)
    PROVE  OwnInv' /\ Released
<1>1. Resched(HeadToTail(Kernel, t))
  BY DEF TaskYield
<1>2. mtx' = mtx /\ tcb' = tcb /\ live' = live /\ call' = call
  BY <1>1 DEF Resched, CoreSched, Become, HeadToTail, Kernel
<1> QED
  BY <1>2, SettledSame

LEMMA SchedDisableOwn ==
    ASSUME Inv, OwnInv, Inv', NEW t \in Task, SchedDisable(t)
    PROVE  OwnInv' /\ Released
BY SettledSame DEF SchedDisable, kernelVars

LEMMA SchedEnableOwn ==
    ASSUME Inv, OwnInv, Inv', NEW t \in Task, SchedEnable(t)
    PROVE  OwnInv' /\ Released
BY SettledSame DEF SchedEnable, CoreSched, Become, Kernel

(* One control block is rewritten and eased. *)
LEMMA OneEased ==
    ASSUME Inv, OwnInv, Inv', NEW k, k.live = live, k.mtx = mtx, NEW u \in Task, NEW r,
           k.tcb = [tcb EXCEPT ![u] = r], Become(k), call' = call, Eased(tcb[u], r),
           r.mutex_list = tcb[u].mutex_list
    PROVE  OwnInv' /\ Released
<1>1. /\ tcb'[u] = r /\ \A w \in Task \ {u} : tcb'[w] = tcb[w]
      /\ mtx' = mtx /\ live' = live
  BY TcbRewritten
<1>2. \A w \in Task : Eased(tcb[w], tcb'[w]) /\ tcb'[w].mutex_list = tcb[w].mutex_list
  BY <1>1, EasedSame
<1> QED
  BY <1>1, <1>2, SettledEased

(* What krhino_task_suspend and krhino_task_resume do to the state. *)
Halted(a, b) ==
    \/ b = a
    \/ a = "RDY" /\ b = "SUSPENDED"
    \/ a = "SUSPENDED" /\ b = "RDY"
    \/ {a, b} \subseteq Pending
    \/ {a, b} \subseteq Sleeping

HaltedAs(k, u, s, n) ==
    /\ k.live = live /\ k.mtx = mtx /\ k.kerr = kerr
    /\ k.tcb = [tcb EXCEPT ![u] = [tcb[u] EXCEPT !.state = s, !.suspend = n]]
    /\ Halted(tcb[u].state, s) /\ Resched(k)

LEMMA HaltedOwn ==
    ASSUME Inv, OwnInv, Inv', NEW u \in Task, NEW k, NEW s, NEW n, HaltedAs(k, u, s, n)
    PROVE  OwnInv' /\ Released
<1> DEFINE r == [tcb[u] EXCEPT !.state = s, !.suspend = n]
<1>1. tcb[u] \in Tcb
  BY TcbHas, Kinds
<1>2. /\ r.state = s /\ r.mutex_list = tcb[u].mutex_list /\ r.blk_obj = tcb[u].blk_obj
      /\ r.blk_state = tcb[u].blk_state
  BY <1>1 DEF Tcb
<1>3. k.tcb = [tcb EXCEPT ![u] = r] /\ k.live = live /\ k.mtx = mtx
  BY DEF HaltedAs
<1> HIDE DEF r
<1>4. Eased(tcb[u], r)
  BY <1>2, States DEF HaltedAs, Halted, Eased
<1>5. Become(k) /\ call' = call
  BY Ends DEF HaltedAs
<1> QED
  BY <1>2, <1>3, <1>4, <1>5, OneEased

(* krhino_task_suspend and krhino_task_resume. *)
LEMMA TaskSuspendIs ==
    ASSUME Inv, NEW t \in Task, NEW u \in Task, TaskSuspend(t, u)
    PROVE  \E k, s, n : HaltedAs(k, u, s, n)
<1>1. tcb[u] \in Tcb /\ tcb[u].state \in TaskState
  BY TcbHas, Kinds
<1> DEFINE r(s, n) == [tcb[u] EXCEPT !.state = s, !.suspend = n]
           once == [Kernel EXCEPT !.tcb[u].suspend = 1]
<1>2. \E k, s, n : HaltedAs(k, u, s, n)
  <2>1. CASE tcb[u].state = "RDY"
    <3> DEFINE k == ReadyRm([once EXCEPT !.tcb[u].state = "SUSPENDED"], u)
    <3>1. Resched(k)
      BY <2>1 DEF TaskSuspend
    <3>2. k.live = live /\ k.mtx = mtx /\ k.kerr = kerr /\ k.tcb = [tcb EXCEPT ![u] = r("SUSPENDED", 1)]
      BY DEF Kernel, ReadyRm
    <3> QED
      BY <2>1, <3>1, <3>2 DEF HaltedAs, Halted
  <2>2. CASE tcb[u].state = "SLEEP"
    <3> DEFINE k == [once EXCEPT !.tcb[u].state = "SLEEP_SUSPENDED"]
    <3>1. Resched(k)
      BY <2>2 DEF TaskSuspend
    <3>2. k.live = live /\ k.mtx = mtx /\ k.kerr = kerr /\ k.tcb = [tcb EXCEPT ![u] = r("SLEEP_SUSPENDED", 1)]
      BY DEF Kernel
    <3> QED
      BY <2>2, <3>1, <3>2 DEF HaltedAs, Halted, Sleeping
  <2>3. CASE tcb[u].state = "PEND"
    <3> DEFINE k == [once EXCEPT !.tcb[u].state = "PEND_SUSPENDED"]
    <3>1. Resched(k)
      BY <2>3 DEF TaskSuspend
    <3>2. k.live = live /\ k.mtx = mtx /\ k.kerr = kerr /\ k.tcb = [tcb EXCEPT ![u] = r("PEND_SUSPENDED", 1)]
      BY DEF Kernel
    <3> QED
      BY <2>3, <3>1, <3>2 DEF HaltedAs, Halted, Pending
  <2>4. CASE tcb[u].state \notin {"RDY", "SLEEP", "PEND"}
    <3> DEFINE n == tcb[u].suspend + 1
               k == [Kernel EXCEPT !.tcb[u].suspend = n]
    <3>1. Resched([Kernel EXCEPT !.tcb[u].suspend = @ + 1])
      BY <2>4 DEF TaskSuspend
    <3>2. Resched(k)
      BY <3>1 DEF Kernel
    <3> HIDE DEF n
    <3>3. k.live = live /\ k.mtx = mtx /\ k.kerr = kerr /\ k.tcb = [tcb EXCEPT ![u] = [tcb[u] EXCEPT !.suspend = n]]
      BY DEF Kernel
    <3>4. [tcb[u] EXCEPT !.suspend = n] = r(tcb[u].state, n)
      BY <1>1 DEF Tcb
    <3>5. Halted(tcb[u].state, tcb[u].state)
      BY DEF Halted
    <3> DEFINE s == tcb[u].state
    <3>6. HaltedAs(k, u, s, n)
      BY <3>2, <3>3, <3>4, <3>5 DEF HaltedAs
    <3> HIDE DEF k, s
    <3> QED
      BY <3>6
  <2> QED
    BY <2>1, <2>2, <2>3, <2>4
<1> QED
  BY <1>2

LEMMA TaskResumeIs ==
    ASSUME Inv, NEW t \in Task, NEW u \in Task, TaskResume(t, u)
    PROVE  \E k, s, n : HaltedAs(k, u, s, n)
<1>1. tcb[u] \in Tcb /\ tcb[u].state \in TaskState
  BY TcbHas, Kinds
<1> DEFINE n == tcb[u].suspend - 1
           r(s) == [tcb[u] EXCEPT !.state = s, !.suspend = n]
           less == [Kernel EXCEPT !.tcb[u].suspend = @ - 1]
<1>2. tcb[u].state \in {"SUSPENDED", "SLEEP_SUSPENDED", "PEND_SUSPENDED"}
  BY DEF TaskResume
<1>3. less = [Kernel EXCEPT !.tcb[u].suspend = n]
  BY DEF Kernel
<1>4. \E k, s : HaltedAs(k, u, s, n)
  <2>1. CASE less.tcb[u].suspend > 0
    <3>1. Resched(less)
      BY <2>1 DEF TaskResume
    <3>2. less.live = live /\ less.mtx = mtx /\ less.kerr = kerr /\ less.tcb = [tcb EXCEPT ![u] = [tcb[u] EXCEPT !.suspend = n]]
      BY DEF Kernel
    <3>3. [tcb[u] EXCEPT !.suspend = n] = r(tcb[u].state)
      BY <1>1 DEF Tcb
    <3> QED
      BY <3>1, <3>2, <3>3 DEF HaltedAs, Halted
  <2>2. CASE ~(less.tcb[u].suspend > 0) /\ tcb[u].state = "SUSPENDED"
    <3> DEFINE k == ReadyAdd([less EXCEPT !.tcb[u].state = "RDY"], u)
    <3>1. Resched(k)
      BY <2>2 DEF TaskResume
    <3>2. k.live = live /\ k.mtx = mtx /\ k.kerr = kerr /\ k.tcb = [tcb EXCEPT ![u] = r("RDY")]
      BY DEF Kernel, ReadyAdd
    <3> QED
      BY <2>2, <3>1, <3>2 DEF HaltedAs, Halted
  <2>3. CASE ~(less.tcb[u].suspend > 0) /\ tcb[u].state = "SLEEP_SUSPENDED"
    <3> DEFINE k == [less EXCEPT !.tcb[u].state = "SLEEP"]
    <3>1. Resched(k)
      BY <2>3 DEF TaskResume
    <3>2. k.live = live /\ k.mtx = mtx /\ k.kerr = kerr /\ k.tcb = [tcb EXCEPT ![u] = r("SLEEP")]
      BY DEF Kernel
    <3> QED
      BY <2>3, <3>1, <3>2 DEF HaltedAs, Halted, Sleeping
  <2>4. CASE ~(less.tcb[u].suspend > 0) /\ tcb[u].state = "PEND_SUSPENDED"
    <3> DEFINE k == [less EXCEPT !.tcb[u].state = "PEND"]
    <3>1. Resched(k)
      BY <2>4 DEF TaskResume
    <3>2. k.live = live /\ k.mtx = mtx /\ k.kerr = kerr /\ k.tcb = [tcb EXCEPT ![u] = r("PEND")]
      BY DEF Kernel
    <3> QED
      BY <2>4, <3>1, <3>2 DEF HaltedAs, Halted, Pending
  <2> QED
    BY <1>2, <2>1, <2>2, <2>3, <2>4
<1> QED
  BY <1>4

LEMMA TaskSuspendOwn ==
    ASSUME Inv, OwnInv, Inv', NEW t \in Task, NEW u \in Task, TaskSuspend(t, u)
    PROVE  OwnInv' /\ Released
BY TaskSuspendIs, HaltedOwn

LEMMA TaskResumeOwn ==
    ASSUME Inv, OwnInv, Inv', NEW t \in Task, NEW u \in Task, TaskResume(t, u)
    PROVE  OwnInv' /\ Released
BY TaskResumeIs, HaltedOwn

(* One control block is rewritten as a step of an action. *)
LEMMA PutEased ==
    ASSUME Inv, OwnInv, NEW u \in Task, NEW r \in Tcb, SameLists(tcb[u], r), Eased(tcb[u], r),
           r.mutex_list = tcb[u].mutex_list, NEW k, k = PutTcb(Kernel, u, r)
    PROVE  Good(k) /\ Own(k, call) /\ k.tcb[u] = r /\ k.mtx = mtx
<1>1. SameLists(Kernel.tcb[u], r) /\ Good(Kernel)
  BY InvHas, KernelIs
<1>2. Good(k) /\ Near(Kernel, k, u) /\ k.tcb[u] = r
  BY <1>1, TcbSet
<1>3. \A w \in Task : Eased(Kernel.tcb[w], k.tcb[w]) /\ SameList(Kernel, k, w)
  BY <1>2, KernelIs, EasedSame, Kinds DEF Near, SameList
<1>4. k \in KState /\ k.mtx = Kernel.mtx /\ Mutex \cap k.live = Mutex \cap Kernel.live
  BY <1>2, GoodState DEF Near
<1>5. Own(k, call)
  BY <1>3, <1>4, InvHas, OwnHas, OwnEased
<1> QED
  BY <1>2, <1>4, <1>5, KernelIs

(* What a task that changes a priority has checked. *)
LEMMA ChangeHas ==
    ASSUME ChangeInv, NEW t \in Task, change[t] # NULL
    PROVE  change[t][1] \in Task /\ change[t][2] \in Prio /\ Changes # {}
BY DEF ChangeInv

LEMMA TaskPriChangeCallOwn ==
    ASSUME Inv, OwnInv, Inv', NEW t \in Task, NEW u \in Task, NEW p \in Prio,
           TaskPriChangeCall(t, u, p)
    PROVE  OwnInv' /\ Released
BY SettledSame DEF TaskPriChangeCall, kernelVars

LEMMA TaskPriChangeMakeOwn ==
    ASSUME Inv, ChangeInv, OwnInv, NEW t \in Task, TaskPriChangeMake(t)
    PROVE  OwnInv' /\ Released
<1> DEFINE u == change[t][1]
           p == change[t][2]
<1>0. u \in Task /\ p \in Prio
  BY ChangeHas DEF TaskPriChangeMake
<1> DEFINE r == [tcb[u] EXCEPT !.b_prio = p]
           x == PutTcb(Kernel, u, r)
           limit == MutexPriLimit(Kernel, u, p)
           k == TaskPriChange(x, u, limit)
<1>1. IF k.kerr # "NONE" THEN NoResched(k)
      ELSE CoreSched(k, sched_lock) /\ call' = call
  BY DEF TaskPriChangeMake, PutTcb, Kernel
<1> HIDE DEF u, p
<1>2. p \in Prio /\ limit \in Prio
  BY <1>0, InvHas, PrioBounds
<1>3. tcb[u] \in Tcb /\ u \in AllTask
  BY <1>0, TcbHas, Kinds
<1>4. /\ r \in Tcb /\ r.state = tcb[u].state /\ r.prio = tcb[u].prio
      /\ r.blk_obj = tcb[u].blk_obj /\ r.blk_state = tcb[u].blk_state
      /\ r.mutex_list = tcb[u].mutex_list
  BY <1>2, <1>3 DEF Tcb
<1> HIDE DEF r, limit
<1>5. SameLists(tcb[u], r) /\ Eased(tcb[u], r)
  BY <1>4 DEF SameLists, Eased
<1>6. Good(x) /\ Own(x, call) /\ x.mtx = mtx
  BY <1>0, <1>4, <1>5, PutEased
<1> HIDE DEF x
<1>7. Good(k) /\ Reprio(x, k)
  BY <1>0, <1>2, <1>6, TaskPriChangeOf
<1> HIDE DEF k
<1>8. Become(k) /\ call' = call
  BY <1>1 DEF NoResched, CoreSched
<1>9. x \in KState /\ k \in KState
  BY <1>6, <1>7, GoodState
<1>10. Tied(x, k, NULL)
  BY <1>7, <1>9, ReprioTied
<1>11. Own(k, call')
  BY <1>6, <1>8, <1>9, <1>10, OwnTied
<1>12. k.mtx = mtx
  BY <1>6, <1>10 DEF Tied
<1> QED
  BY <1>8, <1>9, <1>11, <1>12, Settled

LEMMA TaskWaitAbortOwn ==
    ASSUME Inv, OwnInv, NEW t \in Task, NEW u \in Task, TaskWaitAbort(t, u)
    PROVE  OwnInv' /\ Released
<1> DEFINE k == WaitAborted(Kernel, u)
<1>1. Resched(k) /\ Kernel.tcb[u].state # "DELETED"
  BY KernelIs DEF TaskWaitAbort, Alive
<1>2. Good(k) /\ Tied(Kernel, k, NULL)
  BY <1>1, InvHas, WaitAbortedOf
<1> HIDE DEF k
<1>3. k \in KState /\ Become(k) /\ call' = call
  BY <1>1, <1>2, GoodState, Ends
<1> QED
  BY <1>2, <1>3, SettledTied

LEMMA TaskCancelOwn ==
    ASSUME Inv, OwnInv, NEW t \in Task, NEW u \in Task, TaskCancel(t, u)
    PROVE  OwnInv' /\ Released
<1> DEFINE r == [tcb[u] EXCEPT !.cancel = TRUE]
           x == PutTcb(Kernel, u, r)
           k == WaitAborted(x, u)
<1>1. IF tcb[u].state # "DELETED" THEN Resched(k) ELSE NoResched(x)
  BY DEF TaskCancel, Alive, PutTcb, Kernel
<1>2. tcb[u] \in Tcb /\ u \in AllTask
  BY TcbHas, Kinds
<1>3. /\ r \in Tcb /\ r.state = tcb[u].state /\ r.prio = tcb[u].prio /\ r.b_prio = tcb[u].b_prio
      /\ r.blk_obj = tcb[u].blk_obj /\ r.blk_state = tcb[u].blk_state
      /\ r.mutex_list = tcb[u].mutex_list
  BY <1>2 DEF Tcb
<1> HIDE DEF r
<1>4. SameLists(tcb[u], r) /\ Eased(tcb[u], r)
  BY <1>3 DEF SameLists, Eased
<1>5. Good(x) /\ Own(x, call) /\ x.tcb[u].state = tcb[u].state /\ x.mtx = mtx
  BY <1>3, <1>4, PutEased
<1>6. x \in KState
  BY <1>5, GoodState
<1> HIDE DEF x
<1>7. CASE tcb[u].state # "DELETED"
  <2>1. Resched(k)
    BY <1>1, <1>7
  <2>2. Good(k) /\ Tied(x, k, NULL)
    BY <1>5, <1>7, WaitAbortedOf
  <2> HIDE DEF k
  <2>3. k \in KState /\ Become(k) /\ call' = call
    BY <2>1, <2>2, GoodState, Ends
  <2>4. Own(k, call')
    BY <1>5, <1>6, <2>2, <2>3, OwnTied
  <2>5. k.mtx = mtx
    BY <1>5, <2>2 DEF Tied
  <2> QED
    BY <2>3, <2>4, <2>5, Settled
<1>8. CASE tcb[u].state = "DELETED"
  <2>1. Become(x) /\ call' = call
    BY <1>1, <1>8, Ends
  <2>2. Own(x, call')
    BY <1>5, <2>1
  <2> QED
    BY <1>5, <1>6, <2>1, <2>2, Settled
<1> QED
  BY <1>7, <1>8

LEMMA TickOwn ==
    ASSUME Inv, OwnInv, Tick
    PROVE  OwnInv' /\ Released
<1> DEFINE x == TickListUpdate(Kernel)
           k == TimeSliceUpdate(x)
<1>1. Become(k) /\ call' = call
  BY Ends DEF Tick
<1>2. Good(Kernel) /\ Timed(Kernel)
  BY InvHas DEF Sound, SoundBut
<1>3. Good(x) /\ Tied(Kernel, x, NULL)
  BY <1>2, TickListUpdateOf
<1> HIDE DEF x
<1>4. Good(k) /\ Tied(x, k, NULL)
  BY <1>3, InvHas, TimeSliceUpdateOf
<1> HIDE DEF k
<1>5. x \in KState /\ k \in KState
  BY <1>3, <1>4, GoodState
<1>6. Own(x, call)
  BY <1>3, <1>5, InvHas, OwnHas, OwnTied
<1>7. Own(k, call')
  BY <1>1, <1>4, <1>5, <1>6, OwnTied
<1>8. k.mtx = mtx
  BY <1>3, <1>4, KernelIs DEF Tied
<1> QED
  BY <1>1, <1>5, <1>7, <1>8, Settled

(* The deleted task gives back all it owns, and owns nothing afterwards. *)
LEMMA TaskDelOwn ==
    ASSUME Inv, OwnInv, NEW t \in Task, NEW u \in Task, "task_del" \in Calls, TaskDel(t, u)
    PROVE  OwnInv' /\ Released
<1> DEFINE x == TaskMutexFree(Kernel, u)
           k == TaskRemove(x, u)
<1>1. Become(k) /\ tcb[u].state # "DELETED" /\ ~Strict
  BY DEF TaskDel, CoreSched, Alive, Strict
<1>2. CallSet(u, NULL)
  <2>1. call' = [call EXCEPT ![u] = NULL]
    BY DEF TaskDel
  <2> QED
    BY <2>1, CallSetOf
<1>3. x = TaskMutexFree(Kernel, u) /\ Good(Kernel) /\ Own(Kernel, call)
      /\ Kernel.tcb[u].state # "DELETED"
  BY <1>1, InvHas, OwnHas, KernelIs
<1> HIDE DEF x
<1>4. Good(x) /\ Onward(Kernel, x)
  BY <1>3, TaskMutexFreeOf
<1>5. /\ x.live = Kernel.live /\ OwnersAlive(x)
      /\ Lists(x, Owner(x), u) /\ Mine(Owner(x), u) = {}
      /\ Claims(x, call) /\ OthersFreed(Kernel, x, u)
  BY <1>1, <1>3, TaskMutexFreeIs
<1>6. x.tcb[u].state # "DELETED"
  BY <1>3, <1>4, Kinds DEF Onward, Softer
<1>7. Good(k) /\ Parted(x, k, u) /\ Tied(x, k, u)
  BY <1>4, <1>6, TaskRemoveOf
<1> HIDE DEF k
<1>8. k \in KState /\ k.mtx = x.mtx /\ k.live = x.live /\ k.tcb[u].state = "DELETED"
  BY <1>7, GoodState DEF Tied, Parted
<1>9. \A w \in Task \ {u} : Eased(x.tcb[w], k.tcb[w]) /\ SameList(x, k, w)
  BY <1>7, TiedEased
<1>10. Owner(k) = Owner(x)
  BY <1>8, OwnerSame
<1>11. Lists(k, Owner(k), NULL)
  <2>1. Lists(k, Owner(k), u)
    BY <1>5, <1>8, <1>9, <1>10, ListsSame DEF Eased, SameList
  <2> QED
    BY <1>8, <2>1 DEF Lists
<1>12. OwnersAlive(k)
  <2>1. ASSUME NEW m \in Mutex, Owner(k)[m] # NULL PROVE k.tcb[Owner(k)[m]].state # "DELETED"
    <3>1. Owner(x)[m] \in Task \ {u}
      <4>1. Owner(x)[m] \in Task \cup {NULL}
        BY <1>4, GoodState, OwnerType DEF OwnType
      <4>2. Owner(x)[m] # u
        BY <1>5 DEF Mine
      <4> QED
        BY <1>10, <2>1, <4>1, <4>2
    <3>2. x.tcb[Owner(x)[m]].state # "DELETED"
      BY <1>5, <1>10, <2>1 DEF OwnersAlive
    <3> QED
      BY <1>9, <1>10, <3>1, <3>2 DEF Eased
  <2> QED
    BY <2>1 DEF OwnersAlive
<1>13. ASSUME NEW w \in Task PROVE Claim(k, call', w)
  <2>1. CASE w = u
    <3>1. call'[w] = NULL /\ k.tcb[w].state = "DELETED"
      BY <1>2, <1>8, <2>1 DEF CallSet
    <3> QED
      BY <3>1, Kinds, States DEF Claim, Waits
  <2>2. CASE w # u
    <3>1. Claim(x, call, w) /\ Eased(x.tcb[w], k.tcb[w]) /\ call'[w] = call[w]
      BY <1>2, <1>5, <1>9, <2>2 DEF Claims, CallSet
    <3>2. SameOwners(x, k) /\ Mutex \cap k.live \subseteq x.live
      BY <1>8 DEF SameOwners
    <3>3. k.tcb[w].state \in TaskState
      BY <1>8, Fields, TcbFields, Kinds
    <3>4. Claim(k, call, w)
      BY <3>1, <3>2, <3>3, ClaimEased
    <3> QED
      BY <3>1, <3>4 DEF Claim
  <2> QED
    BY <2>1, <2>2
<1>14. Own(k, call')
  BY <1>11, <1>12, <1>13 DEF Own
<1>15. OwnInv'
  BY <1>1, <1>8, <1>14, OwnNext
<1>16. Released
  <2>1. mtx' = x.mtx /\ tcb' = k.tcb
    BY <1>1, <1>8 DEF Become
  <2>2. \A m \in Mutex : mtx'[m].task # mtx[m].task => mtx[m].task = u
    BY <1>5, <2>1, KernelIs DEF OthersFreed
  <2>3. Alive(u) /\ tcb'[u].state = "DELETED"
    BY <1>1, <1>8, <2>1 DEF Alive
  <2> QED
    BY <2>2, <2>3 DEF Released
<1> QED
  BY <1>15, <1>16

(* A new task owns nothing, for its predecessor gave everything back. *)
LEMMA TaskCreateOwn ==
    ASSUME Inv, OwnInv, Inv', NEW t \in Task, NEW u \in Task, NEW s \in {"RDY", "SUSPENDED"},
           TaskCreate(t, u, s)
    PROVE  OwnInv' /\ Released
<1> DEFINE r == NewTcb(InitPrio[u], s)
           x == [Kernel EXCEPT !.tcb[u] = r]
           k == IF s = "RDY" THEN ReadyAdd(x, u) ELSE x
<1>1. tcb[u].state = "DELETED" /\ Become(k) /\ call' = call
  BY Ends DEF TaskCreate, Alive
<1>2. k.live = live /\ k.mtx = mtx /\ k.tcb = [tcb EXCEPT ![u] = r]
  BY DEF Kernel, ReadyAdd
<1>3. r.state = s /\ r.mutex_list = NULL
  BY DEF NewTcb
<1> HIDE DEF r, k
<1>4. /\ tcb'[u] = r /\ \A w \in Task \ {u} : tcb'[w] = tcb[w]
      /\ mtx' = mtx /\ live' = live
  BY <1>1, <1>2, TcbRewritten
<1> DEFINE k2 == Kernel'
<1>5. k2.tcb = tcb' /\ k2.mtx = mtx' /\ k2.live = live'
  BY DEF Kernel
<1>6. k2 = Kernel'
  OBVIOUS
<1> HIDE DEF k2
<1>7. Owner(k2) = Owner(Kernel)
  BY <1>4, <1>5, OwnerSame, KernelIs
<1>8. Mine(Owner(Kernel), u) = {}
  BY <1>1, OwnHas, KernelIs, Kinds DEF Mine, OwnersAlive
<1>9. Lists(k2, Owner(k2), NULL)
  <2>1. Lists(Kernel, Owner(Kernel), u)
    BY OwnHas, Kinds DEF Lists
  <2>2. Lists(k2, Owner(k2), u)
    BY <1>4, <1>5, <1>7, <2>1, ListsSame, KernelIs
  <2>3. Linked(k2, k2.tcb[u].mutex_list, Mine(Owner(k2), u))
    BY <1>3, <1>4, <1>5, <1>7, <1>8, LinkedNone
  <2> QED
    BY <2>2, <2>3 DEF Lists
<1>10. OwnersAlive(k2)
  <2>1. ASSUME NEW m \in Mutex, Owner(k2)[m] # NULL PROVE k2.tcb[Owner(k2)[m]].state # "DELETED"
    <3>1. Owner(Kernel)[m] \in Task \cup {NULL}
      BY OwnHas DEF OwnType
    <3>2. tcb[Owner(Kernel)[m]].state # "DELETED"
      BY <1>7, <2>1, OwnHas, KernelIs DEF OwnersAlive
    <3> QED
      BY <1>1, <1>4, <1>5, <1>7, <2>1, <3>1, <3>2
  <2> QED
    BY <2>1 DEF OwnersAlive
<1>11. ASSUME NEW w \in Task PROVE Claim(k2, call', w)
  <2>1. CASE w = u
    <3>1. call'[w] = NULL
      BY <1>1, <2>1, InvHas, KernelIs DEF Sound, SoundBut, CallOk
    <3>2. k2.tcb[w].state \in {"RDY", "SUSPENDED"}
      BY <1>3, <1>4, <1>5, <2>1
    <3> QED
      BY <3>1, <3>2, Kinds, States DEF Claim, Waits
  <2>2. CASE w # u
    <3>1. Claim(Kernel, call, w)
      BY OwnHas DEF Claims
    <3> QED
      BY <1>1, <1>4, <1>5, <2>2, <3>1, KernelIs DEF Claim, Waits, Over, Told
  <2> QED
    BY <2>1, <2>2
<1>12. Own(k2, call')
  BY <1>9, <1>10, <1>11 DEF Own
<1>13. OwnInv'
  BY <1>6, <1>12 DEF OwnInv
<1>14. Released
  BY <1>4 DEF Released
<1> QED
  BY <1>13, <1>14

-----------------------------------------------------------------------------
(* The ownership invariant is inductive, relative to Inv. *)

LEMMA MutexLockOverflowOwn ==
    ASSUME Inv, OwnInv, Inv', NEW t \in Task, NEW m \in Mutex, MutexLockOverflow(t, m)
    PROVE  OwnInv' /\ Released
BY SettledSame DEF MutexLockOverflow, NoResched, Become, Kernel

LEMMA MutexStepOwn ==
    ASSUME Inv, OwnInv, Inv', NEW t \in Task, MutexStep(t)
    PROVE  OwnInv' /\ Released
BY MutexLockNestedOwn, MutexLockOverflowOwn, MutexLockFreeOwn, MutexLockPendOwn, MutexUnlockNestedOwn,
   MutexUnlockOwn, MutexDelOwn, MutexCreateOwn DEF MutexStep

LEMMA SemStepOwn ==
    ASSUME Inv, OwnInv, Inv', NEW t \in Task, SemStep(t)
    PROVE  OwnInv' /\ Released
BY SemTakeOwn, SemTakePendOwn, SemCountSetOwn, SemDelOwn, SemCreateOwn DEF SemStep

LEMMA TaskStepOwn ==
    ASSUME Inv, OwnInv, Inv', NEW t \in Task, TaskStep(t)
    PROVE  OwnInv' /\ Released
BY TaskSuspendOwn, TaskResumeOwn, TaskPriChangeCallOwn, TaskWaitAbortOwn,
   TaskCancelOwn, TaskDelOwn, TaskCreateOwn DEF TaskStep

LEMMA SchedStepOwn ==
    ASSUME Inv, OwnInv, Inv', NEW t \in Task, SchedStep(t)
    PROVE  OwnInv' /\ Released
BY TaskSleepOwn, TaskYieldOwn, SchedDisableOwn, SchedEnableOwn DEF SchedStep

LEMMA NextOwn ==
    ASSUME Inv, ChangeInv, OwnInv, [Next]_vars
    PROVE  OwnInv' /\ Released
<1>1. Inv'
  BY NextKeeps
<1>2. CASE UNCHANGED vars
  BY <1>1, <1>2, SettledSame DEF vars, kernelVars
<1>3. ASSUME NEW t \in Task,
             \/ PendEnd(t) \/ TaskPriChangeMake(t)
             \/ MutexStep(t) \/ SemStep(t) \/ TaskStep(t) \/ SchedStep(t)
      PROVE  OwnInv' /\ Released
  BY <1>1, <1>3, PendEndOwn, TaskPriChangeMakeOwn, MutexStepOwn, SemStepOwn, TaskStepOwn, SchedStepOwn
<1>4. ASSUME NEW s \in Sem, SemGive(s) \/ SemGiveAll(s)
      PROVE  OwnInv' /\ Released
  BY <1>1, <1>4, SemGiveOwn, SemGiveAllOwn
<1>5. CASE Tick
  BY <1>5, TickOwn
<1> QED
  BY <1>2, <1>3, <1>4, <1>5 DEF Next, Stopped

LEMMA InitOwn == Init => OwnInv
<1> SUFFICES ASSUME Init PROVE OwnInv
  OBVIOUS
<1>1. \A m \in Mutex : Kernel.mtx[m].task = NULL
  BY KernelIs DEF Init, FreeMutex
<1>2. \A u \in Task : Kernel.tcb[u].state = "RDY" /\ Kernel.tcb[u].mutex_list = NULL
  BY KernelIs, Kinds DEF Init, InitTcb, NewTcb
<1>3. \A u \in Task : call[u] = NULL
  BY DEF Init
<1>4. \A m \in Mutex : Owner(Kernel)[m] = NULL
  BY <1>1 DEF Owner
<1>5. Lists(Kernel, Owner(Kernel), NULL)
  <2>1. \A u \in Task : Mine(Owner(Kernel), u) = {}
    BY <1>4, Kinds DEF Mine
  <2> QED
    BY <1>2, <2>1, LinkedNone DEF Lists
<1>6. OwnersAlive(Kernel)
  BY <1>4 DEF OwnersAlive
<1>7. \A u \in Task : Claim(Kernel, call, u)
  BY <1>2, <1>3, Kinds, States DEF Claim, Waits
<1> QED
  BY <1>5, <1>6, <1>7 DEF OwnInv, Own

LEMMA OwnAlways == Spec => [](Inv /\ ChangeInv /\ OwnInv)
<1>1. Init => Inv /\ ChangeInv /\ OwnInv
  BY InitInv, InitChange, InitOwn
<1>2. (Inv /\ ChangeInv /\ OwnInv) /\ [Next]_vars => (Inv /\ ChangeInv /\ OwnInv)'
  BY NextKeeps, ChangeKeeps, NextOwn
<1> QED
  BY <1>1, <1>2, PTL DEF Spec

-----------------------------------------------------------------------------
(* What the invariant says of the properties. *)

LEMMA OwnerLives ==
    ASSUME Inv, OwnInv, INHERIT \/ "task_del" \notin Calls, NEW m \in Mutex, m \in live,
           mtx[m].task # NULL
    PROVE  Alive(mtx[m].task)
<1>1. mtx[m].task \in Task
  BY OwnHas
<1>2. CASE INHERIT
  <2>1. Owner(Kernel)[m] = mtx[m].task
    BY <1>2, OwnHas
  <2> QED
    BY <2>1, OwnHas, KernelIs DEF OwnersAlive, Alive
<1>3. CASE "task_del" \notin Calls
  <2>1. Claim(Kernel, call, mtx[m].task)
    BY <1>1, OwnHas DEF Claims
  <2> QED
    BY <1>3, <2>1, KernelIs DEF Claim, Alive
<1> QED
  BY <1>2, <1>3

LEMMA OwnersHold ==
    ASSUME Inv, OwnInv, INHERIT \/ "task_del" \notin Calls
    PROVE  OwnersSound
<1>1. ASSUME NEW m \in Mutex, waitq[m] # <<>>
      PROVE  /\ mtx[m].task # NULL /\ Alive(mtx[m].task)
             /\ mtx[m].task \notin Range(waitq[m])
  <2>1. m \in Obj /\ Good(Kernel) /\ WaitPart(Kernel, NULL)
    BY InvHas, Kinds DEF Good, But
  <2>2. \A u \in Task : u \in Range(waitq[m]) => Waits(Kernel, u, m)
    BY <2>1, KernelIs, Kinds DEF WaitPart, Waits
  <2>3. PICK u \in Task : Waits(Kernel, u, m)
    BY <1>1, <2>1, NoWaiter, KernelIs
  <2>4. m \in live
    BY <2>1, <2>3, Unwaited, KernelIs DEF Waits
  <2>5. \A w \in Task : Waits(Kernel, w, m) => mtx[m].task \notin {NULL, w}
    BY OwnHas, KernelIs DEF Claims, Claim
  <2>6. mtx[m].task \in Task \cup {NULL}
    BY OwnHas
  <2> QED
    BY <2>2, <2>3, <2>4, <2>5, <2>6, OwnerLives
<1>2. ASSUME INHERIT, NEW t \in Task, Alive(t)
      PROVE  /\ LET node == Links(Kernel, t)
                IN  \A i, j \in DOMAIN node : node[i] = node[j] /\ node[i] # NULL => i = j
             /\ Held(Kernel, t) = {m \in live \cap Mutex : mtx[m].task = t}
  <2>1. Linked(Kernel, Kernel.tcb[t].mutex_list, Mine(Owner(Kernel), t))
    BY <1>2, OwnHas, KernelIs, Kinds DEF Lists, Alive
  <2>2. Mine(Owner(Kernel), t) = {m \in live \cap Mutex : mtx[m].task = t}
    BY <1>2, OwnHas, Kinds DEF Mine
  <2> HIDE DEF Mine
  <2>3. Kernel \in KState
    BY InvHas
  <2> QED
    BY <2>1, <2>2, <2>3, LinksAre
<1> QED
  BY <1>1, <1>2 DEF OwnersSound

(* A blocking call is over when the task reads why it was woken. *)
LEMMA CallEnds ==
    ASSUME Inv, Next, "task_del" \notin Calls, NEW t \in Task, call[t] # NULL, call'[t] = NULL
    PROVE  PendEnd(t)
<1>1. call' # call /\ call \in CallType
  BY InvHas
<1>2. \A u \in Task, o \in Obj \cup {"sleep"} : call' # [call EXCEPT ![u] = o]
  <2>1. ASSUME NEW u \in Task, NEW o \in Obj \cup {"sleep"}, call' = [call EXCEPT ![u] = o]
        PROVE  FALSE
    BY <1>1, <2>1, Kinds DEF CallType
  <2> QED
    BY <2>1
<1>3. ASSUME NEW u \in Task
      PROVE  /\ ~MutexStep(u) /\ ~SemStep(u) /\ ~TaskStep(u) /\ ~SchedStep(u)
             /\ ~TaskPriChangeMake(u)
  <2>1. ~MutexStep(u)
    BY <1>1, <1>2, Kinds
       DEF MutexStep, MutexLockNested, MutexLockOverflow, MutexLockFree, MutexLockPend,
           MutexUnlockNested, MutexUnlock, MutexDel, MutexCreate, NoResched, Resched
  <2>2. ~SemStep(u)
    BY <1>1, <1>2, Kinds
       DEF SemStep, SemTake, SemTakePend, SemCountSet, SemDel, SemCreate, NoResched, Resched
  <2>3. ~TaskStep(u)
    BY <1>1 DEF TaskStep, TaskSuspend, TaskResume, TaskPriChangeCall, TaskWaitAbort,
                TaskCancel, TaskCreate, NoResched, Resched
  <2>4. ~SchedStep(u)
    BY <1>1, <1>2 DEF SchedStep, TaskSleep, TaskYield, SchedDisable, SchedEnable, Resched
  <2>5. ~TaskPriChangeMake(u)
    BY <1>1 DEF TaskPriChangeMake, NoResched
  <2> QED
    BY <2>1, <2>2, <2>3, <2>4, <2>5
<1>4. ~Stopped /\ ~Tick /\ \A s \in Sem : ~SemGive(s) /\ ~SemGiveAll(s)
  BY <1>1 DEF Stopped, vars, Tick, SemGive, SemGiveAll, NoResched, Resched
<1>5. PICK u \in Task : PendEnd(u)
  BY <1>3, <1>4 DEF Next
<1>6. u = t
  BY <1>1, <1>5 DEF PendEnd, CallType
<1> QED
  BY <1>5, <1>6

-----------------------------------------------------------------------------
(* A mutex that is waited for always has an owner that is alive and not    *)
(* one of the waiters, and a task's list links exactly the mutexes it      *)
(* owns.  Without inheritance the kernel keeps no lists, and a deleted     *)
(* task could not give back what it owns: then no task is deleted.         *)
THEOREM OwnersAlwaysSound ==
    ASSUME INHERIT \/ "task_del" \notin Calls
    PROVE  Spec => []OwnersSound
<1>1. Inv /\ OwnInv => OwnersSound
  BY OwnersHold
<1> QED
  BY <1>1, OwnAlways, PTL

(* k_task.c:905: no deleted task owns a mutex, under the same condition. *)
THEOREM DeletedNeverOwns ==
    ASSUME INHERIT \/ "task_del" \notin Calls
    PROVE  Spec => []DeletedOwnsNothing
<1>1. Inv /\ OwnInv => DeletedOwnsNothing
  BY OwnerLives DEF DeletedOwnsNothing
<1> QED
  BY <1>1, OwnAlways, PTL

(* k_mutex.c:404: an owned mutex changes hands only in an unlock by its    *)
(* owner, or when the owner or the mutex is deleted, in every instance.    *)
THEOREM MutexReleasedByOwner == Spec => ReleasedByOwner
<1>1. Inv /\ ChangeInv /\ OwnInv /\ [Next]_vars => [Released]_vars
  BY NextOwn
<1>2. Spec => [][Released]_vars
  BY <1>1, OwnAlways, PTL DEF Spec
<1> QED
  BY <1>2 DEF ReleasedByOwner, Released

(* krhino_mutex_lock reports success if and only if the caller owns the    *)
(* mutex when the call returns, however late that is, as long as no task   *)
(* is deleted and no mutex made anew in between.                           *)
THEOREM LockAlwaysTruthful ==
    ASSUME {"task_del", "mutex_create"} \cap Calls = {}
    PROVE  Spec => LockResultTrue
<1> DEFINE true == \A t \in Task :
                       call[t] \in Mutex \cap live /\ call'[t] = NULL /\ tcb'[t].state # "DELETED" =>
                           LET m == mtx[call[t]]
                           IN  IF PendStateEnd(t) = "FINISH" THEN m.task = t /\ m.nested = 1
                               ELSE m.task # t
<1>1. ASSUME Inv, OwnInv, Next PROVE true
  <2>1. SUFFICES ASSUME NEW t \in Task, call[t] \in Mutex \cap live, call'[t] = NULL
                 PROVE  LET m == mtx[call[t]]
                        IN  IF PendStateEnd(t) = "FINISH" THEN m.task = t /\ m.nested = 1
                            ELSE m.task # t
    OBVIOUS
  <2>2. PendEnd(t)
    <3>1. "task_del" \notin Calls /\ call[t] # NULL
      BY <2>1, Kinds
    <3> QED
      BY <1>1, <2>1, <3>1, CallEnds
  <2>3. tcb[t].state = "RDY"
    BY <1>1, <2>2, InvHas DEF PendEnd
  <2>4. Claim(Kernel, call, t)
    BY <1>1, OwnHas DEF Claims
  <2>5. Told(Kernel, t, call[t])
    BY <2>1, <2>3, <2>4, KernelIs DEF Claim, Strict, Over
  <2>6. PendStateEnd(t) = tcb[t].blk_state
    BY <2>1 DEF PendStateEnd
  <2> QED
    BY <2>5, <2>6, KernelIs DEF Told
<1>2. Inv /\ OwnInv /\ [Next]_vars => [true]_vars
  BY <1>1
<1> HIDE DEF true
<1>3. Spec => [][true]_vars
  BY <1>2, OwnAlways, PTL DEF Spec
<1> QED
  BY <1>3 DEF LockResultTrue, true

-----------------------------------------------------------------------------
(***************************************************************************)
(* Inherited priorities.  V holds pairs of a task and a mutex it is about  *)
(* to wait for: krhino_mutex_lock raises the owner before it puts the      *)
(* caller on the blocked list.                                             *)
(***************************************************************************)
Ahead(k, own, V, w, t) ==
    \E m \in Mutex : own[m] = t /\ (Waits(k, w, m) \/ <<w, m>> \in V)

(* p is the better of b and the priorities of the tasks behind t. *)
Least(k, own, V, t, b, p) ==
    /\ p <= b
    /\ \A w \in Task : Ahead(k, own, V, w, t) => p <= k.tcb[w].prio
    /\ \/ p = b
       \/ \E w \in Task : Ahead(k, own, V, w, t) /\ k.tcb[w].prio = p

(* The priority t should have. *)
Due(k, own, V, t, p) == Least(k, own, V, t, k.tcb[t].b_prio, p)

(* Every task but x has the priority that is due. *)
Exact(k, own, V, x) ==
    \A t \in Task \ {x} :
        k.tcb[t].state # "DELETED" => Due(k, own, V, t, k.tcb[t].prio)

LEMMA PriosIn ==
    ASSUME NEW k \in KState, NEW t \in AllTask
    PROVE  /\ k.tcb[t] \in Tcb /\ k.tcb[t].prio \in 0..IdlePri /\ k.tcb[t].b_prio \in 0..IdlePri
           /\ k.tcb[t].prio \in Int /\ k.tcb[t].b_prio \in Int /\ IdlePri \in Int
<1>1. k.tcb[t] \in Tcb
  BY Fields
<1> QED
  BY <1>1, TcbFields, Kinds

(* The waiters of a mutex are the tasks that wait for it. *)
LEMMA WaiterIs ==
    ASSUME NEW k, Good(k), NEW o \in Obj, NEW u \in Task
    PROVE  u \in Range(k.waitq[o]) <=> Waits(k, u, o)
BY Kinds DEF Good, But, WaitPart, Waits

(* The first waiter has the best priority. *)
LEMMA FirstIsBest ==
    ASSUME NEW k, Good(k), NEW o \in Obj, NEW u \in Task, Waits(k, u, o)
    PROVE  /\ k.waitq[o] # <<>> /\ Head(k.waitq[o]) \in Task
           /\ k.tcb[Head(k.waitq[o])].prio <= k.tcb[u].prio
<1>1. u \in Range(k.waitq[o]) /\ k.waitq[o] \in Seq(Task) /\ k \in KState
  BY WaiterIs, WaitListOf, GoodState DEF Good
<1>2. PICK i \in DOMAIN k.waitq[o] : k.waitq[o][i] = u
  BY <1>1 DEF Range
<1>3. i \in 1..Len(k.waitq[o]) /\ DOMAIN k.waitq[o] = 1..Len(k.waitq[o])
  BY <1>1, <1>2
<1>4. k.waitq[o] # <<>> /\ Head(k.waitq[o]) = k.waitq[o][1] /\ 1 \in DOMAIN k.waitq[o]
  BY <1>1, <1>3
<1>5. Head(k.waitq[o]) \in Task
  BY <1>4, FirstWaiter
<1>6. Ordered(k.waitq[o], PrioOf(k))
  BY GoodOrdered
<1>7. 1 < i => k.tcb[Head(k.waitq[o])].prio <= k.tcb[u].prio
  BY <1>2, <1>4, <1>5, <1>6 DEF Ordered, PrioOf
<1>8. k.tcb[u].prio \in Int
  BY <1>1, PriosIn, Kinds
<1>9. i = 1 => Head(k.waitq[o]) = u
  BY <1>2, <1>4
<1> QED
  BY <1>3, <1>4, <1>5, <1>7, <1>8, <1>9

(* What mutex_pri_look and mutex_pri_limit find. *)
LEMMA LeastPrio ==
    ASSUME NEW k, Good(k), NEW own, NEW t \in Task, Linked(k, k.tcb[t].mutex_list, Mine(own, t)),
           NEW b \in Prio, NEW q, q = Min({b} \cup HeadPrios(k, t))
    PROVE  q \in Prio /\ Least(k, own, {}, t, b, q)
<1>1. k \in KState /\ Prio = 0..IdlePri
  BY GoodState, Kinds
<1>2. Held(k, t) = Mine(own, t)
  BY <1>1, LinksAre
<1>3. \A m \in Mine(own, t) : m \in Obj /\ m \in Mutex /\ own[m] = t
  BY Kinds DEF Mine
<1>4. ASSUME NEW m \in Mine(own, t), k.waitq[m] # <<>>
      PROVE  LET v == Head(k.waitq[m])
             IN  /\ v \in Task /\ Ahead(k, own, {}, v, t) /\ k.tcb[v].prio \in Prio
                 /\ k.tcb[v].prio \in HeadPrios(k, t)
  <2>1. Head(k.waitq[m]) \in Task /\ Waits(k, Head(k.waitq[m]), m)
    BY <1>3, <1>4, FirstWaiter DEF Waits
  <2>2. k.tcb[Head(k.waitq[m])].prio \in Prio
    BY <1>1, <2>1, PriosIn, Kinds
  <2> QED
    BY <1>2, <1>3, <1>4, <2>1, <2>2 DEF Ahead, HeadPrios
<1>5. \A y \in HeadPrios(k, t) :
          y \in Prio /\ \E w \in Task : Ahead(k, own, {}, w, t) /\ k.tcb[w].prio = y
  BY <1>2, <1>4 DEF HeadPrios
<1>6. {b} \cup HeadPrios(k, t) \in SUBSET Nat /\ {b} \cup HeadPrios(k, t) # {}
  BY <1>1, <1>5, Kinds
<1>7. q \in {b} \cup HeadPrios(k, t) /\ \A y \in {b} \cup HeadPrios(k, t) : q <= y
  BY <1>6, LeastOf
<1>8. ASSUME NEW w \in Task, Ahead(k, own, {}, w, t) PROVE q <= k.tcb[w].prio
  <2>1. PICK m \in Mine(own, t) : Waits(k, w, m)
    BY <1>8 DEF Ahead, Mine
  <2>2. k.waitq[m] # <<>> /\ Head(k.waitq[m]) \in Task
        /\ k.tcb[Head(k.waitq[m])].prio <= k.tcb[w].prio
    BY <1>3, <2>1, FirstIsBest
  <2>3. k.tcb[Head(k.waitq[m])].prio \in HeadPrios(k, t)
    BY <1>4, <2>2
  <2>4. q <= k.tcb[Head(k.waitq[m])].prio
    BY <1>7, <2>3
  <2>5. q \in Int /\ k.tcb[w].prio \in Int /\ k.tcb[Head(k.waitq[m])].prio \in Int
    BY <1>1, <1>5, <1>7, <2>2, PriosIn, Kinds
  <2> QED
    BY <2>2, <2>4, <2>5
<1> QED
  BY <1>5, <1>7, <1>8 DEF Least

LEMMA LookIsDue ==
    ASSUME INHERIT, NEW k, Good(k), NEW own, NEW t \in Task,
           Linked(k, k.tcb[t].mutex_list, Mine(own, t))
    PROVE  MutexPriLook(k, t) \in Prio /\ Due(k, own, {}, t, MutexPriLook(k, t))
<1> DEFINE q == MutexPriLook(k, t)
           b == k.tcb[t].b_prio
<1>1. q = Min({b} \cup HeadPrios(k, t))
  BY DEF MutexPriLook
<1>2. b \in Prio
  BY PrioBounds
<1> HIDE DEF q, b
<1>3. q \in Prio /\ Least(k, own, {}, t, b, q)
  BY <1>1, <1>2, LeastPrio
<1> QED
  BY <1>3 DEF Due, q, b

(* The tasks behind t and their priorities are the same. *)
SameBehind(k, k2, own, own2, V, V2, t) ==
    \A w \in Task :
        /\ Ahead(k2, own2, V2, w, t) <=> Ahead(k, own, V, w, t)
        /\ Ahead(k, own, V, w, t) => k2.tcb[w].prio = k.tcb[w].prio

LEMMA DueSame ==
    ASSUME NEW k, NEW k2, NEW own, NEW own2, NEW V, NEW V2, NEW t,
           SameBehind(k, k2, own, own2, V, V2, t), k2.tcb[t].b_prio = k.tcb[t].b_prio,
           NEW p, Due(k, own, V, t, p)
    PROVE  Due(k2, own2, V2, t, p)
<1> DEFINE b == k.tcb[t].b_prio
<1>1. /\ p <= b
      /\ \A w \in Task : Ahead(k, own, V, w, t) => p <= k.tcb[w].prio
      /\ p = b \/ \E w \in Task : Ahead(k, own, V, w, t) /\ k.tcb[w].prio = p
  BY DEF Due, Least
<1>2. k2.tcb[t].b_prio = b
  OBVIOUS
<1> HIDE DEF b
<1>3. \A w \in Task : Ahead(k2, own2, V2, w, t) => p <= k2.tcb[w].prio
  BY <1>1 DEF SameBehind
<1>4. p = b \/ \E w \in Task : Ahead(k2, own2, V2, w, t) /\ k2.tcb[w].prio = p
  BY <1>1 DEF SameBehind
<1> QED
  BY <1>1, <1>2, <1>3, <1>4 DEF Due, Least

(* Priorities stay, and nobody comes to life. *)
SamePrios(k, k2) ==
    \A u \in Task :
        /\ k2.tcb[u].prio = k.tcb[u].prio /\ k2.tcb[u].b_prio = k.tcb[u].b_prio
        /\ k2.tcb[u].state # "DELETED" => k.tcb[u].state # "DELETED"

(* Tasks other than t wait for the same owned mutexes. *)
SameWaits(k, k2, own, t) ==
    \A u \in Task \ {t}, m \in Mutex : own[m] # NULL => (Waits(k2, u, m) <=> Waits(k, u, m))

LEMMA ExactSteady ==
    ASSUME NEW k, NEW k2, NEW own, NEW V, NEW x, Exact(k, own, V, x),
           SamePrios(k, k2), SameWaits(k, k2, own, NULL)
    PROVE  Exact(k2, own, V, x)
<1> SUFFICES ASSUME NEW t \in Task \ {x}, k2.tcb[t].state # "DELETED"
             PROVE  Due(k2, own, V, t, k2.tcb[t].prio)
  BY DEF Exact
<1>1. Due(k, own, V, t, k.tcb[t].prio)
  BY DEF Exact, SamePrios
<1>2. SameBehind(k, k2, own, own, V, V, t)
  BY Kinds DEF SameBehind, Ahead, SameWaits, SamePrios
<1>3. k2.tcb[t].prio = k.tcb[t].prio /\ k2.tcb[t].b_prio = k.tcb[t].b_prio
  BY DEF SamePrios
<1> QED
  BY <1>1, <1>2, <1>3, DueSame

(* A waiter t leaves: only the owner y of its mutex may have to change. *)
LEMMA ExactLeft ==
    ASSUME NEW k \in KState, NEW k2, NEW own, NEW x, Exact(k, own, {}, x), SamePrios(k, k2),
           NEW t \in Task, SameWaits(k, k2, own, t), x \in {NULL, t},
           x = t => k2.tcb[t].state = "DELETED",
           \A m \in Mutex : own[m] # NULL => ~Waits(k2, t, m),
           NEW y, \A m \in Mutex : own[m] # NULL /\ Waits(k, t, m) => own[m] = y
    PROVE  /\ Exact(k2, own, {}, y)
           /\ y \in Task /\ k.tcb[y].prio # k.tcb[t].prio => Exact(k2, own, {}, NULL)
<1>1. ASSUME NEW u \in Task, u # y, k2.tcb[u].state # "DELETED"
      PROVE  Due(k2, own, {}, u, k2.tcb[u].prio)
  <2>1. u # x /\ k.tcb[u].state # "DELETED"
    BY <1>1, Kinds DEF SamePrios
  <2>2. Due(k, own, {}, u, k.tcb[u].prio)
    BY <2>1 DEF Exact
  <2>3. ~Ahead(k, own, {}, t, u) /\ ~Ahead(k2, own, {}, t, u)
    BY <1>1, Kinds DEF Ahead
  <2>4. \A w \in Task \ {t} : Ahead(k2, own, {}, w, u) <=> Ahead(k, own, {}, w, u)
    BY Kinds DEF Ahead, SameWaits
  <2>5. SameBehind(k, k2, own, own, {}, {}, u)
    BY <2>3, <2>4 DEF SameBehind, SamePrios
  <2>6. k2.tcb[u].prio = k.tcb[u].prio /\ k2.tcb[u].b_prio = k.tcb[u].b_prio
    BY DEF SamePrios
  <2> QED
    BY <2>2, <2>5, <2>6, DueSame
<1>2. ASSUME y \in Task, k.tcb[y].prio # k.tcb[t].prio, k2.tcb[y].state # "DELETED"
      PROVE  Due(k2, own, {}, y, k2.tcb[y].prio)
  <2> DEFINE q == k.tcb[y].prio
             b == k.tcb[y].b_prio
  <2>1. y # x /\ k.tcb[y].state # "DELETED"
    BY <1>2, Kinds DEF SamePrios
  <2>2. /\ q <= b
        /\ \A w \in Task : Ahead(k, own, {}, w, y) => q <= k.tcb[w].prio
        /\ q = b \/ \E w \in Task : Ahead(k, own, {}, w, y) /\ k.tcb[w].prio = q
    BY <1>2, <2>1 DEF Exact, Due, Least
  <2>3. k2.tcb[y].prio = q /\ k2.tcb[y].b_prio = b /\ q # k.tcb[t].prio
    BY <1>2 DEF SamePrios
  <2> HIDE DEF q, b
  <2>4. \A w \in Task : k2.tcb[w].prio = k.tcb[w].prio
    BY DEF SamePrios
  <2>5. ~Ahead(k2, own, {}, t, y)
    BY <1>2, Kinds DEF Ahead
  <2>6. \A w \in Task \ {t} : Ahead(k2, own, {}, w, y) <=> Ahead(k, own, {}, w, y)
    BY <1>2, Kinds DEF Ahead, SameWaits
  <2>7. \A w \in Task : Ahead(k2, own, {}, w, y) => q <= k2.tcb[w].prio
    BY <2>2, <2>4, <2>5, <2>6
  <2>8. q = b \/ \E w \in Task : Ahead(k2, own, {}, w, y) /\ k2.tcb[w].prio = q
    BY <2>2, <2>3, <2>4, <2>6
  <2> QED
    BY <2>2, <2>3, <2>7, <2>8 DEF Due, Least
<1> QED
  BY <1>1, <1>2 DEF Exact

(* A mutex m that belongs to nobody, or to the task h that is left out, *)
(* goes to its first waiter v.                                           *)
LEMMA ExactGiven ==
    ASSUME NEW k, Good(k), NEW k2, NEW own \in OwnType, NEW h, Exact(k, own, {}, h),
           SamePrios(k, k2), NEW m \in Mutex, own[m] \in {NULL, h}, NEW v \in Task,
           v # h, k.waitq[m] # <<>>, v = Head(k.waitq[m]),
           \A u \in Task \ {v}, x \in Mutex : Waits(k2, u, x) <=> Waits(k, u, x),
           \A x \in Mutex : ~Waits(k2, v, x)
    PROVE  Exact(k2, [own EXCEPT ![m] = v], {}, h)
<1> DEFINE own2 == [own EXCEPT ![m] = v]
<1>1. own2[m] = v /\ \A x \in Mutex \ {m} : own2[x] = own[x]
  BY DEF OwnType
<1>2. m \in Obj /\ k \in KState
  BY Kinds, GoodState
<1>3. Waits(k, v, m) /\ \A x \in Mutex : Waits(k, v, x) => x = m
  BY <1>2, FirstWaiter DEF Waits
<1> HIDE DEF own2
<1>4. \A t \in Task \ {h} : \A w \in Task : Ahead(k, own, {}, w, t) => w # v
  BY <1>3, Kinds DEF Ahead
<1>5. \A t \in Task : \A w \in Task : Ahead(k2, own2, {}, w, t) => w # v
  BY DEF Ahead
<1>6. ASSUME NEW t \in Task \ {h, v}, NEW w \in Task
      PROVE  Ahead(k2, own2, {}, w, t) <=> Ahead(k, own, {}, w, t)
  <2>1. w # v => (Ahead(k2, own2, {}, w, t) <=> Ahead(k, own, {}, w, t))
    BY <1>1, <1>6, Kinds DEF Ahead
  <2> QED
    BY <1>4, <1>5, <2>1
<1>7. ASSUME NEW t \in Task \ {h, v}, k2.tcb[t].state # "DELETED"
      PROVE  Due(k2, own2, {}, t, k2.tcb[t].prio)
  <2>1. Due(k, own, {}, t, k.tcb[t].prio)
    BY <1>7 DEF Exact, SamePrios
  <2>2. SameBehind(k, k2, own, own2, {}, {}, t)
    BY <1>6 DEF SameBehind, SamePrios
  <2>3. k2.tcb[t].prio = k.tcb[t].prio /\ k2.tcb[t].b_prio = k.tcb[t].b_prio
    BY DEF SamePrios
  <2> QED
    BY <2>1, <2>2, <2>3, DueSame
<1>8. ASSUME k2.tcb[v].state # "DELETED" PROVE Due(k2, own2, {}, v, k2.tcb[v].prio)
  <2> DEFINE q == k.tcb[v].prio
             b == k.tcb[v].b_prio
  <2>1. /\ q <= b
        /\ \A w \in Task : Ahead(k, own, {}, w, v) => q <= k.tcb[w].prio
        /\ q = b \/ \E w \in Task : Ahead(k, own, {}, w, v) /\ k.tcb[w].prio = q
    BY <1>8 DEF Exact, Due, Least, SamePrios
  <2>2. k2.tcb[v].prio = q /\ k2.tcb[v].b_prio = b
    BY DEF SamePrios
  <2>3. \A w \in Task : Waits(k, w, m) => q <= k.tcb[w].prio
    BY <1>2, FirstIsBest
  <2> HIDE DEF q, b
  <2>4. \A w \in Task : Ahead(k2, own2, {}, w, v) => Ahead(k, own, {}, w, v) \/ Waits(k, w, m)
    BY <1>1, <1>5 DEF Ahead
  <2>5. \A w \in Task : Ahead(k, own, {}, w, v) => Ahead(k2, own2, {}, w, v)
    BY <1>1, <1>4 DEF Ahead
  <2>6. \A w \in Task : k2.tcb[w].prio = k.tcb[w].prio
    BY DEF SamePrios
  <2>7. \A w \in Task : Ahead(k2, own2, {}, w, v) => q <= k2.tcb[w].prio
    BY <2>1, <2>3, <2>4, <2>6
  <2>8. q = b \/ \E w \in Task : Ahead(k2, own2, {}, w, v) /\ k2.tcb[w].prio = q
    BY <2>1, <2>5, <2>6
  <2> QED
    BY <2>1, <2>2, <2>7, <2>8 DEF Due, Least
<1> QED
  BY <1>7, <1>8 DEF Exact, own2

-----------------------------------------------------------------------------
(* A mutex that somebody waits for has an owner who can pass it on. *)
Waited(k) ==
    \A u \in Task, m \in Mutex \cap k.live :
        Waits(k, u, m) => /\ k.mtx[m].task \in Task \ {u}
                          /\ k.tcb[k.mtx[m].task].state # "DELETED"

(* The loop of task_pri_change visits tasks that are not deleted. *)
Walk(s) ==
    /\ s \in PriLoop /\ Waited(s.k)
    /\ s.task # NULL => s.k.tcb[s.task].state # "DELETED"

(* t has the new priority p, and its place in the lists. *)
Reset(k, k2, t, p) ==
    Good(k2) /\ Reprio(k, k2) /\ Near(k, k2, t) /\ k2.tcb[t] = TcbPrio(k.tcb[t], p)

LEMMA ResetHas ==
    ASSUME NEW k, Good(k), NEW t \in Task, NEW p \in Prio, NEW k2, Reset(k, k2, t, p)
    PROVE  /\ k2 \in KState /\ k2.tcb[t].prio = p
           /\ \A u \in AllTask \ {t} : k2.tcb[u] = k.tcb[u]
           /\ \A u \in AllTask : /\ k2.tcb[u].b_prio = k.tcb[u].b_prio
                                 /\ k2.tcb[u].state = k.tcb[u].state
                                 /\ k2.tcb[u].mutex_list = k.tcb[u].mutex_list
           /\ \A u \in Task, m \in Mutex : Waits(k2, u, m) <=> Waits(k, u, m)
           /\ k2.mtx = k.mtx /\ k2.live = k.live /\ k2.kerr = k.kerr
           /\ Waited(k) => Waited(k2)
<1>1. k \in KState /\ k2 \in KState
  BY GoodState DEF Reset
<1>2. k.tcb[t] \in Tcb
  BY <1>1, PriosIn, Kinds
<1>3. \A u \in AllTask \ {t} : k2.tcb[u] = k.tcb[u]
  BY DEF Reset, Near
<1>4. /\ k2.tcb[t].prio = p /\ k2.tcb[t].b_prio = k.tcb[t].b_prio
      /\ k2.tcb[t].state = k.tcb[t].state /\ k2.tcb[t].blk_obj = k.tcb[t].blk_obj
      /\ k2.tcb[t].mutex_list = k.tcb[t].mutex_list
  BY <1>2, TcbPrioFields DEF Reset
<1>5. \A u \in AllTask : /\ k2.tcb[u].b_prio = k.tcb[u].b_prio
                         /\ k2.tcb[u].state = k.tcb[u].state
                         /\ k2.tcb[u].blk_obj = k.tcb[u].blk_obj
                         /\ k2.tcb[u].mutex_list = k.tcb[u].mutex_list
  BY <1>3, <1>4
<1>6. \A u \in Task, m \in Mutex : Waits(k2, u, m) <=> Waits(k, u, m)
  BY <1>5, Kinds DEF Waits
<1>7. k2.mtx = k.mtx /\ k2.live = k.live /\ k2.kerr = k.kerr
  BY DEF Reset, Near
<1>8. Waited(k) => Waited(k2)
  BY <1>5, <1>6, <1>7, Kinds DEF Waited
<1> QED
  BY <1>1, <1>3, <1>4, <1>5, <1>6, <1>7, <1>8

(* One round: the task has its priority already, or it is given it and the *)
(* loop ends or goes on with the owner of the mutex the task waits for.    *)
LEMMA PriStepIs ==
    ASSUME NEW s, Walk(s), NEW s2, s2 = PriStep(s), NEW k, k = s.k, NEW t, t = s.task,
           t # NULL, NEW p, p = s.pri
    PROVE  /\ t \in Task /\ p \in Prio /\ Good(k)
           /\ IF k.tcb[t].prio = p THEN s2.k = k /\ s2.task = NULL
              ELSE \E x : /\ Reset(k, x, t, p)
                          /\ \/ /\ s2.k = x /\ s2.task = NULL
                                /\ \A m \in Mutex \cap k.live : ~Waits(k, t, m)
                             \/ \E m \in Mutex \cap k.live :
                                    /\ Waits(k, t, m)
                                    /\ s2 = NextInChain(x, m, p, k.tcb[t].prio)
<1> DEFINE state == k.tcb[t].state
<1>1. /\ Good(k) /\ t \in Task /\ p \in Prio /\ s = [k |-> k, task |-> t, pri |-> p]
  BY DEF Walk, PriLoop
<1>2. k.tcb[t] \in Tcb /\ state \in TaskState /\ state # "DELETED"
  BY <1>1, GoodState, Kinds, Fields, TcbFields DEF Walk
<1>3. CASE k.tcb[t].prio = p
  <2>1. s2 = [k |-> k, task |-> NULL, pri |-> p]
    BY <1>1, <1>3 DEF PriStep
  <2> QED
    BY <1>1, <1>3, <2>1
<1>4. CASE k.tcb[t].prio # p
  <2> DEFINE x == PriSet(k, t, p)
  <2>1. Reset(k, x, t, p)
    BY <1>1, PriSetOf DEF Reset
  <2>2. CASE state \notin Pending
    <3>1. s2 = [k |-> x, task |-> NULL, pri |-> p]
      BY <1>1, <1>2, <1>4, <2>2, States DEF PriStep, PriSet, PutPrio
    <3> HIDE DEF x
    <3>2. s2.k = x /\ s2.task = NULL
      BY <3>1
    <3>3. \A m \in Mutex \cap k.live : ~Waits(k, t, m)
      BY <2>2 DEF Waits
    <3> QED
      BY <1>1, <1>4, <2>1, <3>2, <3>3
  <2>3. CASE state \in Pending
    <3> DEFINE o == k.tcb[t].blk_obj
    <3>1. s2 = IF o \in Mutex \cap k.live THEN NextInChain(x, o, p, k.tcb[t].prio)
               ELSE [k |-> x, task |-> NULL, pri |-> p]
      <4>1. state # "RDY" /\ state \notin Sleeping \cup {"SUSPENDED"}
        BY <2>3, States
      <4>2. x = PendListReorder([k EXCEPT !.tcb[t].prio = p], t)
        BY <2>3, <4>1 DEF PriSet, PutPrio
      <4> HIDE DEF x
      <4>3. s2 = LET z == PendListReorder([k EXCEPT !.tcb[t].prio = p], t)
                 IN  IF o \in Mutex \cap k.live THEN NextInChain(z, o, p, k.tcb[t].prio)
                     ELSE [[s EXCEPT !.task = NULL] EXCEPT !.k = z]
        BY <1>1, <1>4, <2>3, <4>1 DEF PriStep
      <4> QED
        BY <1>1, <4>2, <4>3
    <3>2. \A m \in Mutex : Waits(k, t, m) <=> m = o
      BY <2>3 DEF Waits
    <3> HIDE DEF x, o
    <3>3. CASE o \in Mutex \cap k.live
      <4>1. s2 = NextInChain(x, o, p, k.tcb[t].prio) /\ Waits(k, t, o)
        BY <3>1, <3>2, <3>3
      <4> QED
        BY <1>1, <1>4, <2>1, <3>3, <4>1
    <3>4. CASE o \notin Mutex \cap k.live
      <4>1. s2.k = x /\ s2.task = NULL
        BY <3>1, <3>4
      <4>2. \A m \in Mutex \cap k.live : ~Waits(k, t, m)
        BY <3>2, <3>4
      <4> QED
        BY <1>1, <1>4, <2>1, <4>1, <4>2
    <3> QED
      BY <3>3, <3>4
  <2> QED
    BY <2>2, <2>3
<1> QED
  BY <1>3, <1>4

LEMMA NextInChainIs ==
    ASSUME NEW k \in KState, NEW m, NEW p \in Prio, NEW old, NEW s, s = NextInChain(k, m, p, old),
           NEW y \in Task, y = k.mtx[m].task
    PROVE  /\ s.k = k
           /\ \/ k.tcb[y].prio > p /\ s.task = y /\ s.pri = p
              \/ /\ k.tcb[y].prio <= p /\ k.tcb[y].prio = old
                 /\ s.task = y /\ s.pri = MutexPriLook(k, y) /\ s.pri # old
              \/ /\ k.tcb[y].prio <= p /\ s.task = NULL
                 /\ k.tcb[y].prio # old \/ MutexPriLook(k, y) = old
<1> DEFINE look == MutexPriLook(k, y)
           py == k.tcb[y].prio
           go(p2) == [k |-> k, task |-> y, pri |-> p2]
           end == [k |-> k, task |-> NULL, pri |-> p]
<1>1. s = CASE py > p -> go(p)
            [] py <= p /\ py = old /\ look # old -> go(look)
            [] OTHER -> end
  BY DEF NextInChain
<1>2. \A p2 : go(p2).k = k /\ go(p2).task = y /\ go(p2).pri = p2
  OBVIOUS
<1>3. end.k = k /\ end.task = NULL
  OBVIOUS
<1>4. py \in Int /\ p \in Int
  BY PriosIn, Kinds
<1> HIDE DEF look, go, end, py
<1>5. \/ py > p /\ s = go(p)
      \/ py <= p /\ py = old /\ look # old /\ s = go(look)
      \/ py <= p /\ (py # old \/ look = old) /\ s = end
  BY <1>1, <1>4
<1> QED
  BY <1>2, <1>3, <1>5 DEF look, py

-----------------------------------------------------------------------------
(* Why task_pri_change ends.  While the loop raises tasks to one priority, *)
(* each round leaves fewer tasks that are worse; while it lowers them,     *)
(* each round leaves fewer that have the priority that is given up; and a  *)
(* loop that raises never lowers again.                                    *)
Worse(k, p) == {u \in Task : k.tcb[u].prio > p}
At(k, p)    == {u \in Task : k.tcb[u].prio = p}

Rank(s) ==
    LET q == s.k.tcb[s.task].prio
    IN  IF s.task = NULL THEN 0
        ELSE IF s.pri = q THEN 1
        ELSE IF s.pri < q THEN Cardinality(Worse(s.k, s.pri))
        ELSE Cardinality(Task) + Cardinality(At(s.k, q))

LEMMA TaskSets ==
    ASSUME NEW S \in SUBSET Task
    PROVE  /\ Cardinality(S) \in Nat /\ Cardinality(Task) \in Nat
           /\ Cardinality(S) <= Cardinality(Task)
           /\ \A t \in S : Cardinality(S \ {t}) = Cardinality(S) - 1 /\ Cardinality(S) > 0
<1>1. IsFiniteSet(S) /\ Cardinality(S) <= Cardinality(Task)
  BY RhinoAssumption, FS_Subset
<1>2. Cardinality(S) \in Nat /\ Cardinality(Task) \in Nat
  BY <1>1, RhinoAssumption, FS_CardinalityType
<1>3. ASSUME NEW t \in S PROVE Cardinality(S \ {t}) = Cardinality(S) - 1 /\ Cardinality(S) > 0
  <2>1. Cardinality(S \ {t}) = Cardinality(S) - 1
    BY <1>1, FS_RemoveElement
  <2>2. Cardinality(S) # 0
    BY <1>1, FS_EmptySet
  <2> QED
    BY <1>2, <2>1, <2>2
<1> QED
  BY <1>1, <1>2, <1>3

LEMMA RankIs ==
    ASSUME NEW s, NEW k, k = s.k, NEW t \in Task, t = s.task, NEW q, q = k.tcb[t].prio,
           NEW p, p = s.pri
    PROVE  Rank(s) = IF p = q THEN 1
                     ELSE IF p < q THEN Cardinality(Worse(k, p))
                     ELSE Cardinality(Task) + Cardinality(At(k, q))
BY Kinds DEF Rank

LEMMA RankBounds ==
    ASSUME NEW s, Walk(s)
    PROVE  /\ Rank(s) \in Nat /\ Rank(s) <= PriFuel
           /\ Rank(s) = 0 <=> s.task = NULL
<1> DEFINE c == Cardinality(Task)
<1>1. c \in Nat /\ IdlePri \in Nat \ {0}
  BY TaskSets, Kinds
<1>2. PriFuel \in Nat /\ c + c <= PriFuel /\ 1 <= PriFuel
  <2> HIDE DEF c
  <2>1. (c + 1) * (IdlePri + 1) = c * IdlePri + c + IdlePri + 1
    BY <1>1
  <2>2. c * IdlePri \in Nat /\ c <= c * IdlePri
    BY <1>1
  <2>3. PriFuel = c * IdlePri + c + IdlePri + 1
    BY <2>1 DEF PriFuel, c
  <2> QED
    BY <1>1, <2>2, <2>3
<1>3. CASE s.task = NULL
  <2>1. Rank(s) = 0
    BY <1>3 DEF Rank
  <2> QED
    BY <1>2, <1>3, <2>1
<1>4. CASE s.task # NULL
  <2> DEFINE k == s.k  t == s.task  q == k.tcb[t].prio  p == s.pri
             w == Cardinality(Worse(k, p))
             a == Cardinality(At(k, q))
  <2>1. t \in Task /\ p \in Int /\ k \in KState /\ q \in Int
    <3>1. t \in Task /\ p \in Prio /\ k \in KState
      BY <1>4, GoodState DEF Walk, PriLoop
    <3> QED
      BY <3>1, PriosIn, Kinds
  <2>2. Rank(s) = IF p = q THEN 1 ELSE IF p < q THEN w ELSE c + a
    BY <2>1, RankIs
  <2>3. Worse(k, p) \in SUBSET Task /\ At(k, q) \in SUBSET Task
    BY DEF Worse, At
  <2>4. w \in Nat /\ a \in Nat /\ w <= c /\ a <= c
    BY <2>3, TaskSets
  <2>5. p < q => t \in Worse(k, p)
    BY <2>1 DEF Worse
  <2>6. t \in At(k, q)
    BY <2>1 DEF At
  <2>7. (p < q => w > 0) /\ a > 0
    BY <2>3, <2>5, <2>6, TaskSets
  <2> HIDE DEF k, t, q, p, w, a, c
  <2> QED
    BY <1>1, <1>2, <1>4, <2>1, <2>2, <2>4, <2>7
<1> QED
  BY <1>3, <1>4

LEMMA WalkStep ==
    ASSUME NEW s, Walk(s), NEW s2, s2 = PriStep(s)
    PROVE  /\ Walk(s2) /\ s2.k.kerr = s.k.kerr
           /\ s.task # NULL => Rank(s2) < Rank(s)
           /\ s.task = NULL => s2 = s
<1>1. s \in PriLoop /\ Waited(s.k) /\ s2 \in PriLoop
  BY PriStepOf DEF Walk
<1>2. CASE s.task = NULL
  <2>1. s2 = s
    BY <1>2 DEF PriStep
  <2> QED
    BY <1>2, <2>1
<1>3. CASE s.task # NULL
  <2> DEFINE k == s.k  t == s.task  p == s.pri  q == k.tcb[t].prio
             c == Cardinality(Task)
  <2>1. /\ t \in Task /\ p \in Prio /\ Good(k)
        /\ IF q = p THEN s2.k = k /\ s2.task = NULL
           ELSE \E x : /\ Reset(k, x, t, p)
                       /\ \/ /\ s2.k = x /\ s2.task = NULL
                             /\ \A m \in Mutex \cap k.live : ~Waits(k, t, m)
                          \/ \E m \in Mutex \cap k.live :
                                 /\ Waits(k, t, m) /\ s2 = NextInChain(x, m, p, q)
    BY <1>3, PriStepIs
  <2>2. Rank(s) \in Nat /\ Rank(s) # 0
    BY <1>3, RankBounds
  <2>3. ASSUME s2.task = NULL PROVE Rank(s2) < Rank(s)
    <3>1. Rank(s2) = 0
      BY <2>3 DEF Rank
    <3> QED
      BY <2>2, <3>1
  <2>4. CASE q = p
    <3>1. Walk(s2)
      BY <1>1, <2>1, <2>4 DEF Walk
    <3> QED
      BY <1>3, <2>1, <2>3, <2>4, <3>1
  <2>5. CASE q # p
    <3>1. PICK x : /\ Reset(k, x, t, p)
                   /\ \/ /\ s2.k = x /\ s2.task = NULL
                         /\ \A m \in Mutex \cap k.live : ~Waits(k, t, m)
                      \/ \E m \in Mutex \cap k.live :
                             /\ Waits(k, t, m) /\ s2 = NextInChain(x, m, p, q)
      BY <2>1, <2>5
    <3> HIDE DEF k, t, p
    <3>2. /\ x \in KState /\ x.tcb[t].prio = p /\ Waited(x) /\ x.kerr = k.kerr
          /\ \A u \in AllTask \ {t} : x.tcb[u] = k.tcb[u]
          /\ \A u \in AllTask : x.tcb[u].state = k.tcb[u].state
          /\ x.mtx = k.mtx
      BY <1>1, <2>1, <3>1, ResetHas DEF k
    <3>3. CASE s2.k = x /\ s2.task = NULL
      <4>1. Walk(s2)
        BY <1>1, <3>2, <3>3 DEF Walk
      <4> QED
        BY <1>3, <2>3, <3>2, <3>3, <4>1 DEF k
    <3>4. CASE \E m \in Mutex \cap k.live : Waits(k, t, m) /\ s2 = NextInChain(x, m, p, q)
      <4>1. PICK m \in Mutex \cap k.live : Waits(k, t, m) /\ s2 = NextInChain(x, m, p, q)
        BY <3>4
      <4> DEFINE y == k.mtx[m].task
                 look == MutexPriLook(x, y)
                 z == x.tcb[y].prio
      <4>2. y \in Task \ {t} /\ k.tcb[y].state # "DELETED"
        BY <1>1, <2>1, <4>1 DEF Waited, k
      <4>3. /\ s2.k = x
            /\ \/ z > p /\ s2.task = y /\ s2.pri = p
               \/ z <= p /\ z = q /\ s2.task = y /\ s2.pri = look /\ s2.pri # q
               \/ s2.task = NULL
        BY <2>1, <3>2, <4>1, <4>2, NextInChainIs
      <4>4. Walk(s2)
        BY <1>1, <3>2, <4>2, <4>3, Kinds DEF Walk
      <4>5. ASSUME s2.task = y PROVE Rank(s2) < Rank(s)
        <5> DEFINE p2 == s2.pri
                   w  == Cardinality(Worse(k, p))   w2 == Cardinality(Worse(x, p2))
                   a  == Cardinality(At(k, q))      a2 == Cardinality(At(x, z))
        <5>1. Rank(s) = IF p = q THEN 1 ELSE IF p < q THEN w ELSE c + a
          BY <2>1, RankIs DEF k, t, p
        <5>2. Rank(s2) = IF p2 = z THEN 1 ELSE IF p2 < z THEN w2 ELSE c + a2
          BY <4>2, <4>3, <4>5, RankIs
        <5>3. p \in Int /\ q \in Int /\ z \in Int /\ k \in KState /\ p2 \in Int
          <6>1. k \in KState
            BY <2>1, GoodState
          <6>2. s2.pri \in Prio
            BY <4>2, <4>4, <4>5, Kinds DEF Walk, PriLoop
          <6> QED
            BY <2>1, <3>2, <4>2, <6>1, <6>2, PriosIn, Kinds
        <5>4. \A S \in SUBSET Task : /\ Cardinality(S) \in Nat /\ c \in Nat /\ Cardinality(S) <= c
                                     /\ t \in S => Cardinality(S \ {t}) = Cardinality(S) - 1
                                                   /\ Cardinality(S) > 0
          BY TaskSets
        <5>5. /\ Worse(k, p) \in SUBSET Task /\ Worse(x, p2) \in SUBSET Task
              /\ At(k, q) \in SUBSET Task /\ At(x, z) \in SUBSET Task
          BY DEF Worse, At
        <5>6. /\ w \in Nat /\ w2 \in Nat /\ a \in Nat /\ a2 \in Nat /\ c \in Nat
              /\ w2 <= c /\ a2 <= c
          BY <5>4, <5>5
        <5>7. t \in At(k, q) /\ a > 0
          <6>1. t \in At(k, q)
            BY <2>1 DEF At
          <6> QED
            BY <5>4, <5>5, <6>1
        <5>8. ASSUME p < q, p2 = p PROVE w2 < w
          <6>1. t \in Worse(k, p) /\ Worse(x, p) = Worse(k, p) \ {t}
            BY <2>1, <3>2, <5>3, <5>8, Kinds DEF Worse
          <6> QED
            BY <5>4, <5>5, <5>6, <5>8, <6>1
        <5>9. ASSUME p > q, z = q PROVE a2 < a
          <6>1. At(x, z) = At(k, q) \ {t}
            BY <2>1, <3>2, <5>3, <5>9, Kinds DEF At
          <6> QED
            BY <5>4, <5>5, <5>6, <5>7, <6>1
        <5>10. \/ z > p /\ p2 = p
               \/ z <= p /\ z = q /\ p2 # q
          BY <4>2, <4>3, <4>5, Kinds
        <5> HIDE DEF q, c, w, w2, a, a2, z, p2
        <5>11. CASE p < q
          <6>1. p2 = p /\ p2 < z
            BY <5>3, <5>10, <5>11
          <6>2. Rank(s) = w
            BY <5>1, <5>3, <5>11
          <6>3. Rank(s2) = w2
            BY <5>2, <5>3, <6>1
          <6>4. w2 < w
            BY <5>8, <5>11, <6>1
          <6> QED
            BY <6>2, <6>3, <6>4
        <5>12. CASE p > q
          <6>1. p2 # z
            BY <5>3, <5>10
          <6>2. p2 > z => z = q
            BY <5>3, <5>10
          <6>3. Rank(s) = c + a
            BY <5>1, <5>3, <5>12
          <6>4. Rank(s2) = IF p2 < z THEN w2 ELSE c + a2
            BY <5>2, <6>1
          <6>5. p2 > z => a2 < a
            BY <5>9, <5>12, <6>2
          <6>6. p2 < z \/ p2 > z
            BY <5>3, <6>1
          <6> QED
            BY <5>3, <5>6, <5>7, <6>3, <6>4, <6>5, <6>6
        <5> QED
          BY <2>5, <5>3, <5>11, <5>12
      <4> QED
        BY <1>3, <2>3, <3>2, <4>3, <4>4, <4>5 DEF k
    <3> QED
      BY <3>1, <3>3, <3>4
  <2> QED
    BY <2>4, <2>5
<1> QED
  BY <1>2, <1>3

-----------------------------------------------------------------------------
(* What one round does to the priorities that are due: t, which only y has *)
(* to heed, goes from old to p.                                            *)
LEMMA ExactReset ==
    ASSUME NEW k, Good(k), NEW t \in Task, NEW p \in Prio, NEW k2, Reset(k, k2, t, p),
           NEW own, NEW V, Exact(k, own, V, t), Due(k, own, V, t, p),
           NEW y, y # t, \A x \in Task : Ahead(k, own, V, t, x) => x = y,
           NEW old, old = k.tcb[t].prio
    PROVE  /\ Exact(k2, own, V, y)
           /\ y \in Task /\ Ahead(k, own, V, t, y) /\ k.tcb[y].state # "DELETED" =>
                /\ k2.tcb[y].prio > p => Due(k2, own, V, y, p)
                /\ k2.tcb[y].prio <= p /\ k2.tcb[y].prio # old
                       => Due(k2, own, V, y, k2.tcb[y].prio)
<1>1. /\ k2 \in KState /\ k2.tcb[t].prio = p
      /\ \A u \in AllTask \ {t} : k2.tcb[u] = k.tcb[u]
      /\ \A u \in AllTask : k2.tcb[u].b_prio = k.tcb[u].b_prio /\ k2.tcb[u].state = k.tcb[u].state
      /\ \A u \in Task, m \in Mutex : Waits(k2, u, m) <=> Waits(k, u, m)
  BY ResetHas
<1>2. \A w, x \in Task : Ahead(k2, own, V, w, x) <=> Ahead(k, own, V, w, x)
  BY <1>1 DEF Ahead
<1>3. ASSUME NEW u \in Task, u # y, k2.tcb[u].state # "DELETED"
      PROVE  Due(k2, own, V, u, k2.tcb[u].prio)
  <2>1. SameBehind(k, k2, own, own, V, V, u)
    BY <1>1, <1>2, <1>3, Kinds DEF SameBehind
  <2>2. Due(k, own, V, u, k2.tcb[u].prio)
    <3>1. CASE u = t
      BY <1>1, <3>1
    <3>2. CASE u # t
      <4>1. k2.tcb[u] = k.tcb[u]
        BY <1>1, <3>2, Kinds
      <4> QED
        BY <1>3, <3>2, <4>1 DEF Exact
    <3> QED
      BY <3>1, <3>2
  <2>3. k2.tcb[u].b_prio = k.tcb[u].b_prio
    BY <1>1, Kinds
  <2> QED
    BY <2>1, <2>2, <2>3, DueSame
<1>4. ASSUME y \in Task, Ahead(k, own, V, t, y), k.tcb[y].state # "DELETED"
      PROVE  /\ k2.tcb[y].prio > p => Due(k2, own, V, y, p)
             /\ k2.tcb[y].prio <= p /\ k2.tcb[y].prio # old
                    => Due(k2, own, V, y, k2.tcb[y].prio)
  <2> DEFINE q == k2.tcb[y].prio
             b == k2.tcb[y].b_prio
  <2>1. k.tcb[y].prio = q /\ k.tcb[y].b_prio = b
    BY <1>1, <1>4, Kinds
  <2>2. /\ q <= b
        /\ \A w \in Task : Ahead(k, own, V, w, y) => q <= k.tcb[w].prio
        /\ q = b \/ \E w \in Task : Ahead(k, own, V, w, y) /\ k.tcb[w].prio = q
    BY <1>4, <2>1 DEF Exact, Due, Least
  <2>3. q \in Int /\ b \in Int /\ p \in Int /\ \A w \in Task : k2.tcb[w].prio \in Int
    BY <1>1, <1>4, PriosIn, Kinds
  <2> HIDE DEF q, b
  <2>4. \A w \in Task \ {t} : Ahead(k2, own, V, w, y) => q <= k2.tcb[w].prio
    BY <1>1, <1>2, <1>4, <2>2, Kinds
  <2>5. ASSUME q > p PROVE Due(k2, own, V, y, p)
    <3>1. p <= b
      BY <2>2, <2>3, <2>5
    <3>2. \A w \in Task : Ahead(k2, own, V, w, y) => p <= k2.tcb[w].prio
      BY <1>1, <2>3, <2>4, <2>5
    <3>3. Ahead(k2, own, V, t, y) /\ k2.tcb[t].prio = p
      BY <1>1, <1>2, <1>4
    <3> QED
      BY <3>1, <3>2, <3>3 DEF Due, Least, b
  <2>6. ASSUME q <= p, q # old PROVE Due(k2, own, V, y, q)
    <3>1. \A w \in Task : Ahead(k2, own, V, w, y) => q <= k2.tcb[w].prio
      BY <1>1, <2>4, <2>6
    <3>2. q = b \/ \E w \in Task : Ahead(k2, own, V, w, y) /\ k2.tcb[w].prio = q
      <4> SUFFICES ASSUME NEW w \in Task, Ahead(k, own, V, w, y), k.tcb[w].prio = q
                   PROVE  Ahead(k2, own, V, w, y) /\ k2.tcb[w].prio = q
        BY <2>2
      <4>1. w # t
        BY <2>6
      <4> QED
        BY <1>1, <1>2, <1>4, <4>1, Kinds
    <3> QED
      BY <2>2, <3>1, <3>2 DEF Due, Least, b
  <2> QED
    BY <2>5, <2>6 DEF q
<1> QED
  BY <1>3, <1>4 DEF Exact

(* While the loop runs, only the task it has come to may have a priority   *)
(* that is not due, and the priority it carries is due to this task.       *)
Chain(own, V, s) ==
    /\ Lists(s.k, own, NULL) /\ Exact(s.k, own, V, s.task)
    /\ s.task # NULL =>
        /\ Due(s.k, own, V, s.task, s.pri)
        /\ own = Owner(s.k) \/ s.k.tcb[s.task].state = "RDY"
        /\ \A v \in Task, m \in Mutex : <<v, m>> \in V =>
               s.pri = s.k.tcb[v].prio /\ s.pri < s.k.tcb[s.task].prio

LEMMA ExactSame ==
    ASSUME NEW k, NEW own, NEW V, NEW t \in Task, Exact(k, own, V, t),
           Due(k, own, V, t, k.tcb[t].prio)
    PROVE  Exact(k, own, V, NULL)
BY Kinds DEF Exact

LEMMA ExactLess ==
    ASSUME NEW k, NEW own, NEW V, Exact(k, own, V, NULL), NEW x
    PROVE  Exact(k, own, V, x)
BY Kinds DEF Exact

LEMMA ChainStep ==
    ASSUME INHERIT, NEW s, Walk(s), NEW own \in OwnType, NEW V \in SUBSET (Task \X Mutex),
           Chain(own, V, s), NEW s2, s2 = PriStep(s)
    PROVE  Chain(own, V, s2)
<1>1. s \in PriLoop /\ Waited(s.k) /\ Walk(s2)
  BY WalkStep DEF Walk
<1>2. CASE s.task = NULL
  BY <1>2, WalkStep
<1>3. CASE s.task # NULL
  <2> DEFINE k == s.k  t == s.task  p == s.pri  q == k.tcb[t].prio
  <2>1. /\ t \in Task /\ p \in Prio /\ Good(k)
        /\ IF q = p THEN s2.k = k /\ s2.task = NULL
           ELSE \E x : /\ Reset(k, x, t, p)
                       /\ \/ /\ s2.k = x /\ s2.task = NULL
                             /\ \A m \in Mutex \cap k.live : ~Waits(k, t, m)
                          \/ \E m \in Mutex \cap k.live :
                                 /\ Waits(k, t, m) /\ s2 = NextInChain(x, m, p, q)
    BY <1>3, PriStepIs
  <2>2. /\ Lists(k, own, NULL) /\ Exact(k, own, V, t) /\ Due(k, own, V, t, p)
        /\ own = Owner(k) \/ k.tcb[t].state = "RDY"
        /\ \A v \in Task, m \in Mutex : <<v, m>> \in V => p = k.tcb[v].prio /\ p < q
    BY <1>3 DEF Chain
  <2>3. CASE q = p
    <3>1. s2.k = k /\ s2.task = NULL
      BY <2>1, <2>3
    <3>2. Exact(k, own, V, NULL)
      BY <2>1, <2>2, <2>3, ExactSame
    <3> QED
      BY <2>2, <3>1, <3>2 DEF Chain
  <2>4. CASE q # p
    <3>1. PICK x : /\ Reset(k, x, t, p)
                   /\ \/ /\ s2.k = x /\ s2.task = NULL
                         /\ \A m \in Mutex \cap k.live : ~Waits(k, t, m)
                      \/ \E m \in Mutex \cap k.live :
                             /\ Waits(k, t, m) /\ s2 = NextInChain(x, m, p, q)
      BY <2>1, <2>4
    <3>2. k \in KState /\ t \in AllTask /\ q \in Int /\ p \in Int /\ Waited(k)
      BY <1>1, <2>1, GoodState, PriosIn, Kinds
    <3> HIDE DEF k, t, p, q
    <3>3. /\ x \in KState /\ Good(x) /\ x.tcb[t].prio = p
          /\ \A u \in AllTask \ {t} : x.tcb[u] = k.tcb[u]
          /\ \A u \in AllTask : /\ x.tcb[u].state = k.tcb[u].state
                                /\ x.tcb[u].mutex_list = k.tcb[u].mutex_list
          /\ x.mtx = k.mtx /\ x.live = k.live
      BY <2>1, <3>1, ResetHas DEF Reset
    <3>4. Lists(x, own, NULL)
      BY <2>2, <3>3, ListsSame, Kinds
    <3>5. \A m \in Mutex : <<t, m>> \notin V
      <4> SUFFICES ASSUME NEW m \in Mutex, <<t, m>> \in V PROVE FALSE
        OBVIOUS
      <4>1. p = k.tcb[t].prio /\ p < q
        BY <2>1, <2>2
      <4> QED
        BY <3>2, <4>1 DEF q
    <3>6. \A z : Ahead(k, own, V, t, z) => \E m \in Mutex : own[m] = z /\ Waits(k, t, m)
      BY <3>5 DEF Ahead
    <3>7. k.tcb[t].state = "RDY" => \A m : ~Waits(k, t, m)
      BY States DEF Waits
    <3>8. CASE s2.k = x /\ s2.task = NULL /\ \A m \in Mutex \cap k.live : ~Waits(k, t, m)
      <4>1. \A z \in Task : ~Ahead(k, own, V, t, z)
        BY <2>2, <3>2, <3>6, <3>7, <3>8, OwnerType, Kinds
      <4>2. Exact(x, own, V, NULL)
        <5>1. NULL # t /\ \A z \in Task : Ahead(k, own, V, t, z) => z = NULL
          BY <2>1, <4>1, Kinds
        <5> QED
          BY <2>1, <2>2, <3>1, <5>1, ExactReset
      <4> QED
        BY <3>4, <3>8, <4>2 DEF Chain
    <3>9. CASE \E m \in Mutex \cap k.live : Waits(k, t, m) /\ s2 = NextInChain(x, m, p, q)
      <4>1. PICK m \in Mutex \cap k.live : Waits(k, t, m) /\ s2 = NextInChain(x, m, p, q)
        BY <3>9
      <4> DEFINE y == k.mtx[m].task
                 look == MutexPriLook(x, y)
                 z == x.tcb[y].prio
      <4>2. y \in Task \ {t} /\ k.tcb[y].state # "DELETED"
        BY <2>1, <3>2, <4>1 DEF Waited
      <4>3. own = Owner(k) /\ own[m] = y
        BY <2>2, <3>2, <3>7, <4>1, OwnerType
      <4>4. Ahead(k, own, V, t, y) /\ \A u \in Task : Ahead(k, own, V, t, u) => u = y
        <5>1. \A m2 : Waits(k, t, m2) => m2 = m
          BY <4>1 DEF Waits
        <5> QED
          BY <3>6, <4>1, <4>3, <5>1 DEF Ahead
      <4>5. /\ s2.k = x
            /\ \/ z > p /\ s2.task = y /\ s2.pri = p
               \/ z <= p /\ z = q /\ s2.task = y /\ s2.pri = look /\ s2.pri # q
               \/ z <= p /\ s2.task = NULL /\ (z # q \/ look = q)
        BY <2>1, <3>3, <4>1, <4>2, NextInChainIs
      <4> HIDE DEF y, look
      <4>6. /\ Exact(x, own, V, y)
            /\ z > p => Due(x, own, V, y, p)
            /\ z <= p /\ z # q => Due(x, own, V, y, z)
        BY <2>1, <2>2, <3>1, <4>2, <4>4, ExactReset DEF q
      <4>7. z \in Int
        BY <3>3, <4>2, PriosIn, Kinds
      <4> HIDE DEF z
      <4>8. ASSUME z <= p, z = q PROVE V = {} /\ Due(x, own, V, y, look)
        <5>1. V = {}
          <6> SUFFICES ASSUME NEW e \in V PROVE FALSE
            OBVIOUS
          <6>1. PICK v \in Task, n \in Mutex : e = <<v, n>>
            OBVIOUS
          <6>2. p < q
            BY <2>2, <6>1
          <6> QED
            BY <3>2, <4>7, <4>8, <6>2
        <5>2. Linked(x, x.tcb[y].mutex_list, Mine(own, y))
          BY <3>3, <3>4, <4>2, Kinds DEF Lists
        <5>3. Due(x, own, {}, y, look)
          BY <3>3, <4>2, <5>2, LookIsDue DEF look
        <5> QED
          BY <5>1, <5>3
      <4>9. own = Owner(x)
        BY <3>3, <4>3, OwnerSame
      <4>10. CASE z > p /\ s2.task = y /\ s2.pri = p
        <5>1. \A v \in Task, n \in Mutex : <<v, n>> \in V => p = x.tcb[v].prio /\ p < z
          <6> SUFFICES ASSUME NEW v \in Task, NEW n \in Mutex, <<v, n>> \in V
                       PROVE  p = x.tcb[v].prio /\ p < z
            OBVIOUS
          <6>1. p = k.tcb[v].prio /\ v # t
            BY <2>2, <3>5
          <6>2. x.tcb[v] = k.tcb[v]
            BY <3>3, <6>1, Kinds
          <6> QED
            BY <3>2, <4>7, <4>10, <6>1, <6>2
        <5> QED
          BY <3>4, <4>5, <4>6, <4>9, <4>10, <5>1 DEF Chain, z
      <4>11. CASE z <= p /\ z = q /\ s2.task = y /\ s2.pri = look
        BY <3>4, <4>5, <4>6, <4>8, <4>9, <4>11 DEF Chain
      <4>12. CASE z <= p /\ s2.task = NULL /\ (z # q \/ look = q)
        <5>1. Due(x, own, V, y, z)
          BY <4>6, <4>8, <4>12
        <5>2. Exact(x, own, V, NULL)
          BY <4>2, <4>6, <5>1, ExactSame DEF z
        <5> QED
          BY <3>4, <4>5, <4>12, <5>2 DEF Chain
      <4> QED
        BY <4>5, <4>10, <4>11, <4>12
    <3> QED
      BY <3>1, <3>8, <3>9
  <2> QED
    BY <2>3, <2>4
<1> QED
  BY <1>2, <1>3

(* task_pri_change ends before its rounds are used up, without an error,   *)
(* and then every priority is due.                                         *)
LEMMA TaskPriChangeIs ==
    ASSUME NEW k, Good(k), Waited(k), NEW t \in Task, k.tcb[t].state # "DELETED", NEW p \in Prio,
           NEW k2, k2 = TaskPriChange(k, t, p),
           NEW own \in OwnType, NEW V \in SUBSET (Task \X Mutex)
    PROVE  /\ k2.kerr = k.kerr
           /\ INHERIT /\ Chain(own, V, [k |-> k, task |-> t, pri |-> p]) => Exact(k2, own, V, NULL)
<1> DEFINE n == PriFuel
           x == [k |-> k, task |-> t, pri |-> p]
           r == PriRounds(k, t, p)
           C(s) == INHERIT /\ Chain(own, V, x) => Chain(own, V, s)
<1>1. n \in Nat /\ r[0] = x /\ \A i \in 1..n : r[i] = PriStep(r[i-1])
  BY PriRoundsOf
<1>2. x \in PriLoop /\ x.k = k /\ x.task = t /\ x.pri = p
  BY PriLoopIs
<1>3. Walk(x)
  BY <1>2 DEF Walk
<1>4. k2 = IF r[n].task = NULL THEN r[n].k ELSE [r[n].k EXCEPT !.kerr = "ENDLESS"]
  BY DEF TaskPriChange
<1>5. C(x)
  OBVIOUS
<1>6. ASSUME NEW s, Walk(s), C(s) PROVE C(PriStep(s))
  BY <1>6, ChainStep
<1> HIDE DEF n, x, r, C
<1> DEFINE S == {i \in 0..n : /\ Walk(r[i]) /\ r[i].k.kerr = k.kerr /\ C(r[i])
                              /\ Rank(r[i]) <= n - i}
<1>7. 0 \in S
  <2>1. Rank(x) \in Nat /\ Rank(x) <= n /\ 0 \in 0..n /\ n - 0 = n
    BY <1>1, <1>3, RankBounds DEF n
  <2> QED
    BY <1>1, <1>2, <1>3, <1>5, <2>1
<1>8. ASSUME NEW i \in 1..n, i - 1 \in S PROVE i \in S
  <2> DEFINE a == r[i-1]  b == r[i]
  <2>1. i \in 0..n /\ i \in Int /\ n \in Int
    BY <1>1
  <2>2. Walk(a) /\ a.k.kerr = k.kerr /\ C(a) /\ Rank(a) <= n - (i - 1)
    BY <1>8
  <2>3. b = PriStep(a)
    BY <1>1
  <2> HIDE DEF a, b
  <2>4. /\ Walk(b) /\ b.k.kerr = a.k.kerr
        /\ a.task # NULL => Rank(b) < Rank(a)
        /\ a.task = NULL => b = a
    BY <2>2, <2>3, WalkStep
  <2>5. C(b)
    BY <1>6, <2>2, <2>3
  <2>6. /\ Rank(a) \in Nat /\ Rank(b) \in Nat
        /\ Rank(a) = 0 <=> a.task = NULL
    BY <2>2, <2>4, RankBounds
  <2>7. Rank(b) <= n - i
    <3>1. CASE a.task = NULL
      <4>1. Rank(b) = 0 /\ i <= n
        BY <2>4, <2>6, <3>1
      <4> QED
        BY <2>1, <4>1
    <3>2. CASE a.task # NULL
      <4>1. Rank(b) < Rank(a)
        BY <2>4, <3>2
      <4> QED
        BY <2>1, <2>2, <2>6, <4>1
    <3> QED
      BY <3>1, <3>2
  <2> QED
    BY <2>1, <2>2, <2>4, <2>5, <2>7 DEF b
<1> HIDE DEF S
<1>9. n \in S
  <2>1. \A i \in 1..n : i - 1 \in S => i \in S
    BY <1>8
  <2>2. n \in 0..n
    BY <1>1
  <2> QED
    BY <1>1, <1>7, <2>1, <2>2, UpTo
<1>10. Walk(r[n]) /\ r[n].k.kerr = k.kerr /\ C(r[n]) /\ Rank(r[n]) <= n - n
  BY <1>9 DEF S
<1>11. r[n].task = NULL
  <2>1. Rank(r[n]) \in Nat /\ n - n = 0
    BY <1>1, <1>10, RankBounds
  <2> QED
    BY <1>10, <2>1, RankBounds
<1>12. k2 = r[n].k
  BY <1>4, <1>11
<1> QED
  BY <1>10, <1>11, <1>12 DEF C, Chain, x

(* Of a deleted task nothing is changed; the round finds an error, unless  *)
(* the priority was the right one already.                                 *)
LEMMA TaskPriChangeDead ==
    ASSUME NEW k, Good(k), NEW t \in Task, k.tcb[t].state = "DELETED", NEW p \in Prio,
           NEW k2, k2 = TaskPriChange(k, t, p)
    PROVE  k2 = k \/ k2 = [k EXCEPT !.kerr = "INV_TASK_STATE"]
<1> DEFINE n == PriFuel
           x == [k |-> k, task |-> t, pri |-> p]
           e == PriStep(x)
           r == PriRounds(k, t, p)
<1>1. n \in Nat /\ r[0] = x /\ \A i \in 1..n : r[i] = PriStep(r[i-1])
  BY PriRoundsOf
<1>2. x.k = k /\ x.task = t /\ x.pri = p /\ t # NULL
  BY Kinds
<1>3. e.task = NULL /\ (e.k = k \/ e.k = [k EXCEPT !.kerr = "INV_TASK_STATE"])
  <2>1. CASE k.tcb[t].prio = p
    <3>1. e = [x EXCEPT !.task = NULL]
      BY <1>2, <2>1 DEF PriStep
    <3> QED
      BY <3>1
  <2>2. CASE k.tcb[t].prio # p
    <3>1. "DELETED" \notin Pending /\ "DELETED" \notin Sleeping \cup {"SUSPENDED"}
      BY States
    <3>2. e = [[x EXCEPT !.task = NULL] EXCEPT !.k.kerr = "INV_TASK_STATE"]
      BY <1>2, <2>2, <3>1 DEF PriStep
    <3> QED
      BY <3>2
  <2> QED
    BY <2>1, <2>2
<1>4. k2 = IF r[n].task = NULL THEN r[n].k ELSE [r[n].k EXCEPT !.kerr = "ENDLESS"]
  BY DEF TaskPriChange
<1>5. n # 0
  <2> DEFINE c == Cardinality(Task)
  <2>1. c \in Nat /\ IdlePri \in Nat
    BY RhinoAssumption, FS_CardinalityType
  <2>2. n = (c + 1) * (IdlePri + 1)
    BY DEF PriFuel
  <2> HIDE DEF c, n
  <2> QED
    BY <2>1, <2>2
<1>6. PriStep(e) = e
  BY <1>3 DEF PriStep
<1>7. e = PriStep(x)
  OBVIOUS
<1> HIDE DEF n, x, e, r
<1> DEFINE S == {i \in 0..n : i # 0 => r[i] = e}
<1>8. 0 \in S
  BY <1>1
<1>9. \A i \in 1..n : i - 1 \in S => i \in S
  <2> SUFFICES ASSUME NEW i \in 1..n, i - 1 \in S PROVE r[i] = e
    BY <1>1
  <2>1. r[i] = PriStep(r[i-1])
    BY <1>1
  <2>2. CASE i = 1
    BY <1>1, <1>7, <2>1, <2>2
  <2>3. CASE i # 1
    <3>1. i - 1 # 0
      BY <2>3
    <3>2. r[i-1] = e
      BY <3>1
    <3> QED
      BY <1>6, <2>1, <3>2
  <2> QED
    BY <2>2, <2>3
<1>10. n \in S
  <2>1. n \in 0..n
    BY <1>1
  <2> HIDE DEF S
  <2> QED
    BY <1>1, <1>8, <1>9, <2>1, UpTo
<1>11. r[n] = e
  BY <1>5, <1>10
<1> QED
  BY <1>3, <1>4, <1>11

-----------------------------------------------------------------------------
(***************************************************************************)
(* What the helpers do to the priorities.                                  *)
(***************************************************************************)
Even(k, own, h) == k.kerr = "NONE" /\ (INHERIT => Exact(k, own, {}, h))

LEMMA DueUnique ==
    ASSUME NEW k \in KState, NEW own, NEW V, NEW t \in Task, NEW p \in Prio, NEW q \in Prio,
           Due(k, own, V, t, p), Due(k, own, V, t, q)
    PROVE  p = q
<1> DEFINE b == k.tcb[t].b_prio
<1>1. /\ p <= b
      /\ \A w \in Task : Ahead(k, own, V, w, t) => p <= k.tcb[w].prio
      /\ p = b \/ \E w \in Task : Ahead(k, own, V, w, t) /\ k.tcb[w].prio = p
  BY DEF Due, Least
<1>2. /\ q <= b
      /\ \A w \in Task : Ahead(k, own, V, w, t) => q <= k.tcb[w].prio
      /\ q = b \/ \E w \in Task : Ahead(k, own, V, w, t) /\ k.tcb[w].prio = q
  BY DEF Due, Least
<1>3. p \in Int /\ q \in Int
  BY Kinds
<1> HIDE DEF b
<1>4. p <= q
  BY <1>1, <1>2
<1>5. q <= p
  BY <1>1, <1>2
<1> QED
  BY <1>3, <1>4, <1>5

(* Only y may have to heed that m changes hands. *)
LEMMA ExactMoved ==
    ASSUME NEW k, NEW k2, NEW own, NEW own2, NEW m \in Mutex, NEW y, NEW x \in {NULL, y},
           Exact(k, own, {}, x), SamePrios(k, k2),
           \A n \in Mutex \ {m} : own2[n] = own[n],
           \A u \in Task, n \in Mutex \ {m} :
               own[n] # NULL => (Waits(k2, u, n) <=> Waits(k, u, n)),
           \A u \in Task : Waits(k, u, m) => own[m] \in {NULL, y},
           \A u \in Task : Waits(k2, u, m) => own2[m] \in {NULL, y}
    PROVE  Exact(k2, own2, {}, y)
<1> SUFFICES ASSUME NEW t \in Task \ {y}, k2.tcb[t].state # "DELETED"
             PROVE  Due(k2, own2, {}, t, k2.tcb[t].prio)
  BY DEF Exact
<1>1. Due(k, own, {}, t, k.tcb[t].prio)
  BY Kinds DEF Exact, SamePrios
<1>2. ASSUME NEW w \in Task PROVE Ahead(k2, own2, {}, w, t) <=> Ahead(k, own, {}, w, t)
  BY Kinds DEF Ahead
<1>3. SameBehind(k, k2, own, own2, {}, {}, t)
  BY <1>2 DEF SameBehind, SamePrios
<1>4. k2.tcb[t].prio = k.tcb[t].prio /\ k2.tcb[t].b_prio = k.tcb[t].b_prio
  BY DEF SamePrios
<1> QED
  BY <1>1, <1>3, <1>4, DueSame

LEMMA WaitedLess ==
    ASSUME NEW k, Waited(k), NEW k2, Mutex \cap k2.live \subseteq k.live,
           \A m \in Mutex : k2.mtx[m].task = k.mtx[m].task,
           \A u \in Task, m \in Mutex : Waits(k2, u, m) => Waits(k, u, m),
           \A u \in Task : k2.tcb[u].state = "DELETED" => k.tcb[u].state = "DELETED"
    PROVE  Waited(k2)
BY DEF Waited

LEMMA ReprioKeeps ==
    ASSUME NEW k \in KState, NEW k2, Reprio(k, k2)
    PROVE  /\ Waited(k) => Waited(k2)
           /\ \A own, h : Lists(k, own, h) => Lists(k2, own, h)
           /\ \A u \in Task : \A m : Waits(k2, u, m) <=> Waits(k, u, m)
           /\ k2.mtx = k.mtx /\ k2.live = k.live /\ Owner(k2) = Owner(k)
<1>1. k2.mtx = k.mtx /\ k2.live = k.live
  BY DEF Reprio
<1>2. \A u \in AllTask : /\ k2.tcb[u].state = k.tcb[u].state
                         /\ k2.tcb[u].blk_obj = k.tcb[u].blk_obj
                         /\ k2.tcb[u].mutex_list = k.tcb[u].mutex_list
  BY PriosIn, TcbPrioFields DEF Reprio
<1>3. \A u \in Task : \A m : Waits(k2, u, m) <=> Waits(k, u, m)
  BY <1>2, Kinds DEF Waits
<1>4. ASSUME NEW own, NEW h, Lists(k, own, h) PROVE Lists(k2, own, h)
  BY <1>1, <1>2, <1>4, Kinds, ListsSame
<1>5. Waited(k) => Waited(k2)
  BY <1>1, <1>2, <1>3, Kinds, WaitedLess
<1>6. Owner(k2) = Owner(k)
  BY <1>1, OwnerSame
<1> QED
  BY <1>1, <1>3, <1>4, <1>5, <1>6

(* mutex_release, once the mutex is off the list: t's priority is set anew. *)
LEMMA LookAnew ==
    ASSUME NEW k, Good(k), Waited(k), k.kerr = "NONE", NEW t \in Task, k.tcb[t].state # "DELETED",
           NEW own \in OwnType,
           INHERIT => /\ Lists(k, own, NULL) /\ Exact(k, own, {}, t)
                      /\ own = Owner(k) \/ k.tcb[t].state = "RDY",
           NEW k2, k2 = MutexRelease(k, t, NULL)
    PROVE  /\ Good(k2) /\ Reprio(k, k2) /\ Even(k2, own, NULL)
           /\ INHERIT /\ Exact(k, own, {}, NULL) => k2 = k
<1> DEFINE p == MutexPriLook(k, t)
           s == [k |-> k, task |-> t, pri |-> p]
<1>1. k \in KState /\ p \in Prio
  BY GoodState, PrioBounds
<1>2. k2 = IF p # k.tcb[t].prio THEN TaskPriChange(k, t, p) ELSE k
  BY DEF MutexRelease
<1>3. s.k = k /\ s.task = t /\ s.pri = p
  BY PriLoopIs
<1>4. ASSUME INHERIT PROVE Lists(k, own, NULL) /\ Exact(k, own, {}, t) /\ Due(k, own, {}, t, p)
  <2>1. Linked(k, k.tcb[t].mutex_list, Mine(own, t))
    BY <1>4, Kinds DEF Lists
  <2> QED
    BY <1>4, <2>1, LookIsDue
<1>5. t # NULL
  BY Kinds
<1> HIDE DEF p, s
<1>6. INHERIT => Chain(own, {}, s)
  BY <1>3, <1>4 DEF Chain
<1>7. CASE p # k.tcb[t].prio
  <2>1. k2 = TaskPriChange(k, t, p)
    BY <1>2, <1>7
  <2>2. Good(k2) /\ Reprio(k, k2)
    BY <1>1, <2>1, TaskPriChangeOf
  <2>3. /\ k2.kerr = k.kerr
        /\ INHERIT /\ Chain(own, {}, [k |-> k, task |-> t, pri |-> p]) => Exact(k2, own, {}, NULL)
    BY <1>1, <2>1, TaskPriChangeIs
  <2>4. Even(k2, own, NULL)
    BY <1>6, <2>3 DEF Even, s
  <2>5. ~(INHERIT /\ Exact(k, own, {}, NULL))
    <3> SUFFICES ASSUME INHERIT, Exact(k, own, {}, NULL) PROVE FALSE
      OBVIOUS
    <3>1. Due(k, own, {}, t, k.tcb[t].prio)
      BY <1>5 DEF Exact
    <3>2. k.tcb[t].prio \in Prio
      BY <1>1, PriosIn, Kinds
    <3> QED
      BY <1>1, <1>4, <1>7, <3>1, <3>2, DueUnique
  <2> QED
    BY <2>2, <2>4, <2>5
<1>8. CASE p = k.tcb[t].prio
  <2>1. k2 = k
    BY <1>2, <1>8
  <2>2. INHERIT => Exact(k, own, {}, NULL)
    BY <1>4, <1>8, ExactSame
  <2> QED
    BY <1>1, <2>1, <2>2, ReprioSame DEF Even
<1> QED
  BY <1>7, <1>8

(* The owner t gives up m and its priority is set anew. *)
LEMMA ReleaseEven ==
    ASSUME NEW k, Good(k), Waited(k), NEW own \in OwnType, Even(k, own, NULL),
           NEW t \in Task, k.tcb[t].state # "DELETED", NEW m \in Mutex,
           INHERIT => /\ Lists(k, own, NULL) /\ own[m] = t
                      /\ Reowned(own, m, NULL) = Owner(k) \/ k.tcb[t].state = "RDY",
           NEW k2, k2 = MutexRelease(k, t, m)
    PROVE  /\ Good(k2) /\ Reprio(Given(k, t, m), k2) /\ Even(k2, Reowned(own, m, NULL), NULL)
           /\ Waited(k2) /\ Given(k, t, m).ready = k.ready
           /\ INHERIT /\ (\A u \in Task : ~Waits(k, u, m)) => k2 = Given(k, t, m)
<1> DEFINE g == Given(k, t, m)
           own2 == Reowned(own, m, NULL)
<1>1. k2 = MutexRelease(g, t, NULL)
  BY Kinds DEF MutexRelease, Given
<1>2. Good(g) /\ Alike(k, g) /\ g.kerr = k.kerr
  <2>1. CASE g = k
    <3>1. Alike(k, k)
      BY GoodState DEF Alike
    <3> QED
      BY <2>1, <3>1
  <2>2. CASE g # k
    <3>1. g = UnlinkMutex(k, t, m)
      BY <2>2 DEF Given
    <3>2. g.kerr = k.kerr
      BY <3>1 DEF UnlinkMutex
    <3> HIDE DEF g
    <3> QED
      BY <3>1, <3>2, UnlinkMutexOf
  <2> QED
    BY <2>1, <2>2
<1>3. Relinked(k, g) /\ (INHERIT => Lists(g, own2, NULL))
  <2>1. CASE INHERIT
    BY <2>1, GivenLists DEF Reowned
  <2>2. CASE ~INHERIT
    BY <2>2 DEF Given, Relinked
  <2> QED
    BY <2>1, <2>2
<1>4. own2 \in OwnType /\ \A x \in Mutex \ {m} : own2[x] = own[x]
  BY DEF Reowned, OwnType
<1>5. INHERIT => own2[m] = NULL
  BY DEF Reowned, OwnType
<1>6. own2 = Reowned(own, m, NULL)
  OBVIOUS
<1> HIDE DEF g, own2
<1>7. SamePrios(k, g) /\ \A u \in Task, x \in Mutex : Waits(g, u, x) <=> Waits(k, u, x)
  BY <1>2, Kinds DEF Alike, SamePrios, Waits
<1>8. g.tcb[t].state = k.tcb[t].state /\ g.live = k.live
  BY <1>3 DEF Relinked
<1>9. Waited(g) /\ Owner(g) = Owner(k)
  BY <1>3, <1>7, WaitedLess, OwnerSame DEF Relinked
<1>10. ASSUME INHERIT PROVE Exact(g, own2, {}, t)
  BY <1>4, <1>5, <1>7, <1>10, ExactMoved DEF Even
<1>11. ASSUME INHERIT, \A u \in Task : ~Waits(k, u, m) PROVE Exact(g, own2, {}, NULL)
  BY <1>4, <1>5, <1>7, <1>11, ExactMoved DEF Even
<1>12. g.kerr = "NONE"
  BY <1>2 DEF Even
<1>13. INHERIT => /\ Lists(g, own2, NULL) /\ Exact(g, own2, {}, t)
                  /\ own2 = Owner(g) \/ g.tcb[t].state = "RDY"
  BY <1>3, <1>6, <1>8, <1>9, <1>10
<1>14. /\ Good(k2) /\ Reprio(g, k2) /\ Even(k2, own2, NULL)
       /\ INHERIT /\ Exact(g, own2, {}, NULL) => k2 = g
  BY <1>1, <1>2, <1>4, <1>8, <1>9, <1>12, <1>13, LookAnew
<1>15. Waited(k2)
  BY <1>2, <1>9, <1>14, GoodState, ReprioKeeps
<1>16. g.ready = k.ready
  BY <1>2 DEF Alike
<1> QED
  BY <1>6, <1>11, <1>14, <1>15, <1>16 DEF g

-----------------------------------------------------------------------------
(* A task leaves the list it is on, and is deleted or not: everybody else *)
(* waits for what he waited for.                                           *)
LEMMA OffHas ==
    ASSUME NEW k, Good(k), NEW t \in Task, k.tcb[t].state # "DELETED", NEW x, Off(k, x, t)
    PROVE  /\ Good(x) /\ SamePrios(k, x) /\ x.live = k.live /\ x.mtx = k.mtx
           /\ x.kerr = k.kerr /\ Owner(x) = Owner(k)
           /\ \A u \in Task \ {t} : \A m : Waits(x, u, m) <=> Waits(k, u, m)
           /\ \A m : ~Waits(x, t, m)
           /\ \A u \in Task \ {t} : x.tcb[u] = k.tcb[u]
<1>1. \A u \in Task \ {t} : x.tcb[u] = k.tcb[u]
  BY Kinds DEF Off, Near
<1>2. x.live = k.live /\ x.mtx = k.mtx /\ x.kerr = k.kerr
  BY DEF Off, Near
<1>3. x.tcb[t].prio = k.tcb[t].prio /\ x.tcb[t].b_prio = k.tcb[t].b_prio
  BY DEF Off
<1>4. SamePrios(k, x)
  BY <1>1, <1>3 DEF SamePrios
<1>5. \A u \in Task \ {t} : \A m : Waits(x, u, m) <=> Waits(k, u, m)
  BY <1>1 DEF Waits
<1>6. \A m : ~Waits(x, t, m)
  BY DEF Waits, Off
<1>7. Owner(x) = Owner(k)
  BY <1>2, OwnerSame
<1> QED
  BY <1>1, <1>2, <1>4, <1>5, <1>6, <1>7 DEF Off

(* A deleted task is not an owner. *)
Free(k, x, t) ==
    x.tcb[t].state = "DELETED" => \A m \in Mutex \cap k.live : k.mtx[m].task # t

LEMMA OffWaited ==
    ASSUME NEW k, Good(k), Waited(k), NEW t \in Task, k.tcb[t].state # "DELETED",
           NEW x, Off(k, x, t), Free(k, x, t)
    PROVE  Waited(x)
<1>1. /\ x.live = k.live /\ x.mtx = k.mtx
      /\ \A u \in Task \ {t} : \A m : Waits(x, u, m) <=> Waits(k, u, m)
      /\ \A m : ~Waits(x, t, m)
      /\ \A u \in Task \ {t} : x.tcb[u] = k.tcb[u]
  BY OffHas
<1> QED
  BY <1>1 DEF Waited, Free

LEMMA OffLinked ==
    ASSUME NEW k, Good(k), NEW t \in Task, k.tcb[t].state # "DELETED", NEW x, Off(k, x, t),
           NEW h \in {NULL, t}, h = t => x.tcb[t].state = "DELETED", Lists(k, Owner(k), h)
    PROVE  Lists(x, Owner(k), NULL)
<1>1. x.mtx = k.mtx /\ \A u \in Task \ {t} : x.tcb[u] = k.tcb[u]
  BY OffHas
<1>2. x.tcb[t].mutex_list = k.tcb[t].mutex_list
  BY DEF Off
<1>3. Lists(x, Owner(k), h)
  BY <1>1, <1>2, ListsSame
<1> QED
  BY <1>3, Kinds DEF Lists

(* mutex_task_pri_reset: the owner of what t waited for. *)
LEMMA ToldEven ==
    ASSUME NEW k, Good(k), Waited(k), NEW t \in Task, k.tcb[t].state \in Pending,
           NEW x, Off(k, x, t), Free(k, x, t),
           NEW h \in {NULL, t}, h = t => x.tcb[t].state = "DELETED",
           Even(k, Owner(k), h), INHERIT => Lists(k, Owner(k), h),
           NEW z, z = MutexTaskPriReset(x, t)
    PROVE  Good(z) /\ Reprio(x, z) /\ Even(z, Owner(k), NULL)
<1> DEFINE o == k.tcb[t].blk_obj
           y == k.mtx[o].task
           own == Owner(k)
<1>0. k.tcb[t].state # "DELETED"
  BY States
<1>1. /\ Good(x) /\ SamePrios(k, x) /\ x.live = k.live /\ x.mtx = k.mtx
      /\ x.kerr = k.kerr /\ Owner(x) = own
      /\ \A u \in Task \ {t} : \A m : Waits(x, u, m) <=> Waits(k, u, m)
      /\ \A m : ~Waits(x, t, m)
  BY <1>0, OffHas
<1>2. k \in KState /\ own \in OwnType /\ x.tcb[t].blk_obj = o
  BY GoodState, OwnerType DEF Off
<1>3. Waited(x)
  BY <1>0, OffWaited
<1>4. \A m : Waits(k, t, m) <=> m = o
  BY DEF Waits
<1>5. SameWaits(k, x, own, t)
  BY <1>1 DEF SameWaits
<1>6. k.kerr = "NONE" /\ (INHERIT => Exact(k, own, {}, h))
  BY DEF Even
<1>7. INHERIT => Lists(x, own, NULL)
  BY <1>0, OffLinked
<1>8. /\ o \in Mutex \cap k.live => y \in Task \ {t} /\ k.tcb[y].state # "DELETED"
      /\ o \in Mutex \cap k.live => x.tcb[y] = k.tcb[y]
  <2>1. o \in Mutex \cap k.live => y \in Task \ {t} /\ k.tcb[y].state # "DELETED"
    BY <1>4 DEF Waited
  <2>2. \A u \in Task \ {t} : x.tcb[u] = k.tcb[u]
    BY <1>0, OffHas
  <2> HIDE DEF y
  <2> QED
    BY <2>1, <2>2
<1>9. \A m \in Mutex : own[m] # NULL => INHERIT /\ m \in k.live /\ own[m] = k.mtx[m].task
  BY <1>2, OwnerType
<1>10. z = IF INHERIT /\ o \in Mutex \cap k.live /\ x.tcb[y].prio = x.tcb[t].prio
           THEN MutexRelease(x, y, NULL) ELSE x
  BY <1>1, <1>2 DEF MutexTaskPriReset
<1>11. x.tcb[t].prio = k.tcb[t].prio
  BY DEF Off
<1>12. \A m \in Mutex : own[m] # NULL => ~Waits(x, t, m)
  BY <1>1
<1> HIDE DEF own
<1>13. CASE ~INHERIT
  <2>1. z = x
    BY <1>10, <1>13
  <2> QED
    BY <1>1, <1>6, <1>13, <2>1, GoodState, ReprioSame DEF Even, own
<1>14. CASE INHERIT /\ o \notin Mutex \cap k.live
  <2>1. z = x
    BY <1>10, <1>14
  <2>2. \A m \in Mutex : own[m] # NULL /\ Waits(k, t, m) => own[m] = NULL
    BY <1>4, <1>9, <1>14
  <2>3. Exact(x, own, {}, NULL)
    BY <1>1, <1>2, <1>5, <1>6, <1>12, <1>14, <2>2, ExactLeft
  <2> QED
    BY <1>1, <1>6, <2>1, <2>3, GoodState, ReprioSame DEF Even, own
<1>15. CASE INHERIT /\ o \in Mutex \cap k.live
  <2>1. \A m \in Mutex : own[m] # NULL /\ Waits(k, t, m) => own[m] = y
    BY <1>4, <1>9, <1>15
  <2>2. y \in Task \ {t} /\ k.tcb[y].state # "DELETED" /\ x.tcb[y] = k.tcb[y]
    BY <1>8, <1>15
  <2> HIDE DEF y
  <2>3. /\ Exact(x, own, {}, y)
        /\ y \in Task /\ k.tcb[y].prio # k.tcb[t].prio => Exact(x, own, {}, NULL)
    BY <1>1, <1>2, <1>5, <1>6, <1>12, <1>15, <2>1, ExactLeft
  <2>4. CASE x.tcb[y].prio = x.tcb[t].prio
    <3>1. z = MutexRelease(x, y, NULL)
      BY <1>10, <1>15, <2>4
    <3>2. y \in Task /\ x.tcb[y].state # "DELETED" /\ x.kerr = "NONE"
      BY <1>1, <1>6, <2>2
    <3>3. Lists(x, own, NULL) /\ Exact(x, own, {}, y) /\ own = Owner(x)
      BY <1>1, <1>7, <1>15, <2>3
    <3>4. Good(z) /\ Reprio(x, z) /\ Even(z, own, NULL)
      BY <1>1, <1>2, <1>3, <3>1, <3>2, <3>3, LookAnew
    <3> QED
      BY <3>4 DEF own
  <2>5. CASE x.tcb[y].prio # x.tcb[t].prio
    <3>1. z = x
      BY <1>10, <2>5
    <3>2. Exact(x, own, {}, NULL)
      BY <1>11, <2>2, <2>3, <2>5
    <3> QED
      BY <1>1, <1>6, <3>1, <3>2, GoodState, ReprioSame DEF Even, own
  <2> QED
    BY <2>4, <2>5
<1> QED
  BY <1>13, <1>14, <1>15

(* The same, and what t waited for is forgotten or not. *)
LEMMA DepartsEven ==
    ASSUME NEW k, Good(k), Waited(k), NEW t \in Task, k.tcb[t].state # "DELETED",
           NEW k2 \in KState, Departs(k, k2, t), Free(k, k2, t),
           NEW h \in {NULL, t}, h = t => k2.tcb[t].state = "DELETED",
           Even(k, Owner(k), h), INHERIT => Lists(k, Owner(k), h)
    PROVE  Even(k2, Owner(k2), NULL) /\ Waited(k2)
<1>1. PICK x : /\ Off(k, x, t)
               /\ IF k.tcb[t].state \in Pending
                  THEN \/ k2 = MutexTaskPriReset(x, t)
                       \/ k2 = PutBlkObj(MutexTaskPriReset(x, t), t, NULL)
                  ELSE k2 = x
  BY DEF Departs
<1>2. /\ Good(x) /\ SamePrios(k, x) /\ x.live = k.live /\ x.mtx = k.mtx
      /\ x.kerr = k.kerr /\ Owner(x) = Owner(k)
      /\ \A u \in Task \ {t} : \A m : Waits(x, u, m) <=> Waits(k, u, m)
      /\ \A m : ~Waits(x, t, m)
  BY <1>1, OffHas
<1>3. CASE k.tcb[t].state \notin Pending
  <2>1. k2 = x
    BY <1>1, <1>3
  <2>2. Waited(x)
    BY <1>1, <2>1, OffWaited
  <2>3. SameWaits(k, x, Owner(k), NULL)
    <3>1. \A m : ~Waits(k, t, m)
      BY <1>3 DEF Waits
    <3> QED
      BY <1>2, <3>1 DEF SameWaits
  <2>4. ASSUME INHERIT PROVE Exact(x, Owner(k), {}, NULL)
    <3>1. Exact(k, Owner(k), {}, h)
      BY <2>4 DEF Even
    <3>2. Exact(x, Owner(k), {}, h)
      BY <1>2, <2>3, <3>1, ExactSteady
    <3> QED
      BY <2>1, <3>2, Kinds DEF Exact
  <2> QED
    BY <1>2, <2>1, <2>2, <2>4 DEF Even
<1>4. CASE k.tcb[t].state \in Pending
  <2> DEFINE z == MutexTaskPriReset(x, t)
  <2>1. Good(z) /\ Tied(x, z, NULL)
    BY <1>2, MutexTaskPriResetOf
  <2>2. k2 = z \/ k2 = PutBlkObj(z, t, NULL)
    BY <1>1, <1>4
  <2> HIDE DEF z
  <2>3. z.tcb[t].state = "DELETED" <=> x.tcb[t].state = "DELETED"
    BY <2>1, Kinds DEF Tied, Softer
  <2>4. /\ \A u \in AllTask : /\ k2.tcb[u].state = z.tcb[u].state
                              /\ k2.tcb[u].prio = z.tcb[u].prio
                              /\ k2.tcb[u].b_prio = z.tcb[u].b_prio
        /\ \A u \in AllTask : u # t => k2.tcb[u].blk_obj = z.tcb[u].blk_obj
        /\ k2.mtx = z.mtx /\ k2.live = z.live /\ k2.kerr = z.kerr
    <3>1. CASE k2 = z
      BY <3>1
    <3>2. CASE k2 = PutBlkObj(z, t, NULL)
      <4>1. z.tcb[t] \in Tcb /\ z \in KState
        BY <2>1, GoodState, Fields, Kinds
      <4>2. k2.tcb = [z.tcb EXCEPT ![t] = TcbBlkObj(z.tcb[t], NULL)]
        BY <3>2 DEF PutBlkObj, TcbBlkObj
      <4>3. k2.tcb[t] = TcbBlkObj(z.tcb[t], NULL) /\ \A u \in AllTask \ {t} : k2.tcb[u] = z.tcb[u]
        BY <4>1, <4>2, Fields, Kinds
      <4>4. /\ k2.tcb[t].state = z.tcb[t].state /\ k2.tcb[t].prio = z.tcb[t].prio
            /\ k2.tcb[t].b_prio = z.tcb[t].b_prio
        BY <4>1, <4>3 DEF TcbBlkObj, Tcb
      <4>5. k2.mtx = z.mtx /\ k2.live = z.live /\ k2.kerr = z.kerr
        BY <3>2 DEF PutBlkObj
      <4> QED
        BY <4>3, <4>4, <4>5
    <3> QED
      BY <2>2, <3>1, <3>2
  <2>5. Free(k, x, t) /\ (h = t => x.tcb[t].state = "DELETED")
    BY <2>3, <2>4, Kinds DEF Free
  <2>6. Good(z) /\ Reprio(x, z) /\ Even(z, Owner(k), NULL)
    BY <1>1, <1>4, <2>5, ToldEven DEF z
  <2>7. Waited(x)
    BY <1>1, <2>5, OffWaited
  <2>8. /\ Waited(z) /\ z.mtx = x.mtx /\ z.live = x.live /\ Owner(z) = Owner(x)
        /\ \A u \in Task : \A m : Waits(z, u, m) <=> Waits(x, u, m)
    BY <1>2, <2>6, <2>7, GoodState, ReprioKeeps
  <2>9. \A u \in Task : \A m : Waits(k2, u, m) <=> Waits(z, u, m)
    <3>1. \A m : ~Waits(z, t, m)
      BY <1>2, <2>8
    <3>2. \A m : ~Waits(k2, t, m)
      <4>1. z.tcb[t].state \in Pending <=> x.tcb[t].state \in Pending
        BY <1>2, <2>6, GoodState, ReprioPlaced, Kinds DEF Placed
      <4>2. x.tcb[t].state \notin Pending
        BY <1>1 DEF Off
      <4> QED
        BY <2>4, <4>1, <4>2, Kinds DEF Waits
    <3>3. \A u \in Task \ {t} : \A m : Waits(k2, u, m) <=> Waits(z, u, m)
      BY <2>4, Kinds DEF Waits
    <3> QED
      BY <3>1, <3>2, <3>3
  <2>10. SamePrios(z, k2) /\ SameWaits(z, k2, Owner(k), NULL)
    BY <2>4, <2>9, Kinds DEF SamePrios, SameWaits
  <2>11. Owner(k2) = Owner(k)
    BY <1>2, <2>4, <2>8, OwnerSame
  <2>12. Waited(k2)
    BY <2>4, <2>8, <2>9, Kinds, WaitedLess
  <2>13. Even(k2, Owner(k), NULL)
    BY <2>4, <2>6, <2>10, ExactSteady DEF Even
  <2> QED
    BY <2>11, <2>12, <2>13
<1> QED
  BY <1>3, <1>4

-----------------------------------------------------------------------------
(* Waiters of o are woken: nobody inherits from them any more, or o is a *)
(* semaphore or a mutex that has no owner.                                *)
LEMMA RouseEven ==
    ASSUME NEW k, NEW k2, NEW o \in Obj, Rouses(k, k2, o), Onward(k, k2), k2.mtx = k.mtx,
           NEW own, o \in Mutex => own[o] = NULL, NEW h, Even(k, own, h)
    PROVE  Even(k2, own, h) /\ (Waited(k) => Waited(k2))
<1>1. /\ k2.kerr = k.kerr /\ k2.live = k.live
      /\ \A u \in Task : k2.tcb[u].prio = k.tcb[u].prio /\ k2.tcb[u].b_prio = k.tcb[u].b_prio
  BY Kinds DEF Rouses, Onward
<1>2. ASSUME NEW u \in Task
      PROVE  /\ k.tcb[u].state \notin Pending \/ k.tcb[u].blk_obj # o => k2.tcb[u] = k.tcb[u]
             /\ k2.tcb[u].state \in Pending =>
                    k.tcb[u].state \in Pending /\ k2.tcb[u].blk_obj = k.tcb[u].blk_obj
             /\ k2.tcb[u].state = "DELETED" <=> k.tcb[u].state = "DELETED"
  BY Kinds DEF Rouses, Onward, Softer
<1>3. \A u \in Task : \A m : Waits(k2, u, m) => Waits(k, u, m)
  BY <1>2 DEF Waits
<1>4. \A u \in Task : \A m : m # o /\ Waits(k, u, m) => Waits(k2, u, m)
  BY <1>2 DEF Waits
<1>5. SameWaits(k, k2, own, NULL)
  BY <1>3, <1>4 DEF SameWaits
<1>6. SamePrios(k, k2)
  BY <1>1, <1>2 DEF SamePrios
<1>7. Even(k2, own, h)
  BY <1>1, <1>5, <1>6, ExactSteady DEF Even
<1>8. Waited(k) => Waited(k2)
  BY <1>1, <1>2, <1>3, WaitedLess
<1> QED
  BY <1>7, <1>8

(* The first waiter gets the mutex. *)
LEMMA HandOverPrios ==
    ASSUME NEW k, Good(k), NEW m \in Mutex, k.waitq[m] # <<>>, NEW k2, k2 = HandOver(k, m),
           NEW v, v = Head(k.waitq[m])
    PROVE  /\ v \in Task /\ Waits(k, v, m) /\ SamePrios(k, k2) /\ k2.kerr = k.kerr
           /\ \A u \in Task \ {v}, x \in Mutex : Waits(k2, u, x) <=> Waits(k, u, x)
           /\ \A x \in Mutex : ~Waits(k2, v, x)
<1> DEFINE x1 == PendTaskWakeup(k, v)
           x2 == PutOwner(x1, m, v)
<1>1. m \in Obj /\ "FINISH" \in BlkState \ {"STALE"}
  BY Kinds DEF BlkState
<1>2. v \in Task /\ k.tcb[v].state \in Pending /\ k.tcb[v].blk_obj = m
  BY <1>1, FirstWaiter
<1>3. x1 = WakeAs(k, v, "FINISH")
  BY DEF PendTaskWakeup, WakeAs, PutBlkObj
<1>4. k2 = PushMutex(x2, v, m) /\ x2 = PutOwner(x1, m, v)
  BY DEF HandOver, PutOwner
<1> HIDE DEF x1
<1>5. /\ Good(x1) /\ Near(k, x1, v) /\ x1.tcb[v].state \in {"RDY", "SUSPENDED"}
      /\ x1.tcb[v].prio = k.tcb[v].prio /\ x1.tcb[v].b_prio = k.tcb[v].b_prio
  BY <1>1, <1>2, <1>3, WakeAsOf
<1>6. Good(x2) /\ x2.tcb = x1.tcb
  BY <1>2, <1>5, NewOwner
<1>7. x2.kerr = x1.kerr
  BY <1>5, GoodState DEF PutOwner, KState
<1> HIDE DEF x2
<1>8. Good(k2) /\ Alike(x2, k2)
  BY <1>2, <1>4, <1>6, PushMutexOf
<1>9. k2.kerr = x2.kerr
  BY <1>4, <1>6, GoodState DEF PushMutex, KState
<1>10. \A u \in Task \ {v} : /\ k2.tcb[u].state = k.tcb[u].state
                             /\ k2.tcb[u].blk_obj = k.tcb[u].blk_obj
                             /\ k2.tcb[u].prio = k.tcb[u].prio
                             /\ k2.tcb[u].b_prio = k.tcb[u].b_prio
  BY <1>5, <1>6, <1>8, Kinds DEF Near, Alike
<1>11. /\ k2.tcb[v].state \in {"RDY", "SUSPENDED"}
       /\ k2.tcb[v].prio = k.tcb[v].prio /\ k2.tcb[v].b_prio = k.tcb[v].b_prio
  BY <1>2, <1>5, <1>6, <1>8, Kinds DEF Alike
<1>12. k2.kerr = k.kerr
  BY <1>5, <1>7, <1>9 DEF Near
<1>13. SamePrios(k, k2)
  BY <1>2, <1>10, <1>11, States DEF SamePrios
<1> QED
  BY <1>2, <1>10, <1>11, <1>12, <1>13, States DEF Waits

LEMMA HandOverEven ==
    ASSUME NEW k, Good(k), NEW own \in OwnType, NEW h, Even(k, own, h),
           NEW m \in Mutex, own[m] \in {NULL, h}, k.waitq[m] # <<>>,
           Head(k.waitq[m]) # h, NEW k2, k2 = HandOver(k, m)
    PROVE  Even(k2, Reowned(own, m, Head(k.waitq[m])), h)
<1> DEFINE v == Head(k.waitq[m])
<1>1. /\ v \in Task /\ SamePrios(k, k2) /\ k2.kerr = k.kerr
      /\ \A u \in Task \ {v}, x \in Mutex : Waits(k2, u, x) <=> Waits(k, u, x)
      /\ \A x \in Mutex : ~Waits(k2, v, x)
  BY HandOverPrios
<1>2. INHERIT => Exact(k2, [own EXCEPT ![m] = v], {}, h)
  BY <1>1, ExactGiven DEF Even
<1> QED
  BY <1>1, <1>2 DEF Even, Reowned

(* A mutex of the deleted task u is freed. *)
LEMMA FreeOneEven ==
    ASSUME NEW k, Good(k), NEW c, Claims(k, c), NEW u \in Task, Even(k, Owner(k), u),
           Lists(k, Owner(k), u),
           NEW m \in Mutex, Owner(k)[m] = u, NEW k2, k2 = FreeOne(k, m)
    PROVE  Even(k2, Owner(k2), u)
<1> DEFINE own == Owner(k)
<1>1. k \in KState /\ m \in Obj
  BY GoodState, Kinds
<1>2. INHERIT /\ m \in k.live /\ k.mtx[m].task = u
  BY <1>1, Kinds, OwnerType
<1>3. own \in OwnType /\ own[m] \in {NULL, u} /\ own = Owner(k)
  BY <1>1, OwnerType
<1>4. PICK v \in Task \cup {NULL} : FreedTo(k, k2, u, m, v)
  BY FreeOneIs
<1>5. Passed(k, k2, m, v) /\ Owner(k2) = [own EXCEPT ![m] = v]
  BY <1>3, <1>4 DEF FreedTo
<1> HIDE DEF own
<1>6. CASE k.waitq[m] # <<>>
  <2> DEFINE w == Head(k.waitq[m])
  <2>1. k2 = HandOver(k, m)
    BY <1>6 DEF FreeOne
  <2>2. w \in Task /\ Waits(k, w, m)
    BY <1>6, <2>1, HandOverPrios
  <2>3. w # u
    BY <1>2, <2>2 DEF Claim, Claims
  <2>4. Even(k2, Reowned(own, m, w), u)
    BY <1>3, <1>6, <2>1, <2>3, HandOverEven
  <2>5. k2.mtx[m].task = w
    BY <1>3, <1>6, <2>1, HandOverIs DEF Passed
  <2> HIDE DEF w
  <2>6. v = w
    BY <1>5, <2>5 DEF Passed
  <2> QED
    BY <1>2, <1>5, <2>4, <2>6 DEF Reowned
<1>7. CASE k.waitq[m] = <<>>
  <2>1. k2 = PutOwner(k, m, NULL)
    BY <1>7 DEF FreeOne, PutOwner
  <2>2. k2.tcb = k.tcb
    BY <2>1, NewOwner
  <2>3. k2.kerr = k.kerr
    BY <1>1, <2>1 DEF PutOwner, KState
  <2>4. \A w \in Task : ~Waits(k, w, m)
    BY <1>1, <1>7, NoWaiter
  <2>5. SamePrios(k, k2) /\ \A w \in Task, x \in Mutex : Waits(k2, w, x) <=> Waits(k, w, x)
    BY <2>2 DEF SamePrios, Waits
  <2>6. \A x \in Mutex \ {m} : Owner(k2)[x] = own[x]
    BY <1>3, <1>5 DEF OwnType
  <2>7. Exact(k, own, {}, u)
    BY <1>2, <1>3 DEF Even
  <2>8. Exact(k2, Owner(k2), {}, u)
    BY <2>4, <2>5, <2>6, <2>7, ExactMoved
  <2> QED
    BY <2>3, <2>8 DEF Even
<1> QED
  BY <1>6, <1>7

LEMMA FreeStepEven ==
    ASSUME NEW k, NEW c, NEW u \in Task, NEW s, Freeing(k, c, u, s),
           Even(s.k, Owner(s.k), u), NEW s2, s2 = FreeStep(s)
    PROVE  Even(s2.k, Owner(s2.k), u)
<1> DEFINE x == s.k
           m == s.mutex
<1>1. /\ Good(x) /\ m \in Mutex \cup {NULL} /\ Lists(x, Owner(x), u) /\ Claims(x, c)
      /\ Linked(x, m, Mine(Owner(x), u)) /\ Even(x, Owner(x), u)
  BY DEF Freeing, FreeLoop
<1>2. CASE m = NULL
  <2>1. s2 = s
    BY <1>2 DEF FreeStep
  <2> QED
    BY <2>1
<1>3. CASE m # NULL
  <2>1. s2.k = FreeOne(x, m)
    BY <1>3 DEF FreeStep
  <2> HIDE DEF x, m
  <2>2. m \in Mine(Owner(x), u) /\ m \in Mutex
    BY <1>1, <1>3, LinkedHead
  <2>3. Owner(x)[m] = u
    BY <2>2 DEF Mine
  <2> QED
    BY <1>1, <2>1, <2>2, <2>3, FreeOneEven
<1> QED
  BY <1>2, <1>3

(* task_mutex_free: priorities are due but for the deleted task's. *)
LEMMA TaskMutexFreeEven ==
    ASSUME NEW k, Good(k), NEW c, Own(k, c), NEW u \in Task, k.tcb[u].state # "DELETED",
           ~Strict, Even(k, Owner(k), NULL), NEW k2, k2 = TaskMutexFree(k, u)
    PROVE  Even(k2, Owner(k2), u)
<1> DEFINE n == Cardinality(Mutex)
           r == FreeRounds(k, u)
<1>1. n \in Nat
  BY RhinoAssumption, FS_CardinalityType
<1>2. /\ r[0] = [k |-> k, mutex |-> k.tcb[u].mutex_list] /\ r[0] \in FreeLoop
      /\ \A i \in 1..n : r[i] = FreeStep(r[i-1])
  BY FreeRoundsOf
<1>3. k2 = r[n].k
  BY DEF TaskMutexFree
<1>4. Linked(k, k.tcb[u].mutex_list, Mine(Owner(k), u)) /\ Lists(k, Owner(k), u)
  BY Kinds DEF Own, Lists
<1>5. Even(k, Owner(k), u)
  BY ExactLess DEF Even
<1> HIDE DEF n, r
<1>6. Freeing(k, c, u, r[0]) /\ r[0].k = k
  BY <1>2, <1>4 DEF Own, Claims, Freeing, OthersFreed
<1> DEFINE S == {i \in 0..n : Freeing(k, c, u, r[i]) /\ Even(r[i].k, Owner(r[i].k), u)}
<1>7. 0 \in S
  BY <1>1, <1>5, <1>6
<1>8. ASSUME NEW i \in 1..n, i - 1 \in S PROVE i \in S
  <2> DEFINE s == r[i-1]
             s2 == r[i]
  <2>1. Freeing(k, c, u, s) /\ Even(s.k, Owner(s.k), u) /\ s2 = FreeStep(s) /\ i \in 0..n
    BY <1>1, <1>2, <1>8
  <2> HIDE DEF s, s2
  <2>2. Freeing(k, c, u, s2)
    BY <2>1, FreeStepIs
  <2>3. Even(s2.k, Owner(s2.k), u)
    BY <2>1, FreeStepEven
  <2> QED
    BY <2>1, <2>2, <2>3 DEF s2
<1> HIDE DEF S
<1>9. n \in S
  <2>1. \A i \in 1..n : i - 1 \in S => i \in S
    BY <1>8
  <2>2. n \in 0..n
    BY <1>1
  <2> QED
    BY <1>1, <1>7, <2>1, <2>2, UpTo
<1> QED
  BY <1>3, <1>9 DEF S

-----------------------------------------------------------------------------
(* No priority is touched, and everybody waits for the mutex he waited for. *)
Steady(k, k2) ==
    /\ k2.kerr = k.kerr /\ Mutex \cap k2.live = Mutex \cap k.live
    /\ \A m \in Mutex : k2.mtx[m].task = k.mtx[m].task
    /\ \A u \in Task :
           /\ k2.tcb[u].prio = k.tcb[u].prio /\ k2.tcb[u].b_prio = k.tcb[u].b_prio
           /\ k2.tcb[u].state = "DELETED" <=> k.tcb[u].state = "DELETED"
           /\ \A m \in Mutex : Waits(k2, u, m) <=> Waits(k, u, m)

LEMMA SteadyEven ==
    ASSUME NEW k, NEW k2, Steady(k, k2)
    PROVE  /\ Owner(k2) = Owner(k)
           /\ \A h : Even(k, Owner(k), h) => Even(k2, Owner(k2), h)
           /\ Waited(k) => Waited(k2)
<1>1. Owner(k2) = Owner(k)
  BY OwnerSame DEF Steady
<1>2. SamePrios(k, k2) /\ SameWaits(k, k2, Owner(k), NULL)
  BY DEF Steady, SamePrios, SameWaits
<1>3. ASSUME NEW h, Even(k, Owner(k), h) PROVE Even(k2, Owner(k), h)
  BY <1>2, <1>3, ExactSteady DEF Even, Steady
<1>4. Waited(k) => Waited(k2)
  BY WaitedLess DEF Steady
<1> QED
  BY <1>1, <1>3, <1>4

(* The state between the helpers of a call. *)
Level(k) == Good(k) /\ Waited(k) /\ Even(k, Owner(k), NULL) /\ Lists(k, Owner(k), NULL)

LEMMA TiedLists ==
    ASSUME NEW k, NEW k2, Tied(k, k2, NULL)
    PROVE  Owner(k2) = Owner(k) /\ \A own : Lists(k, own, NULL) => Lists(k2, own, NULL)
<1>1. k2.mtx = k.mtx /\ k2.live = k.live
  BY DEF Tied
<1>2. \A u \in Task : /\ k2.tcb[u].mutex_list = k.tcb[u].mutex_list
                      /\ k2.tcb[u].state # "DELETED" => k.tcb[u].state # "DELETED"
  BY TiedEased, Kinds DEF Eased, SameList
<1>3. ASSUME NEW own, Lists(k, own, NULL) PROVE Lists(k2, own, NULL)
  BY <1>1, <1>2, <1>3, ListsSame
<1> QED
  BY <1>1, <1>3, OwnerSame

LEMMA SteadyLevel ==
    ASSUME NEW k, Level(k), NEW k2, Good(k2), Tied(k, k2, NULL), Steady(k, k2)
    PROVE  Level(k2)
BY SteadyEven, TiedLists DEF Level

(* A task leaves its wait or its sleep. *)
LEMMA DepartsLevel ==
    ASSUME NEW k, Level(k), NEW t \in Task, k.tcb[t].state # "DELETED", NEW k2, Good(k2),
           Tied(k, k2, NULL), Departs(k, k2, t)
    PROVE  Level(k2)
<1>1. k2.tcb[t].state # "DELETED"
  BY Kinds DEF Tied, Softer
<1>2. k2 \in KState
  BY GoodState
<1>3. Good(k) /\ Waited(k) /\ Even(k, Owner(k), NULL) /\ Lists(k, Owner(k), NULL)
  BY DEF Level
<1>4. Free(k, k2, t)
  BY <1>1 DEF Free
<1>5. NULL # t
  BY Kinds
<1>6. Even(k2, Owner(k2), NULL) /\ Waited(k2)
  BY <1>2, <1>3, <1>4, <1>5, DepartsEven
<1> QED
  BY <1>3, <1>6, TiedLists DEF Level

LEMMA AgedLevel ==
    ASSUME NEW k, Level(k), Timed(k), NEW k2, k2 = Aged(k)
    PROVE  Level(k2)
<1>1. Good(k) /\ k \in KState
  BY GoodState DEF Level
<1>2. Good(k2) /\ Tied(k, k2, NULL)
  BY <1>1, AgedOf
<1>3. k2.tcb = k.tcb /\ k2.mtx = k.mtx /\ k2.live = k.live /\ k2.kerr = k.kerr
  BY <1>1 DEF Aged, KState
<1>4. Steady(k, k2)
  BY <1>3 DEF Steady, Waits
<1> QED
  BY <1>2, <1>4, SteadyLevel

LEMMA ExpireFirstLevel ==
    ASSUME NEW k, Level(k), NEW k2, k2 = ExpireFirst(k)
    PROVE  Level(k2)
<1>1. Good(k) /\ k \in KState /\ TickPart(k, NULL)
  BY GoodState DEF Level, Good, But
<1>2. CASE ~(k.tick # <<>> /\ Head(k.tick).left = 0)
  BY <1>2 DEF ExpireFirst
<1>3. CASE k.tick # <<>> /\ Head(k.tick).left = 0
  <2> DEFINE t == Head(k.tick).task
  <2>1. k2 = Expire(k, t)
    BY <1>3 DEF ExpireFirst
  <2>2. t \in TickTasks(k)
    <3>1. k.tick \in Seq(Entry)
      BY <1>1, Fields
    <3>2. Head(k.tick) = k.tick[1] /\ 1 \in DOMAIN k.tick
      BY <1>3, <3>1
    <3> QED
      BY <3>2 DEF TickTasks, Range
  <2> HIDE DEF t
  <2>3. Good(k2) /\ Tied(k, k2, NULL) /\ t \in Task /\ Departs(k, k2, t)
    BY <1>1, <2>1, <2>2, ExpireOf
  <2>4. k.tcb[t].state # "DELETED"
    BY <1>1, <2>2, <2>3, Kinds, States DEF TickPart
  <2> QED
    BY <2>3, <2>4, DepartsLevel
<1> QED
  BY <1>2, <1>3

LEMMA TickListUpdateLevel ==
    ASSUME NEW k, Level(k), Timed(k), NEW k2, k2 = TickListUpdate(k)
    PROVE  Level(k2)
<1> DEFINE n == Len(k.tick)
           r == TickRounds(k)
           S == {i \in 0..n : Level(r[i])}
<1>1. n \in Nat /\ r[0] = Aged(k) /\ \A i \in 1..n : r[i] = ExpireFirst(r[i-1])
  BY TickRoundsOf DEF Level
<1>2. k2 = r[n]
  BY DEF TickListUpdate
<1> HIDE DEF n, r
<1>3. 0 \in S
  BY <1>1, AgedLevel
<1>4. \A i \in 1..n : i - 1 \in S => i \in S
  <2> SUFFICES ASSUME NEW i \in 1..n, i - 1 \in S PROVE i \in S
    OBVIOUS
  <2>1. Level(r[i-1]) /\ r[i] = ExpireFirst(r[i-1]) /\ i \in 0..n
    BY <1>1
  <2> QED
    BY <2>1, ExpireFirstLevel
<1> HIDE DEF S
<1>5. n \in S
  <2>1. n \in 0..n
    BY <1>1
  <2> QED
    BY <1>1, <1>3, <1>4, <2>1, UpTo
<1> QED
  BY <1>2, <1>5 DEF S

LEMMA TimeSliceUpdateLevel ==
    ASSUME NEW k, Level(k), active \in AllTask, NEW k2, k2 = TimeSliceUpdate(k)
    PROVE  Level(k2)
<1> DEFINE l == k.ready[k.tcb[active].prio]
           left == k.tcb[active].slice - 1
<1>1. Good(k) /\ k \in KState /\ k.tcb[active] \in Tcb
  BY GoodState, Fields DEF Level
<1>2. Good(k2) /\ Tied(k, k2, NULL)
  BY <1>1, TimeSliceUpdateOf
<1>3. /\ k2.kerr = k.kerr
      /\ \A u \in AllTask : /\ k2.tcb[u].prio = k.tcb[u].prio
                            /\ k2.tcb[u].b_prio = k.tcb[u].b_prio
                            /\ k2.tcb[u].state = k.tcb[u].state
                            /\ k2.tcb[u].blk_obj = k.tcb[u].blk_obj
  <2>1. ASSUME NEW n, NEW x \in KState, x.tcb = k.tcb, x.kerr = k.kerr, k2 = PutSlice(x, active, n)
        PROVE  <1>3
    <3> DEFINE r == [k.tcb[active] EXCEPT !.slice = n]
    <3>1. /\ r.prio = k.tcb[active].prio /\ r.b_prio = k.tcb[active].b_prio
          /\ r.state = k.tcb[active].state /\ r.blk_obj = k.tcb[active].blk_obj
      BY <1>1 DEF Tcb
    <3>2. k2.kerr = k.kerr /\ k2.tcb = [k.tcb EXCEPT ![active] = r]
      BY <2>1 DEF PutSlice, KState
    <3> HIDE DEF r
    <3>3. k.tcb \in [AllTask -> Tcb]
      BY <1>1, Fields
    <3> QED
      BY <3>1, <3>2, <3>3
  <2>2. CASE Len(l) <= 1
    <3>1. k2 = k
      BY <2>2 DEF TimeSliceUpdate
    <3> QED
      BY <3>1
  <2>3. CASE ~(Len(l) <= 1) /\ left > 0
    <3>1. k2 = PutSlice(k, active, left)
      BY <2>3 DEF TimeSliceUpdate, PutSlice
    <3> QED
      BY <1>1, <2>1, <3>1
  <2>4. CASE ~(Len(l) <= 1) /\ ~(left > 0)
    <3> DEFINE x == HeadToTail(k, active)
    <3>1. k2 = PutSlice(x, active, TimeSlice)
      BY <2>4 DEF TimeSliceUpdate, PutSlice
    <3>2. l # <<>>
      BY <2>4
    <3>3. x \in KState /\ x.tcb = k.tcb
      BY <1>1, <3>2, HeadToTailOf, GoodState
    <3>4. x.kerr = k.kerr
      BY <1>1 DEF HeadToTail, KState
    <3> HIDE DEF x
    <3> QED
      BY <2>1, <3>1, <3>3, <3>4
  <2> QED
    BY <2>2, <2>3, <2>4
<1>4. k2.mtx = k.mtx /\ k2.live = k.live
  BY <1>2 DEF Tied
<1>5. Steady(k, k2)
  BY <1>3, <1>4, Kinds DEF Steady, Waits
<1> QED
  BY <1>2, <1>5, SteadyLevel

-----------------------------------------------------------------------------
(***************************************************************************)
(* What the actions do to the priorities.  A mutex whose owner is deleted  *)
(* has no owner left: without inheritance krhino_task_del frees nothing.   *)
(***************************************************************************)
NoOrphans == INHERIT \/ "task_del" \notin Calls

PriInv == Even(Kernel, Owner(Kernel), NULL)

(* The same of a system that k_err_proc may have stopped. *)
StopInv ==
    /\ INHERIT => Exact(Kernel, Owner(Kernel), {}, NULL)
    /\ StopsOnlyOnMisuse

LEMMA PriStop == PriInv => StopInv
BY KernelIs DEF PriInv, Even, StopInv, StopsOnlyOnMisuse

LEMMA StopPri == StopInv /\ Up => PriInv
BY KernelIs DEF PriInv, Even, StopInv, Up

LEMMA KernelWaited ==
    ASSUME NoOrphans, Inv, OwnInv
    PROVE  Waited(Kernel)
<1>1. /\ Good(Kernel) /\ Kernel \in KState /\ OwnersAlive(Kernel) /\ Claims(Kernel, call)
      /\ \A m \in Mutex : Owner(Kernel)[m] =
                IF INHERIT /\ m \in live THEN mtx[m].task ELSE NULL
  BY InvHas, OwnHas
<1> SUFFICES ASSUME NEW u \in Task, NEW m \in Mutex \cap live, Waits(Kernel, u, m)
             PROVE  /\ mtx[m].task \in Task \ {u}
                    /\ tcb[mtx[m].task].state # "DELETED"
  BY KernelIs DEF Waited
<1>2. Claim(Kernel, call, u) /\ mtx[m].task \in Task \cup {NULL}
  BY <1>1, OwnHas DEF Claims
<1>3. mtx[m].task \in Task \ {u}
  BY <1>2, KernelIs DEF Claim
<1>4. CASE INHERIT
  BY <1>1, <1>3, <1>4, KernelIs, Kinds DEF OwnersAlive
<1>5. CASE "task_del" \notin Calls
  BY <1>1, <1>3, <1>5, KernelIs DEF Claims, Claim
<1> QED
  BY <1>3, <1>4, <1>5 DEF NoOrphans

LEMMA KernelLevel ==
    ASSUME NoOrphans, Inv, OwnInv, PriInv
    PROVE  Level(Kernel)
BY InvHas, OwnHas, KernelWaited DEF Level, PriInv

LEMMA PriNext ==
    ASSUME NEW k \in KState, Become(k), Even(k, Owner(k), NULL)
    PROVE  PriInv'
<1>1. Kernel' = k
  BY BecomeOf
<1>2. Even(Kernel', Owner(Kernel'), NULL)
  BY <1>1
<1> QED
  BY <1>2 DEF PriInv, Kernel

LEMMA StopNext ==
    ASSUME NEW k \in KState, Become(k), INHERIT => Exact(k, Owner(k), {}, NULL),
           StopsOnlyOnMisuse'
    PROVE  StopInv'
<1>1. Kernel' = k
  BY BecomeOf
<1>2. INHERIT => Exact(Kernel', Owner(Kernel'), {}, NULL)
  BY <1>1
<1> QED
  BY <1>2 DEF StopInv, Kernel

LEMMA LevelNext ==
    ASSUME NEW k, Level(k), Become(k)
    PROVE  PriInv'
BY GoodState, PriNext DEF Level

(* No priority and no wait changes. *)
LEMMA SteadyNext ==
    ASSUME PriInv, kerr' = kerr, Mutex \cap live' = Mutex \cap live,
           \A m \in Mutex : mtx'[m].task = mtx[m].task,
           \A u \in Task :
               /\ tcb'[u].prio = tcb[u].prio /\ tcb'[u].b_prio = tcb[u].b_prio
               /\ tcb'[u].state = "DELETED" <=> tcb[u].state = "DELETED"
               /\ tcb'[u].state \in Pending <=> tcb[u].state \in Pending
               /\ tcb[u].state \in Pending => tcb'[u].blk_obj = tcb[u].blk_obj
    PROVE  PriInv'
<1> DEFINE k2 == Kernel'
<1>1. /\ k2.tcb = tcb' /\ k2.mtx = mtx' /\ k2.live = live' /\ k2.kerr = kerr'
      /\ Kernel.tcb = tcb /\ Kernel.mtx = mtx /\ Kernel.live = live /\ Kernel.kerr = kerr
  BY DEF Kernel
<1>2. k2 = Kernel'
  OBVIOUS
<1> HIDE DEF k2
<1>3. Steady(Kernel, k2)
  BY <1>1 DEF Steady, Waits
<1>4. Even(k2, Owner(k2), NULL)
  BY <1>3, SteadyEven DEF PriInv
<1> QED
  BY <1>2, <1>4 DEF PriInv

LEMMA SameNext ==
    ASSUME PriInv, kerr' = kerr, Mutex \cap live' = Mutex \cap live,
           \A m \in Mutex : mtx'[m].task = mtx[m].task, tcb' = tcb
    PROVE  PriInv'
BY SteadyNext

(* One control block is rewritten. *)
LEMMA OneNext ==
    ASSUME Inv, PriInv, NEW k, k.live = live, k.mtx = mtx, k.kerr = kerr, NEW u \in Task, NEW r,
           k.tcb = [tcb EXCEPT ![u] = r], Become(k), r.prio = tcb[u].prio,
           r.b_prio = tcb[u].b_prio, r.state = "DELETED" <=> tcb[u].state = "DELETED",
           r.state \in Pending <=> tcb[u].state \in Pending,
           tcb[u].state \in Pending => r.blk_obj = tcb[u].blk_obj
    PROVE  PriInv'
<1>1. /\ tcb'[u] = r /\ \A w \in Task \ {u} : tcb'[w] = tcb[w]
      /\ mtx' = mtx /\ live' = live
  BY TcbRewritten
<1>2. kerr' = kerr
  BY DEF Become
<1> QED
  BY <1>1, <1>2, SteadyNext

LEMMA PendEndPri ==
    ASSUME Inv, PriInv, NEW t \in Task, PendEnd(t)
    PROVE  PriInv'
<1> DEFINE r == [tcb[t] EXCEPT !.blk_state = "STALE"]
           k == [Kernel EXCEPT !.tcb[t].blk_state = "STALE"]
<1>1. k.live = live /\ k.mtx = mtx /\ k.kerr = kerr /\ k.tcb = [tcb EXCEPT ![t] = r] /\ Become(k)
  BY DEF Kernel, PendEnd, Become
<1>2. tcb[t] \in Tcb
  BY TcbHas, Kinds
<1>3. /\ r.state = tcb[t].state /\ r.blk_obj = tcb[t].blk_obj
      /\ r.prio = tcb[t].prio /\ r.b_prio = tcb[t].b_prio
  BY <1>2 DEF Tcb
<1> HIDE DEF r, k
<1> QED
  BY <1>1, <1>3, OneNext

LEMMA TaskSleepPri ==
    ASSUME Inv, PriInv, NEW t \in Task, NEW n \in Timeouts, TaskSleep(t, n)
    PROVE  PriInv'
<1> DEFINE r == [tcb[t] EXCEPT !.state = "SLEEP"]
           k == ReadyRm(TickInsert([Kernel EXCEPT !.tcb[t].state = "SLEEP"], t, n), t)
<1>1. Become(k) /\ t = active
  BY DEF TaskSleep, CoreSched, Runs
<1>2. k.live = live /\ k.mtx = mtx /\ k.kerr = kerr /\ k.tcb = [tcb EXCEPT ![t] = r]
  BY DEF Kernel, ReadyRm, TickInsert
<1>3. tcb[t] \in Tcb /\ tcb[t].state = "RDY"
  BY <1>1, InvHas, TcbHas, Kinds
<1>4. r.state = "SLEEP" /\ r.prio = tcb[t].prio /\ r.b_prio = tcb[t].b_prio
  BY <1>3 DEF Tcb
<1> HIDE DEF r, k
<1> QED
  BY <1>1, <1>2, <1>3, <1>4, States, OneNext

LEMMA TaskYieldPri ==
    ASSUME PriInv, NEW t \in Task, TaskYield(t)
    PROVE  PriInv'
<1>1. Resched(HeadToTail(Kernel, t))
  BY DEF TaskYield
<1>2. mtx' = mtx /\ tcb' = tcb /\ live' = live /\ kerr' = kerr
  BY <1>1 DEF Resched, CoreSched, Become, HeadToTail, Kernel
<1> QED
  BY <1>2, SameNext

LEMMA SchedPri ==
    ASSUME PriInv, NEW t \in Task, SchedDisable(t) \/ SchedEnable(t)
    PROVE  PriInv'
BY SameNext DEF SchedDisable, kernelVars, SchedEnable, CoreSched, Become, Kernel

LEMMA HaltedPri ==
    ASSUME Inv, PriInv, NEW u \in Task, NEW k, NEW s, NEW n, HaltedAs(k, u, s, n)
    PROVE  PriInv'
<1> DEFINE r == [tcb[u] EXCEPT !.state = s, !.suspend = n]
<1>1. tcb[u] \in Tcb
  BY TcbHas, Kinds
<1>2. /\ r.state = s /\ r.blk_obj = tcb[u].blk_obj
      /\ r.prio = tcb[u].prio /\ r.b_prio = tcb[u].b_prio
  BY <1>1 DEF Tcb
<1>3. k.tcb = [tcb EXCEPT ![u] = r] /\ k.live = live /\ k.mtx = mtx /\ k.kerr = kerr
  BY DEF HaltedAs
<1> HIDE DEF r
<1>4. /\ r.state = "DELETED" <=> tcb[u].state = "DELETED"
      /\ r.state \in Pending <=> tcb[u].state \in Pending
  BY <1>2, States DEF HaltedAs, Halted
<1>5. Become(k)
  BY Ends DEF HaltedAs
<1> QED
  BY <1>2, <1>3, <1>4, <1>5, OneNext

LEMMA CountPri ==
    ASSUME PriInv, NEW s \in Sem, NEW n, NEW L, L \in {live, live \cup {s}},
           NoResched([Kernel EXCEPT !.live = L, !.count[s] = n])
    PROVE  PriInv'
<1>1. mtx' = mtx /\ tcb' = tcb /\ live' = L /\ kerr' = kerr
  BY DEF NoResched, Become, Kernel
<1>2. Mutex \cap live' = Mutex \cap live
  BY <1>1, Kinds
<1> QED
  BY <1>1, <1>2, SameNext

LEMMA SemCreatePri ==
    ASSUME PriInv, NEW t \in Task, NEW s \in Sem, SemCreate(t, s)
    PROVE  PriInv'
<1>1. PICK n \in 0..MaxCount : NoResched([Kernel EXCEPT !.live = @ \cup {s}, !.count[s] = n])
  BY DEF SemCreate
<1> DEFINE L == live \cup {s}
<1>2. NoResched([Kernel EXCEPT !.live = L, !.count[s] = n])
  BY <1>1, KernelIs
<1>3. L \in {live, live \cup {s}}
  OBVIOUS
<1> HIDE DEF L
<1> QED
  BY <1>2, <1>3, CountPri

LEMMA SemCountPri ==
    ASSUME Inv, PriInv, NEW s \in Sem, NEW n, NoResched([Kernel EXCEPT !.count[s] = n])
    PROVE  PriInv'
<1>1. NoResched([Kernel EXCEPT !.live = live, !.count[s] = n])
  BY LiveSame
<1> QED
  BY <1>1, CountPri

LEMMA SemTakePri ==
    ASSUME Inv, PriInv, NEW t \in Task, NEW s \in Sem, SemTake(t, s)
    PROVE  PriInv'
<1>1. NoResched([Kernel EXCEPT !.count[s] = count[s] - 1])
  BY KernelIs DEF SemTake
<1> QED
  BY <1>1, SemCountPri

LEMMA SemCountSetPri ==
    ASSUME Inv, PriInv, NEW t \in Task, NEW s \in Sem, SemCountSet(t, s)
    PROVE  PriInv'
<1>1. PICK n \in 0..MaxCount : NoResched([Kernel EXCEPT !.count[s] = n])
  BY DEF SemCountSet
<1> QED
  BY <1>1, SemCountPri

LEMMA NestedPri ==
    ASSUME Inv, PriInv, NEW m \in Mutex, NEW n \in 0..MaxNested, NEW k,
           k = PutNested(Kernel, m, n), NoResched(k)
    PROVE  PriInv'
<1>1. /\ Good(k) /\ Alike(Kernel, k) /\ k.tcb = tcb /\ Others(Kernel, k, m)
      /\ k.mtx[m].task = mtx[m].task
  BY InvHas, NewNested, KernelIs
<1>2. k.kerr = kerr
  BY KernelIs DEF PutNested
<1>3. k.live = live /\ \A x \in Mutex : k.mtx[x].task = mtx[x].task
  BY <1>1, KernelIs DEF Alike, Others
<1>4. mtx' = k.mtx /\ tcb' = tcb /\ live' = live /\ kerr' = kerr
  BY <1>1, <1>2, <1>3 DEF NoResched, Become
<1> QED
  BY <1>3, <1>4, SameNext

LEMMA MutexLockNestedPri ==
    ASSUME Inv, PriInv, NEW t \in Task, NEW m \in Mutex, MutexLockNested(t, m)
    PROVE  PriInv'
<1> DEFINE n == mtx[m].nested + 1
           k == PutNested(Kernel, m, n)
<1>1. NoResched([Kernel EXCEPT !.mtx[m].nested = @ + 1]) /\ mtx[m].nested < MaxNested
  BY DEF MutexLockNested
<1>2. NoResched(k)
  BY <1>1, KernelIs DEF PutNested
<1>3. n \in 0..MaxNested
  BY <1>1, InvHas, KernelIs, MutexFields, KernelAssumption
<1> HIDE DEF n, k
<1> QED
  BY <1>2, <1>3, NestedPri DEF k

LEMMA MutexUnlockNestedPri ==
    ASSUME Inv, PriInv, NEW t \in Task, NEW m \in Mutex, MutexUnlockNested(t, m)
    PROVE  PriInv'
<1> DEFINE n == mtx[m].nested - 1
           k == PutNested(Kernel, m, n)
<1>1. NoResched([Kernel EXCEPT !.mtx[m].nested = @ - 1]) /\ mtx[m].nested > 1
  BY DEF MutexUnlockNested
<1>2. NoResched(k)
  BY <1>1, KernelIs DEF PutNested
<1>3. n \in 0..MaxNested
  BY <1>1, InvHas, KernelIs, MutexFields, KernelAssumption
<1> HIDE DEF n, k
<1> QED
  BY <1>2, <1>3, NestedPri DEF k

(* Those who waited for o, which has no owner, are woken. *)
LEMMA RouseNext ==
    ASSUME NEW k, Even(k, Owner(k), NULL), NEW k2, Good(k2), NEW o \in Obj, Rouses(k, k2, o),
           Onward(k, k2), k2.mtx = k.mtx, o \in Mutex => Owner(k)[o] = NULL, Become(k2)
    PROVE  PriInv'
<1>1. Owner(k2) = Owner(k)
  BY OwnerSame DEF Onward
<1>2. Even(k2, Owner(k), NULL)
  BY RouseEven
<1>3. k2 \in KState
  BY GoodState
<1> QED
  BY <1>1, <1>2, <1>3, PriNext

LEMMA SemGivePri ==
    ASSUME Inv, PriInv, NEW s \in Sem, SemGive(s)
    PROVE  PriInv'
<1>1. CASE waitq[s] = <<>>
  <2>1. NoResched([Kernel EXCEPT !.count[s] = count[s] + 1])
    BY <1>1, KernelIs DEF SemGive
  <2> QED
    BY <2>1, SemCountPri
<1>2. CASE waitq[s] # <<>>
  <2> DEFINE k == PendTaskWakeup(Kernel, Head(waitq[s]))
  <2>1. Resched(k) /\ s \in Obj /\ s \notin Mutex
    BY <1>2, Kinds DEF SemGive
  <2>2. "FINISH" \in BlkState \ {"STALE"}
    BY DEF BlkState
  <2>3. k = WakeFirstAs(Kernel, s, "FINISH")
    BY <1>2, KernelIs DEF WakeFirstAs, WakeAs, PendTaskWakeup, PutBlkObj
  <2> HIDE DEF k
  <2>4. Good(k) /\ Onward(Kernel, k) /\ k.mtx = Kernel.mtx /\ Rouses(Kernel, k, s)
    BY <2>1, <2>2, <2>3, InvHas, WakeFirstOf
  <2>5. Become(k)
    BY <2>1, Ends
  <2> QED
    BY <2>1, <2>4, <2>5, RouseNext DEF PriInv
<1> QED
  BY <1>1, <1>2

LEMMA SemGiveAllPri ==
    ASSUME Inv, PriInv, NEW s \in Sem, SemGiveAll(s)
    PROVE  PriInv'
<1> DEFINE k == WakeupAll(Kernel, s)
<1>1. Resched(k) /\ s \in Obj /\ s \notin Mutex
  BY Kinds DEF SemGiveAll
<1>2. Good(k) /\ Onward(Kernel, k) /\ k.mtx = Kernel.mtx /\ Rouses(Kernel, k, s)
  BY <1>1, InvHas, WakeupAllOf
<1> HIDE DEF k
<1>3. Become(k)
  BY <1>1, Ends
<1> QED
  BY <1>1, <1>2, <1>3, RouseNext DEF PriInv

LEMMA SemDelPri ==
    ASSUME Inv, PriInv, NEW t \in Task, NEW s \in Sem, SemDel(t, s)
    PROVE  PriInv'
<1> DEFINE dead == [Kernel EXCEPT !.live = @ \ {s}]
           k == PendRmAll(dead, s)
<1>1. Resched(k) /\ s \in Obj /\ s \notin Mutex
  BY Kinds DEF SemDel
<1>2. Good(dead)
  BY <1>1, DeadObject DEF SoundBut
<1>3. /\ dead.live = live \ {s} /\ dead.mtx = mtx /\ dead.tcb = tcb /\ dead.kerr = kerr
  BY KernelIs DEF Kernel
<1> HIDE DEF dead
<1>4. Good(k) /\ Onward(dead, k) /\ k.mtx = dead.mtx /\ Rouses(dead, k, s)
  BY <1>1, <1>2, PendRmAllOf
<1> HIDE DEF k
<1>5. Become(k)
  BY <1>1, Ends
<1>6. Steady(Kernel, dead)
  BY <1>1, <1>3, KernelIs DEF Steady, Waits
<1>7. Even(dead, Owner(dead), NULL)
  BY <1>6, SteadyEven DEF PriInv
<1> QED
  BY <1>1, <1>4, <1>5, <1>7, RouseNext

LEMMA SemTakePendPri ==
    ASSUME Inv, PriInv, NEW t \in Task, NEW s \in Sem, NEW n \in Timeouts, SemTakePend(t, s, n)
    PROVE  PriInv'
<1> DEFINE k == PendToBlkObj(Kernel, s, t, n)
<1>1. /\ t = active /\ s \in live /\ count[s] = 0
      /\ CoreSched(k, 0) /\ call' = [call EXCEPT ![t] = s]
  BY DEF SemTakePend, Runs
<1>2. s \in Obj /\ s \notin Mutex
  BY Kinds
<1>3. CallSet(t, s)
  BY <1>1, <1>2, CallSetOf
<1>4. /\ call'[t] = s /\ \A u \in Task \ {t} : call'[u] = call[u]
      /\ Kernel.tcb[t].state = "RDY" /\ s \in Kernel.live /\ Kernel.count[s] = 0
  BY <1>1, <1>3, InvHas, KernelIs DEF CallSet
<1>5. k = PendToBlkObj(Kernel, s, t, n)
  OBVIOUS
<1> HIDE DEF k
<1>6. /\ Sound(k, call') /\ Near(Kernel, k, t)
      /\ k.tcb[t].state = "PEND" /\ k.tcb[t].blk_obj = s
      /\ k.tcb[t].prio = Kernel.tcb[t].prio /\ k.tcb[t].b_prio = Kernel.tcb[t].b_prio
  BY <1>2, <1>4, <1>5, InvHas, Blocked
<1>7. Steady(Kernel, k)
  <2>1. \A u \in Task \ {t} : k.tcb[u] = Kernel.tcb[u]
    BY <1>6, Kinds DEF Near
  <2>2. k.live = Kernel.live /\ k.mtx = Kernel.mtx /\ k.kerr = Kernel.kerr
    BY <1>6 DEF Near
  <2> QED
    BY <1>2, <1>4, <1>6, <2>1, <2>2, States DEF Steady, Waits
<1>8. k \in KState /\ Become(k)
  BY <1>1, <1>6, GoodState DEF Sound, SoundBut, CoreSched
<1>9. Even(k, Owner(k), NULL)
  BY <1>7, SteadyEven DEF PriInv
<1> QED
  BY <1>8, <1>9, PriNext

(* A task is made to leave its wait. *)
LEMMA AbortedLevel ==
    ASSUME NEW k, Level(k), NEW u \in Task, k.tcb[u].state # "DELETED",
           NEW k2, k2 = WaitAborted(k, u)
    PROVE  Level(k2)
<1>1. Good(k2) /\ Tied(k, k2, NULL) /\ Departs(k, k2, u)
  BY WaitAbortedOf DEF Level
<1> QED
  BY <1>1, DepartsLevel

LEMMA TaskWaitAbortPri ==
    ASSUME NoOrphans, Inv, OwnInv, PriInv, NEW t \in Task, NEW u \in Task, TaskWaitAbort(t, u)
    PROVE  PriInv'
<1> DEFINE k == WaitAborted(Kernel, u)
<1>1. Resched(k) /\ Kernel.tcb[u].state # "DELETED"
  BY KernelIs DEF TaskWaitAbort, Alive
<1>2. Level(k)
  BY <1>1, KernelLevel, AbortedLevel
<1> HIDE DEF k
<1> QED
  BY <1>1, <1>2, Ends, LevelNext

LEMMA TaskCancelPri ==
    ASSUME NoOrphans, Inv, OwnInv, PriInv, NEW t \in Task, NEW u \in Task, TaskCancel(t, u)
    PROVE  PriInv'
<1> DEFINE r == [tcb[u] EXCEPT !.cancel = TRUE]
           x == PutTcb(Kernel, u, r)
           k == WaitAborted(x, u)
<1>1. IF tcb[u].state # "DELETED" THEN Resched(k) ELSE NoResched(x)
  BY DEF TaskCancel, Alive, PutTcb, Kernel
<1>2. tcb[u] \in Tcb /\ u \in AllTask
  BY TcbHas, Kinds
<1>3. /\ r \in Tcb /\ r.state = tcb[u].state /\ r.prio = tcb[u].prio /\ r.b_prio = tcb[u].b_prio
      /\ r.blk_obj = tcb[u].blk_obj /\ r.blk_state = tcb[u].blk_state
      /\ r.mutex_list = tcb[u].mutex_list
  BY <1>2 DEF Tcb
<1> HIDE DEF r
<1>4. SameLists(Kernel.tcb[u], r) /\ Good(Kernel) /\ Kernel.tcb[u] = tcb[u]
  BY <1>3, InvHas, KernelIs DEF SameLists
<1>5. /\ Good(x) /\ Near(Kernel, x, u) /\ x.tcb[u] = r
  BY <1>3, <1>4, TcbSet
<1> HIDE DEF x
<1>6. /\ x.live = Kernel.live /\ x.mtx = Kernel.mtx /\ x.kerr = Kernel.kerr
      /\ \A w \in Task \ {u} : x.tcb[w] = Kernel.tcb[w]
  BY <1>5, Kinds DEF Near
<1>7. Level(Kernel)
  BY KernelLevel
<1>8. Steady(Kernel, x)
  BY <1>3, <1>4, <1>5, <1>6 DEF Steady, Waits
<1>9. Lists(x, Owner(Kernel), NULL)
  <2>1. Lists(Kernel, Owner(Kernel), NULL)
    BY OwnHas
  <2> QED
    BY <1>3, <1>4, <1>5, <1>6, <2>1, ListsSame
<1>10. Level(x)
  BY <1>5, <1>7, <1>8, <1>9, SteadyEven DEF Level
<1>11. CASE tcb[u].state # "DELETED"
  <2>1. Level(k)
    BY <1>3, <1>5, <1>10, <1>11, AbortedLevel
  <2> HIDE DEF k
  <2> QED
    BY <1>1, <1>11, <2>1, Ends, LevelNext
<1>12. CASE tcb[u].state = "DELETED"
  BY <1>1, <1>10, <1>12, Ends, LevelNext
<1> QED
  BY <1>11, <1>12

LEMMA TickPri ==
    ASSUME NoOrphans, Inv, OwnInv, PriInv, Tick
    PROVE  PriInv'
<1> DEFINE x == TickListUpdate(Kernel)
           k == TimeSliceUpdate(x)
<1>1. Become(k)
  BY Ends DEF Tick
<1>2. Level(Kernel) /\ Timed(Kernel)
  BY KernelLevel, InvHas DEF Sound, SoundBut
<1>3. Level(x)
  BY <1>2, TickListUpdateLevel
<1> HIDE DEF x
<1>4. Level(k)
  BY <1>3, InvHas, TimeSliceUpdateLevel
<1> HIDE DEF k
<1> QED
  BY <1>1, <1>4, LevelNext

(* The mutex that is taken has nobody waiting for it. *)
LEMMA MutexLockFreePri ==
    ASSUME Inv, OwnInv, PriInv, NEW t \in Task, NEW m \in Mutex, MutexLockFree(t, m)
    PROVE  PriInv'
<1> DEFINE x1 == PutOwner(Kernel, m, t)
           x2 == PutNested(x1, m, 1)
           k == PushMutex(x2, t, m)
           own == Owner(Kernel)
<1>1. /\ NoResched(k) /\ m \in live /\ mtx[m].task = NULL
  BY DEF MutexLockFree, PutOwner, PutNested
<1>2. /\ Good(x1) /\ Alike(Kernel, x1) /\ Others(Kernel, x1, m) /\ x1.mtx[m].task = t
  BY InvHas, NewOwner
<1>3. k = PushMutex(x2, t, m) /\ 1 \in 0..MaxNested
  BY KernelAssumption
<1>4. k.kerr = kerr
  BY KernelIs DEF PutOwner, PutNested, PushMutex
<1> HIDE DEF x1
<1>5. Good(x2) /\ Alike(x1, x2) /\ Others(x1, x2, m) /\ x2.mtx[m].task = x1.mtx[m].task
  BY <1>2, <1>3, NewNested
<1> HIDE DEF x2
<1>6. Good(k) /\ Alike(x2, k) /\ Relinked(x2, k)
  BY <1>3, <1>5, PushMutexOf, PushMutexIs
<1> HIDE DEF k
<1>7. /\ k.live = live /\ k.mtx[m].task = t /\ k \in KState
      /\ \A x \in Mutex \ {m} : k.mtx[x].task = mtx[x].task
  BY <1>2, <1>5, <1>6, GoodState, KernelIs DEF Alike, Others, Relinked
<1>8. \A u \in AllTask : /\ k.tcb[u].state = tcb[u].state /\ k.tcb[u].blk_obj = tcb[u].blk_obj
                         /\ k.tcb[u].prio = tcb[u].prio /\ k.tcb[u].b_prio = tcb[u].b_prio
  BY <1>2, <1>5, <1>6, KernelIs DEF Alike
<1>9. SamePrios(Kernel, k) /\ \A u \in Task : \A x : Waits(k, u, x) <=> Waits(Kernel, u, x)
  BY <1>8, KernelIs, Kinds DEF SamePrios, Waits
<1>10. \A u \in Task : ~Waits(Kernel, u, m)
  BY <1>1, OwnHas, KernelIs DEF Claims, Claim
<1>11. \A x \in Mutex \ {m} : Owner(k)[x] = own[x]
  BY <1>7, KernelIs DEF Owner
<1>12. Even(Kernel, own, NULL)
  BY DEF PriInv
<1> HIDE DEF own
<1>13. INHERIT => Exact(k, Owner(k), {}, NULL)
  BY <1>9, <1>10, <1>11, <1>12, ExactMoved DEF Even
<1>14. Even(k, Owner(k), NULL)
  BY <1>4, <1>12, <1>13, KernelIs DEF Even
<1> QED
  BY <1>1, <1>7, <1>14, Ends, PriNext

LEMMA MutexCreatePri ==
    ASSUME Inv, PriInv, NEW t \in Task, NEW m \in Mutex, MutexCreate(t, m)
    PROVE  PriInv'
<1> DEFINE k == [Kernel EXCEPT !.live = @ \cup {m}, !.mtx[m] = FreeMutex]
<1>1. m \notin live /\ NoResched(k) /\ m \in Obj
  BY Kinds DEF MutexCreate
<1>2. FreeMutex \in MutexRecord /\ FreeMutex.task = NULL
  BY KernelAssumption DEF FreeMutex, MutexRecord
<1>3. /\ k \in KState /\ k.tcb = tcb /\ k.live = live \cup {m} /\ k.mtx[m].task = NULL
      /\ k.kerr = kerr
      /\ \A x \in Mutex \ {m} : k.mtx[x] = mtx[x]
  BY <1>1, <1>2, InvHas, KernelIs DEF KState
<1> HIDE DEF k
<1>4. Owner(k) = Owner(Kernel)
  BY <1>1, <1>3, KernelIs DEF Owner
<1>5. SamePrios(Kernel, k) /\ SameWaits(Kernel, k, Owner(Kernel), NULL)
  BY <1>3, KernelIs DEF SamePrios, SameWaits, Waits
<1>6. Even(k, Owner(k), NULL)
  BY <1>3, <1>4, <1>5, ExactSteady, KernelIs DEF PriInv, Even
<1> QED
  BY <1>1, <1>3, <1>6, Ends, PriNext

-----------------------------------------------------------------------------
(***************************************************************************)
(* krhino_mutex_lock, when the mutex is owned: the caller counts as one of *)
(* those behind the owner before it is on the blocked list.                *)
(***************************************************************************)
LEMMA ExactBehind ==
    ASSUME NEW k \in KState, NEW own, Exact(k, own, {}, NULL), NEW t \in Task, NEW m \in Mutex,
           NEW y \in Task, own[m] = y, k.tcb[y].state # "DELETED",
           NEW V, V = {<<t, m>>}, NEW p, p = k.tcb[t].prio
    PROVE  /\ Exact(k, own, V, y)
           /\ IF p < k.tcb[y].prio THEN Due(k, own, V, y, p)
              ELSE Exact(k, own, V, NULL)
<1>1. ASSUME NEW w \in Task, NEW u \in Task
      PROVE  Ahead(k, own, V, w, u) <=> Ahead(k, own, {}, w, u) \/ (w = t /\ u = y)
  <2>1. \A x \in Mutex : <<w, x>> \in V <=> w = t /\ x = m
    OBVIOUS
  <2> QED
    BY <2>1 DEF Ahead
<1>2. ASSUME NEW u \in Task, k.tcb[u].state # "DELETED"
      PROVE  Due(k, own, {}, u, k.tcb[u].prio)
  BY <1>2, Kinds DEF Exact
<1>3. Exact(k, own, V, y)
  <2> SUFFICES ASSUME NEW u \in Task \ {y}, k.tcb[u].state # "DELETED"
               PROVE  Due(k, own, V, u, k.tcb[u].prio)
    BY DEF Exact
  <2>1. SameBehind(k, k, own, own, {}, V, u)
    BY <1>1 DEF SameBehind
  <2> QED
    BY <1>2, <2>1, DueSame
<1> DEFINE q == k.tcb[y].prio
           b == k.tcb[y].b_prio
<1>4. /\ q <= b
      /\ \A w \in Task : Ahead(k, own, {}, w, y) => q <= k.tcb[w].prio
      /\ q = b \/ \E w \in Task : Ahead(k, own, {}, w, y) /\ k.tcb[w].prio = q
  BY <1>2 DEF Due, Least
<1>5. p \in Int /\ q \in Int /\ b \in Int /\ \A w \in Task : k.tcb[w].prio \in Int
  BY PriosIn, Kinds
<1>6. q = k.tcb[y].prio /\ b = k.tcb[y].b_prio
  OBVIOUS
<1> HIDE DEF q, b
<1>7. CASE p < q
  <2>1. p <= b
    BY <1>4, <1>5, <1>7
  <2>2. ASSUME NEW w \in Task, Ahead(k, own, V, w, y) PROVE p <= k.tcb[w].prio
    <3>1. CASE w = t
      BY <1>5, <3>1
    <3>2. CASE w # t
      <4>1. q <= k.tcb[w].prio
        BY <1>1, <1>4, <2>2, <3>2
      <4> QED
        BY <1>5, <1>7, <4>1
    <3> QED
      BY <3>1, <3>2
  <2>3. Ahead(k, own, V, t, y)
    BY <1>1
  <2>4. Due(k, own, V, y, p)
    BY <1>6, <2>1, <2>2, <2>3 DEF Due, Least
  <2> QED
    BY <1>3, <1>6, <1>7, <2>4
<1>8. CASE ~(p < q)
  <2>1. q <= p
    BY <1>5, <1>8
  <2>2. \A w \in Task : Ahead(k, own, V, w, y) => q <= k.tcb[w].prio
    BY <1>1, <1>4, <2>1
  <2>3. Due(k, own, V, y, q)
    BY <1>1, <1>4, <1>6, <2>2 DEF Due, Least
  <2>4. Exact(k, own, V, NULL)
    BY <1>3, <1>6, <2>3, ExactSame
  <2> QED
    BY <1>3, <1>6, <1>8, <2>4
<1> QED
  BY <1>7, <1>8

LEMMA ExactQueued ==
    ASSUME NEW k, NEW k2, NEW own, NEW t \in Task, NEW m \in Mutex, NEW V, V = {<<t, m>>},
           Exact(k, own, V, NULL), Near(k, k2, t), k.tcb[t].state = "RDY",
           k2.tcb[t].state = "PEND", k2.tcb[t].blk_obj = m,
           k2.tcb[t].prio = k.tcb[t].prio, k2.tcb[t].b_prio = k.tcb[t].b_prio
    PROVE  Exact(k2, own, {}, NULL)
<1>1. \A u \in Task \ {t} : k2.tcb[u] = k.tcb[u]
  BY Kinds DEF Near
<1>2. \A u \in Task : /\ k2.tcb[u].prio = k.tcb[u].prio /\ k2.tcb[u].b_prio = k.tcb[u].b_prio
                      /\ k2.tcb[u].state = "DELETED" <=> k.tcb[u].state = "DELETED"
  BY <1>1
<1>3. ASSUME NEW w \in Task, NEW x \in Mutex
      PROVE  Waits(k2, w, x) <=> Waits(k, w, x) \/ <<w, x>> \in V
  <2>1. <<w, x>> \in V <=> w = t /\ x = m
    OBVIOUS
  <2>2. CASE w = t
    BY <2>1, <2>2, States DEF Waits
  <2>3. CASE w # t
    BY <1>1, <2>1, <2>3 DEF Waits
  <2> QED
    BY <2>2, <2>3
<1>4. ASSUME NEW w \in Task, NEW u \in Task
      PROVE  Ahead(k2, own, {}, w, u) <=> Ahead(k, own, V, w, u)
  BY <1>3 DEF Ahead
<1> SUFFICES ASSUME NEW u \in Task, k2.tcb[u].state # "DELETED"
             PROVE  Due(k2, own, {}, u, k2.tcb[u].prio)
  BY DEF Exact
<1>5. Due(k, own, V, u, k.tcb[u].prio)
  BY <1>2, Kinds DEF Exact
<1>6. SameBehind(k, k2, own, own, V, {}, u)
  BY <1>2, <1>4 DEF SameBehind
<1> QED
  BY <1>2, <1>5, <1>6, DueSame

LEMMA MutexLockPendPri ==
    ASSUME NoOrphans, Inv, OwnInv, PriInv, NEW t \in Task, NEW m \in Mutex, NEW n \in Timeouts,
           MutexLockPend(t, m, n)
    PROVE  PriInv'
<1> DEFINE owner == mtx[m].task
           own == Owner(Kernel)
           p == tcb[t].prio
           k == IF INHERIT /\ p < tcb[owner].prio THEN TaskPriChange(Kernel, owner, p) ELSE Kernel
           k2 == PendToBlkObj(k, m, t, n)
           V == {<<t, m>>}
<1>1. /\ t = active /\ m \in live /\ owner \notin {NULL, t}
      /\ CoreSched(k2, 0) /\ call' = [call EXCEPT ![t] = m]
  BY DEF MutexLockPend, Runs
<1>2. owner \in Task /\ p \in Prio /\ m \in Obj /\ m \notin Sem
  BY <1>1, InvHas, KernelIs, MutexFields, Fields, TcbFields, Kinds
<1>3. CallSet(t, m)
  BY <1>1, <1>2, CallSetOf
<1>4. Level(Kernel)
  BY KernelLevel
<1>5. INHERIT => own[m] = owner /\ Kernel.tcb[owner].state # "DELETED" /\ Exact(Kernel, own, {}, NULL)
  BY <1>1, <1>2, <1>4, OwnHas, KernelIs, Kinds DEF OwnersAlive, Level, Even
<1>6. /\ Lists(Kernel, own, NULL) /\ own \in OwnType /\ Good(Kernel) /\ Waited(Kernel)
      /\ Kernel \in KState /\ V \in SUBSET (Task \X Mutex) /\ Sound(Kernel, call)
      /\ Kernel.tcb[t].state = "RDY" /\ m \in Kernel.live /\ kerr = "NONE"
  BY <1>1, <1>4, InvHas, OwnHas, KernelIs DEF Level, Even
<1>7. /\ p = Kernel.tcb[t].prio /\ Kernel.tcb[owner].prio = tcb[owner].prio
      /\ V = {<<t, m>>} /\ own = Owner(Kernel) /\ k2 = PendToBlkObj(k, m, t, n)
  BY KernelIs
<1>8. CASE INHERIT /\ p < tcb[owner].prio
  <2>1. k = TaskPriChange(Kernel, owner, p)
    BY <1>8
  <2> HIDE DEF k, own, V, k2, owner, p
  <2>2. Good(k) /\ Reprio(Kernel, k)
    BY <1>2, <1>6, <2>1, TaskPriChangeOf
  <2> DEFINE s == [k |-> Kernel, task |-> owner, pri |-> p]
  <2>3. s.k = Kernel /\ s.task = owner /\ s.pri = p
    BY PriLoopIs
  <2>4. Exact(Kernel, own, V, owner) /\ Due(Kernel, own, V, owner, p)
    BY <1>2, <1>5, <1>6, <1>7, <1>8, ExactBehind
  <2>5. \A v, x : <<v, x>> \in V => v = t
    BY <1>7
  <2>6. Chain(own, V, s)
    <3> HIDE DEF s
    <3> QED
      BY <1>2, <1>6, <1>7, <1>8, <2>3, <2>4, <2>5 DEF Chain
  <2>7. k.kerr = Kernel.kerr /\ Exact(k, own, V, NULL)
    BY <1>2, <1>5, <1>6, <1>8, <2>1, <2>6, TaskPriChangeIs
  <2>8. Onward(Kernel, k) /\ Owner(k) = own
    BY <1>6, <1>7, <1>8, <2>2, ReprioOnward, ReprioKeeps
  <2>9. Sound(k, call)
    BY <1>6, <2>2, <2>8, SoundOnward DEF Sound
  <2>10. k.tcb[t].state = "RDY" /\ m \in k.live
    BY <1>6, <2>8, Kinds DEF Onward, Softer
  <2>11. call'[t] = m /\ \A u \in Task \ {t} : call'[u] = call[u]
    BY <1>3 DEF CallSet
  <2>12. /\ Sound(k2, call') /\ Near(k, k2, t)
         /\ k2.tcb[t].state = "PEND" /\ k2.tcb[t].blk_obj = m
         /\ k2.tcb[t].prio = k.tcb[t].prio /\ k2.tcb[t].b_prio = k.tcb[t].b_prio
    BY <1>2, <1>7, <2>9, <2>10, <2>11, Blocked
  <2>13. Exact(k2, own, {}, NULL)
    BY <1>7, <2>7, <2>10, <2>12, ExactQueued
  <2>14. Owner(k2) = Owner(k) /\ k2.kerr = k.kerr
    BY <2>12, OwnerSame DEF Near
  <2>15. k2 \in KState /\ Become(k2)
    BY <1>1, <2>12, GoodState DEF Sound, SoundBut, CoreSched
  <2>16. Even(k2, Owner(k2), NULL)
    BY <1>6, <2>7, <2>8, <2>13, <2>14, KernelIs DEF Even
  <2> QED
    BY <2>15, <2>16, PriNext
<1>9. CASE ~(INHERIT /\ p < tcb[owner].prio)
  <2>1. k = Kernel
    BY <1>9
  <2> HIDE DEF k, own, V, k2, owner, p
  <2>2. INHERIT => Exact(Kernel, own, V, NULL)
    BY <1>2, <1>5, <1>6, <1>7, <1>9, ExactBehind
  <2>3. call'[t] = m /\ \A u \in Task \ {t} : call'[u] = call[u]
    BY <1>3 DEF CallSet
  <2>4. /\ Sound(k2, call') /\ Near(Kernel, k2, t)
        /\ k2.tcb[t].state = "PEND" /\ k2.tcb[t].blk_obj = m
        /\ k2.tcb[t].prio = Kernel.tcb[t].prio /\ k2.tcb[t].b_prio = Kernel.tcb[t].b_prio
    BY <1>2, <1>6, <1>7, <2>1, <2>3, Blocked
  <2>5. INHERIT => Exact(k2, own, {}, NULL)
    BY <1>6, <1>7, <2>2, <2>4, ExactQueued
  <2>6. Owner(k2) = own /\ k2.kerr = Kernel.kerr
    BY <1>7, <2>4, OwnerSame DEF Near
  <2>7. k2 \in KState /\ Become(k2)
    BY <1>1, <2>4, GoodState DEF Sound, SoundBut, CoreSched
  <2>8. Even(k2, Owner(k2), NULL)
    BY <1>6, <2>5, <2>6, KernelIs DEF Even
  <2> QED
    BY <2>7, <2>8, PriNext
<1> QED
  BY <1>8, <1>9

(* The owner of a mutex, or what is left of it, is recorded. *)
LEMMA SameTcbEven ==
    ASSUME NEW k, NEW own, Even(k, own, NULL), NEW k2, k2.tcb = k.tcb, k2.kerr = k.kerr
    PROVE  Even(k2, own, NULL)
<1>1. SamePrios(k, k2) /\ SameWaits(k, k2, own, NULL)
  BY DEF SamePrios, SameWaits, Waits
<1> QED
  BY <1>1, ExactSteady DEF Even

(* krhino_mutex_unlock.  When nobody waits the owner keeps its place among *)
(* the ready tasks.                                                        *)
LEMMA MutexUnlockPri ==
    ASSUME NoOrphans, Inv, OwnInv, PriInv, NEW t \in Task, NEW m \in Mutex, MutexUnlock(t, m)
    PROVE  PriInv' /\ (INHERIT /\ waitq[m] = <<>> => ready' = ready)
<1> DEFINE down == PutNested(Kernel, m, 0)
           k == MutexRelease(down, t, m)
           free == PutOwner(k, m, NULL)
           once == PutNested(HandOver(k, m), m, 1)
           own == Owner(Kernel)
           own2 == Reowned(own, m, NULL)
<1>1. /\ IF waitq[m] = <<>> THEN NoResched(free) ELSE Resched(once)
      /\ t = active /\ m \in live /\ mtx[m].task = t
  BY DEF MutexUnlock, Runs, PutNested, PutOwner
<1>2. 0 \in 0..MaxNested /\ 1 \in 0..MaxNested /\ m \in Obj
  BY Kinds, KernelAssumption
<1>3. /\ Good(down) /\ Alike(Kernel, down) /\ down.tcb = tcb /\ Others(Kernel, down, m)
      /\ down.mtx[m].next = mtx[m].next /\ down.mtx[m].task = mtx[m].task
  BY <1>2, InvHas, NewNested, KernelIs
<1>4. down.live = live /\ down.ready = ready
  BY <1>3, KernelIs DEF Alike
<1>5. down.kerr = kerr
  BY KernelIs DEF PutNested
<1>6. free = PutOwner(k, m, NULL) /\ k = MutexRelease(down, t, m)
      /\ own = Owner(Kernel) /\ own2 = Reowned(own, m, NULL)
  OBVIOUS
<1>7. Level(Kernel) /\ own \in OwnType
  BY KernelLevel, OwnHas
<1> HIDE DEF down
<1>8. Lists(down, own, NULL)
  <2>1. \A x \in Mutex : down.mtx[x].next = Kernel.mtx[x].next
    BY <1>3, KernelIs DEF Others
  <2>2. down.tcb = Kernel.tcb
    BY <1>3, KernelIs
  <2> HIDE DEF own
  <2> QED
    BY <1>6, <1>7, <2>1, <2>2, ListsSame DEF Level
<1>9. Waited(down) /\ Even(down, own, NULL)
  <2>1. \A x \in Mutex : down.mtx[x].task = mtx[x].task
    BY <1>3, KernelIs DEF Others
  <2>2. Steady(Kernel, down)
    BY <1>3, <1>4, <1>5, <2>1, KernelIs DEF Steady, Waits
  <2>3. Even(Kernel, Owner(Kernel), NULL) /\ Waited(Kernel)
    BY <1>7 DEF Level
  <2>4. Owner(down) = Owner(Kernel) /\ Even(down, Owner(down), NULL) /\ Waited(down)
    BY <2>2, <2>3, SteadyEven
  <2> QED
    BY <2>4
<1>10. down.tcb[t].state = "RDY" /\ (INHERIT => own[m] = t)
  BY <1>1, <1>3, InvHas, OwnHas
<1> HIDE DEF own, own2, k, free
<1>11. /\ Good(k) /\ Even(k, own2, NULL) /\ Given(down, t, m).ready = down.ready
       /\ INHERIT /\ (\A u \in Task : ~Waits(down, u, m)) => k = Given(down, t, m)
  BY <1>3, <1>6, <1>7, <1>8, <1>9, <1>10, ReleaseEven
<1>12. /\ k.live = down.live /\ SameOwners(down, k)
  BY <1>3, <1>6, <1>7, <1>8, <1>10, ReleaseIs
<1>13. \A x \in Mutex \ {m} : k.mtx[x].task = Kernel.mtx[x].task
  BY <1>3, <1>12, KernelIs DEF SameOwners, Others
<1>14. /\ own2 \in OwnType /\ (~INHERIT => own2 = Owner(Kernel)) /\ own2[m] = NULL
       /\ \A x \in Mutex \ {m} : own2[x] = Owner(Kernel)[x]
  BY <1>6, <1>7, OwnHas DEF Reowned, OwnType
<1>15. m \in Kernel.live /\ k.live = Kernel.live
  BY <1>1, <1>4, <1>12, KernelIs
<1>16. CASE waitq[m] = <<>>
  <2>1. NoResched(free)
    BY <1>1, <1>16
  <2>2. Good(free) /\ Alike(k, free) /\ free.tcb = k.tcb /\ Others(k, free, m) /\ free.mtx[m].task = NULL
    BY <1>6, <1>11, NewOwner
  <2>3. free.kerr = k.kerr /\ free.ready = k.ready
    BY <1>6 DEF PutOwner
  <2>4. Owner(free) = Reowned(own, m, NULL)
    <3>1. free.live = Kernel.live /\ \A x \in Mutex \ {m} : free.mtx[x].task = Kernel.mtx[x].task
      BY <1>13, <1>15, <2>2 DEF Alike, Others
    <3> QED
      BY <1>6, <1>7, <2>2, <3>1, ReownedIs, InvHas
  <2>5. Even(free, Owner(free), NULL)
    BY <1>6, <1>11, <2>2, <2>3, <2>4, SameTcbEven
  <2>6. free \in KState /\ Become(free)
    BY <2>1, <2>2, GoodState, Ends
  <2>7. PriInv'
    BY <2>5, <2>6, PriNext
  <2>8. ASSUME INHERIT PROVE ready' = ready
    <3>1. \A u \in Task : ~Waits(down, u, m)
      BY <1>2, <1>3, <1>16, Unwaited DEF Waits
    <3>2. k.ready = ready
      BY <1>4, <1>11, <2>8, <3>1
    <3> QED
      BY <2>3, <2>6, <3>2 DEF Become
  <2> QED
    BY <2>7, <2>8
<1>17. CASE waitq[m] # <<>>
  <2> DEFINE v == Head(k.waitq[m])
             x == HandOver(k, m)
  <2>1. Resched(once) /\ once = PutNested(x, m, 1)
    BY <1>1, <1>17
  <2>2. k.waitq[m] # <<>>
    <3>1. PICK u \in Task : Waits(Kernel, u, m)
      BY <1>2, <1>17, InvHas, KernelIs, NoWaiter
    <3>2. Placed(down, k)
      BY <1>3, <1>6, Kinds, MutexReleaseOf
    <3>3. Waits(k, u, m)
      BY <1>3, <3>1, <3>2, KernelIs, Kinds DEF Waits, Placed
    <3> QED
      BY <1>2, <1>11, <3>3, NoWaiter
  <2>3. Lists(k, own2, NULL)
    BY <1>3, <1>6, <1>7, <1>8, <1>10, ReleaseIs
  <2>4. v = Head(k.waitq[m]) /\ x = HandOver(k, m)
    OBVIOUS
  <2> HIDE DEF v, x, once
  <2>5. v \in Task /\ Good(x) /\ Passed(k, x, m, v)
    BY <1>11, <1>14, <2>2, <2>3, <2>4, HandOverIs
  <2>6. Even(x, Reowned(own2, m, v), NULL)
    BY <1>11, <1>14, <2>2, <2>4, <2>5, Kinds, HandOverEven
  <2>7. /\ Good(once) /\ Alike(x, once) /\ once.tcb = x.tcb /\ Others(x, once, m)
        /\ once.mtx[m].task = x.mtx[m].task
    BY <1>2, <2>1, <2>5, NewNested
  <2>8. once.kerr = x.kerr
    BY <2>1 DEF PutNested
  <2>9. Owner(once) = Reowned(own2, m, v)
    <3>1. /\ once.live = Kernel.live /\ once.mtx[m].task = v
          /\ \A y \in Mutex \ {m} : once.mtx[y].task = Kernel.mtx[y].task
      BY <1>13, <1>15, <2>5, <2>7 DEF Alike, Others, Passed
    <3> QED
      BY <1>14, <1>15, <3>1, ReownedIs, InvHas
  <2>10. Even(once, Owner(once), NULL)
    BY <2>6, <2>7, <2>8, <2>9, SameTcbEven
  <2>11. once \in KState /\ Become(once)
    BY <2>1, <2>7, GoodState, Ends
  <2>12. PriInv'
    BY <2>10, <2>11, PriNext
  <2> QED
    BY <1>17, <2>12
<1> QED
  BY <1>16, <1>17

(* krhino_mutex_del: the owner gives the mutex up, and those who wait are  *)
(* woken when it has none.                                                 *)
LEMMA MutexDelPri ==
    ASSUME NoOrphans, Inv, OwnInv, PriInv, NEW t \in Task, NEW m \in Mutex, MutexDel(t, m)
    PROVE  PriInv'
<1> DEFINE dead == [Kernel EXCEPT !.live = @ \ {m}]
           owner == mtx[m].task
           k == IF owner = NULL THEN dead ELSE MutexRelease(dead, owner, m)
           k2 == PendRmAll(k, m)
           own == Owner(Kernel)
           own2 == Reowned(own, m, NULL)
<1>1. Resched(k2)
  BY DEF MutexDel
<1>2. owner \in Task \cup {NULL} /\ m \in Obj /\ m \in live
  BY InvHas, KernelIs, MutexFields, Kinds DEF MutexDel
<1>3. Good(dead)
  BY <1>2, DeadObject DEF SoundBut
<1>4. dead.live = live \ {m} /\ dead.mtx = mtx /\ dead.tcb = tcb /\ dead.kerr = kerr
  BY KernelIs DEF Kernel
<1>5. /\ own \in OwnType /\ Lists(Kernel, own, NULL) /\ own = Owner(Kernel)
      /\ own[m] = IF INHERIT THEN owner ELSE NULL
  BY <1>2, OwnHas
<1>6. owner # NULL => k = MutexRelease(dead, owner, m)
  OBVIOUS
<1>7. owner = NULL => k = dead
  OBVIOUS
<1>8. own2 = Reowned(own, m, NULL) /\ k2 = PendRmAll(k, m) /\ owner = mtx[m].task
  OBVIOUS
<1>9. Level(Kernel)
  BY KernelLevel
<1> HIDE DEF dead, own, own2, k, k2, owner
<1>10. Lists(dead, own, NULL)
  BY <1>4, <1>5, ListsSame, KernelIs
<1>11. Even(dead, own, NULL)
  <2>1. Even(Kernel, own, NULL)
    BY <1>5, <1>9 DEF Level
  <2> QED
    BY <1>4, <2>1, SameTcbEven, KernelIs
<1>12. Waited(dead)
  <2>1. Waited(Kernel)
    BY <1>9 DEF Level
  <2> QED
    BY <1>4, <2>1, WaitedLess, KernelIs DEF Waits
<1>13. owner # NULL => dead.tcb[owner].state # "DELETED"
  <2> SUFFICES ASSUME owner # NULL PROVE dead.tcb[owner].state # "DELETED"
    OBVIOUS
  <2>1. CASE INHERIT
    BY <1>4, <1>5, <2>1, OwnHas, KernelIs DEF OwnersAlive
  <2>2. CASE "task_del" \notin Calls
    BY <1>2, <1>4, <2>2, OwnHas, KernelIs DEF Claims, Claim
  <2> QED
    BY <2>1, <2>2 DEF NoOrphans
<1>14. Owner(dead) = own2
  <2>1. \A x \in Mutex : Owner(dead)[x] = IF x = m THEN NULL ELSE own[x]
    BY <1>4, <1>5, OwnHas DEF Owner
  <2>2. Owner(dead) = [x \in Mutex |-> IF x = m THEN NULL ELSE own[x]]
    BY <2>1 DEF Owner
  <2>3. own2 = [x \in Mutex |-> IF x = m THEN NULL ELSE own[x]]
    BY <1>5, <1>8 DEF Reowned, OwnType
  <2> QED
    BY <2>2, <2>3
<1> DEFINE done == /\ Good(k) /\ Even(k, own2, NULL) /\ Owner(k) = own2
<1>15. done
  <2>1. CASE owner = NULL
    <3>1. own2 = own
      BY <1>5, <1>8, <2>1 DEF Reowned, OwnType
    <3> QED
      BY <1>3, <1>7, <1>11, <1>14, <2>1, <3>1
  <2>2. CASE owner # NULL
    <3>1. owner \in Task
      BY <1>2, <2>2
    <3>2. Good(k) /\ Even(k, own2, NULL)
      BY <1>3, <1>5, <1>6, <1>8, <1>10, <1>11, <1>12, <1>13, <1>14, <2>2, <3>1, ReleaseEven
    <3>3. k.live = dead.live /\ SameOwners(dead, k)
      BY <1>3, <1>5, <1>6, <1>10, <1>13, <2>2, <3>1, ReleaseIs
    <3>4. Owner(k) = Owner(dead)
      BY <3>3, OwnerSame DEF SameOwners
    <3> QED
      BY <1>14, <3>2, <3>4
  <2> QED
    BY <2>1, <2>2
<1> HIDE DEF done
<1>16. Good(k) /\ Even(k, Owner(k), NULL) /\ Owner(k)[m] = NULL
  BY <1>5, <1>8, <1>15 DEF done, Reowned, OwnType
<1>17. Good(k2) /\ Onward(k, k2) /\ k2.mtx = k.mtx /\ Rouses(k, k2, m)
  BY <1>2, <1>8, <1>16, PendRmAllOf
<1>18. Become(k2)
  BY <1>1, Ends
<1> QED
  BY <1>2, <1>16, <1>17, <1>18, RouseNext

-----------------------------------------------------------------------------
(* krhino_task_pri_change: the loop starts with the better of the new base *)
(* priority and what u inherits, which is what u is due.                   *)
LEMMA ExactBased ==
    ASSUME NEW k \in KState, NEW own, Exact(k, own, {}, NULL), NEW u \in Task, NEW x,
           \A w \in Task \ {u} : x.tcb[w] = k.tcb[w],
           x.tcb[u].state = k.tcb[u].state, x.tcb[u].prio = k.tcb[u].prio,
           x.tcb[u].blk_obj = k.tcb[u].blk_obj,
           NEW q, Least(k, own, {}, u, x.tcb[u].b_prio, q)
    PROVE  Exact(x, own, {}, u) /\ Due(x, own, {}, u, q)
<1>1. ASSUME NEW w \in Task PROVE x.tcb[w].prio = k.tcb[w].prio /\ x.tcb[w].state = k.tcb[w].state
  BY DEF Waits
<1>2. ASSUME NEW w \in Task, NEW y \in Task
      PROVE  Ahead(x, own, {}, w, y) <=> Ahead(k, own, {}, w, y)
  BY DEF Waits, Ahead
<1>3. Exact(x, own, {}, u)
  <2> SUFFICES ASSUME NEW t \in Task \ {u}, x.tcb[t].state # "DELETED"
               PROVE  Due(x, own, {}, t, x.tcb[t].prio)
    BY DEF Exact
  <2>1. Due(k, own, {}, t, k.tcb[t].prio)
    BY Kinds DEF Exact
  <2>2. SameBehind(k, x, own, own, {}, {}, t)
    BY <1>1, <1>2 DEF SameBehind
  <2> QED
    BY <2>1, <2>2, DueSame
<1>4. Due(x, own, {}, u, q)
  <2> DEFINE b == x.tcb[u].b_prio
  <2>1. /\ q <= b
        /\ \A w \in Task : Ahead(k, own, {}, w, u) => q <= k.tcb[w].prio
        /\ q = b \/ \E w \in Task : Ahead(k, own, {}, w, u) /\ k.tcb[w].prio = q
    BY DEF Least
  <2>2. b = x.tcb[u].b_prio
    OBVIOUS
  <2> HIDE DEF b
  <2> QED
    BY <1>1, <1>2, <2>1, <2>2 DEF Due, Least
<1> QED
  BY <1>3, <1>4

LEMMA TaskPriChangeCallPri ==
    ASSUME PriInv, NEW t \in Task, NEW u \in Task, NEW p \in Prio, TaskPriChangeCall(t, u, p)
    PROVE  PriInv'
BY SameNext DEF TaskPriChangeCall, kernelVars

LEMMA ChangeLivePri ==
    ASSUME NoOrphans, Inv, ChangeInv, OwnInv, PriInv, NEW t \in Task, TaskPriChangeMake(t),
           Alive(change[t][1])
    PROVE  PriInv' /\ CoreSched(Kernel', sched_lock)
<1> DEFINE u == change[t][1]
           p == change[t][2]
<1>0. u \in Task /\ p \in Prio /\ tcb[u].state # "DELETED"
  BY ChangeHas DEF TaskPriChangeMake, Alive
<1> DEFINE r == [tcb[u] EXCEPT !.b_prio = p]
           x == PutTcb(Kernel, u, r)
           limit == MutexPriLimit(Kernel, u, p)
           k == TaskPriChange(x, u, limit)
           own == Owner(Kernel)
<1>1. /\ IF k.kerr # "NONE" THEN NoResched(k) ELSE CoreSched(k, sched_lock)
      /\ tcb[u].state # "DELETED"
  BY <1>0 DEF TaskPriChangeMake, PutTcb, Kernel
<1> HIDE DEF u, p
<1>2. p \in Prio /\ limit \in Prio
  BY <1>0, InvHas, PrioBounds
<1>3. tcb[u] \in Tcb /\ u \in AllTask
  BY <1>0, TcbHas, Kinds
<1>4. /\ r \in Tcb /\ r.state = tcb[u].state /\ r.prio = tcb[u].prio /\ r.b_prio = p
      /\ r.blk_obj = tcb[u].blk_obj /\ r.blk_state = tcb[u].blk_state
      /\ r.mutex_list = tcb[u].mutex_list
  BY <1>2, <1>3 DEF Tcb
<1>5. INHERIT => limit = Min({p} \cup HeadPrios(Kernel, u))
  BY DEF MutexPriLimit
<1> HIDE DEF r
<1>6. SameLists(Kernel.tcb[u], r) /\ Kernel.tcb[u] = tcb[u]
  BY <1>4, KernelIs DEF SameLists
<1>7. /\ Good(x) /\ Near(Kernel, x, u) /\ x.tcb[u] = r
  BY <1>0, <1>4, <1>6, InvHas, TcbSet
<1>8. k = TaskPriChange(x, u, limit) /\ own = Owner(Kernel)
  OBVIOUS
<1> HIDE DEF x, limit, k, own
<1>9. /\ x.live = Kernel.live /\ x.mtx = Kernel.mtx /\ x.kerr = Kernel.kerr
      /\ \A w \in Task \ {u} : x.tcb[w] = Kernel.tcb[w]
  BY <1>7, Kinds DEF Near
<1>10. Level(Kernel) /\ own \in OwnType /\ Kernel \in KState
  BY <1>8, KernelLevel, OwnHas, InvHas
<1>11. Waited(x) /\ Lists(x, own, NULL) /\ Owner(x) = own
  <2>1. \A w \in Task : \A m : Waits(x, w, m) <=> Waits(Kernel, w, m)
    BY <1>4, <1>6, <1>7, <1>9 DEF Waits
  <2>2. \A w \in Task : /\ x.tcb[w].state = Kernel.tcb[w].state
                        /\ x.tcb[w].mutex_list = Kernel.tcb[w].mutex_list
    BY <1>4, <1>6, <1>7, <1>9
  <2>3. Waited(x)
    BY <1>9, <1>10, <2>1, <2>2, WaitedLess DEF Level
  <2>4. Lists(Kernel, own, NULL)
    BY <1>8, <1>10 DEF Level
  <2>5. Lists(x, own, NULL)
    BY <1>9, <2>2, <2>4, ListsSame
  <2> QED
    BY <1>8, <1>9, <2>3, <2>5, OwnerSame
<1> DEFINE s == [k |-> x, task |-> u, pri |-> limit]
<1>12. s.k = x /\ s.task = u /\ s.pri = limit
  BY PriLoopIs
<1>13. ASSUME INHERIT PROVE Chain(own, {}, s)
  <2>1. Linked(Kernel, Kernel.tcb[u].mutex_list, Mine(own, u)) /\ Exact(Kernel, own, {}, NULL)
    BY <1>0, <1>1, <1>6, <1>8, <1>10, <1>13, Kinds DEF Level, Lists, Even
  <2>2. Least(Kernel, own, {}, u, p, limit)
    BY <1>0, <1>2, <1>5, <1>10, <1>13, <2>1, LeastPrio DEF Level
  <2>3. Exact(x, own, {}, u) /\ Due(x, own, {}, u, limit)
    BY <1>0, <1>4, <1>6, <1>7, <1>9, <1>10, <2>1, <2>2, ExactBased
  <2> HIDE DEF s
  <2> QED
    BY <1>11, <1>12, <2>3 DEF Chain
<1>14. x.tcb[u].state # "DELETED"
  BY <1>1, <1>4, <1>7
<1>15. k.kerr = x.kerr /\ (INHERIT => Exact(k, own, {}, NULL))
  BY <1>0, <1>2, <1>7, <1>8, <1>10, <1>11, <1>13, <1>14, TaskPriChangeIs
<1>16. kerr = "NONE"
  BY <1>10, KernelIs DEF Level, Even
<1>17. CoreSched(k, sched_lock)
  BY <1>1, <1>9, <1>15, <1>16, KernelIs
<1>18. Good(k) /\ Reprio(x, k) /\ x \in KState
  BY <1>0, <1>2, <1>7, <1>8, TaskPriChangeOf, GoodState
<1>19. Owner(k) = own
  BY <1>11, <1>18, ReprioKeeps
<1>20. Even(k, Owner(k), NULL)
  BY <1>9, <1>15, <1>16, <1>19, KernelIs DEF Even
<1>21. k \in KState /\ Become(k)
  BY <1>17, <1>18, GoodState DEF CoreSched
<1>22. Kernel' = k
  BY <1>21, BecomeOf
<1> QED
  BY <1>17, <1>20, <1>21, <1>22, PriNext

(* The task was deleted after the check: the system stops, or goes on as   *)
(* it was.                                                                 *)
LEMMA ChangeDead ==
    ASSUME Inv, ChangeInv, OwnInv, PriInv, NEW t \in Task, TaskPriChangeMake(t),
           ~Alive(change[t][1])
    PROVE  /\ StopInv'
           /\ \/ CoreSched(Kernel', sched_lock)
              \/ active' = active /\ sched_lock' = sched_lock /\ ready' = ready
<1> DEFINE u == change[t][1]
           p == change[t][2]
<1>0. /\ u \in Task /\ p \in Prio /\ tcb[u].state = "DELETED" /\ change[t] # NULL
      /\ t = active /\ Up
  BY ChangeHas DEF TaskPriChangeMake, Alive
<1> DEFINE r == [tcb[u] EXCEPT !.b_prio = p]
           x == PutTcb(Kernel, u, r)
           limit == MutexPriLimit(Kernel, u, p)
           k == TaskPriChange(x, u, limit)
           own == Owner(Kernel)
<1>1. IF k.kerr # "NONE" THEN NoResched(k) ELSE CoreSched(k, sched_lock)
  BY DEF TaskPriChangeMake, PutTcb, Kernel
<1>2. u = change[t][1]
  OBVIOUS
<1> HIDE DEF u, p
<1>3. limit \in Prio
  BY <1>0, InvHas, PrioBounds
<1>4. tcb[u] \in Tcb /\ u \in AllTask
  BY <1>0, TcbHas, Kinds
<1>5. /\ r \in Tcb /\ r.state = tcb[u].state /\ r.prio = tcb[u].prio
      /\ r.blk_obj = tcb[u].blk_obj /\ r.blk_state = tcb[u].blk_state
  BY <1>0, <1>4 DEF Tcb
<1> HIDE DEF r, limit
<1>6. SameLists(Kernel.tcb[u], r) /\ Kernel.tcb[u] = tcb[u]
  BY <1>5, KernelIs DEF SameLists
<1>7. Good(x) /\ Near(Kernel, x, u) /\ x.tcb[u] = r /\ x.ready = Kernel.ready
  BY <1>0, <1>5, <1>6, InvHas, TcbSet
<1>8. own = Owner(Kernel)
  OBVIOUS
<1> HIDE DEF x, own
<1>9. k = x \/ k = [x EXCEPT !.kerr = "INV_TASK_STATE"]
  BY <1>0, <1>3, <1>5, <1>7, TaskPriChangeDead
<1> HIDE DEF k
<1>10. x \in KState
  BY <1>7, GoodState
<1>11. Good(k) /\ k.tcb = x.tcb /\ k.mtx = x.mtx /\ k.live = x.live /\ k.ready = x.ready
  <2>1. CASE k = x
    BY <1>7, <2>1
  <2>2. CASE k = [x EXCEPT !.kerr = "INV_TASK_STATE"]
    BY <1>7, <2>2, ErrorOf DEF KernelError, Alike
  <2> QED
    BY <1>9, <2>1, <2>2
<1>12. /\ k.mtx = Kernel.mtx /\ k.live = Kernel.live /\ k.ready = ready
       /\ \A w \in Task \ {u} : k.tcb[w] = Kernel.tcb[w]
       /\ k.tcb[u] = r /\ Owner(k) = own
  BY <1>7, <1>8, <1>11, KernelIs, Kinds, OwnerSame DEF Near
<1>13. \A w, z \in Task : Ahead(k, own, {}, w, z) <=> Ahead(Kernel, own, {}, w, z)
  <2>1. \A w \in Task, m \in Mutex : Waits(k, w, m) <=> Waits(Kernel, w, m)
    BY <1>5, <1>6, <1>12 DEF Waits
  <2> QED
    BY <2>1 DEF Ahead
<1>14. \A w \in Task : k.tcb[w].prio = Kernel.tcb[w].prio
  BY <1>5, <1>6, <1>12
<1>15. ASSUME INHERIT PROVE Exact(k, own, {}, NULL)
  <2> SUFFICES ASSUME NEW y \in Task \ {NULL}, k.tcb[y].state # "DELETED"
               PROVE  Due(k, own, {}, y, k.tcb[y].prio)
    BY DEF Exact
  <2>1. y # u
    BY <1>0, <1>5, <1>12
  <2>2. k.tcb[y] = Kernel.tcb[y]
    BY <1>12, <2>1
  <2>3. Due(Kernel, own, {}, y, k.tcb[y].prio)
    BY <1>8, <1>15, <2>2 DEF PriInv, Even, Exact
  <2>4. SameBehind(Kernel, k, own, own, {}, {}, y)
    BY <1>13, <1>14 DEF SameBehind
  <2> QED
    BY <2>2, <2>3, <2>4, DueSame
<1>16. INHERIT => Exact(k, Owner(k), {}, NULL)
  BY <1>12, <1>15
<1>17. k \in KState /\ Become(k)
  BY <1>1, <1>11, GoodState DEF NoResched, CoreSched
<1>18. Kernel' = k /\ kerr' = k.kerr /\ tcb' = k.tcb /\ ready' = k.ready
  BY <1>17, BecomeOf DEF Become
<1>19. CASE k.kerr = "NONE"
  <2>1. StopsOnlyOnMisuse'
    BY <1>18, <1>19 DEF StopsOnlyOnMisuse
  <2> QED
    BY <1>1, <1>16, <1>17, <1>18, <1>19, <2>1, StopNext
<1>20. CASE k.kerr # "NONE"
  <2>1. NoResched(k)
    BY <1>1, <1>20
  <2>2. k.kerr = "INV_TASK_STATE"
    <3>1. x.kerr = "NONE"
      BY <1>0, <1>7, KernelIs DEF Near, Up
    <3>2. k = [x EXCEPT !.kerr = "INV_TASK_STATE"]
      BY <1>9, <1>20, <3>1
    <3> QED
      BY <1>10, <3>2 DEF KState
  <2>3. change' = change /\ active' = active /\ sched_lock' = sched_lock
    BY <2>1 DEF NoResched
  <2>4. tcb'[u].state = "DELETED"
    BY <1>0, <1>5, <1>12, <1>18
  <2>5. StopsOnlyOnMisuse'
    BY <1>0, <1>2, <1>18, <2>2, <2>3, <2>4, Kinds DEF StopsOnlyOnMisuse, Alive
  <2> QED
    BY <1>12, <1>16, <1>17, <1>18, <2>3, <2>5, StopNext
<1> QED
  BY <1>19, <1>20

LEMMA TaskPriChangeMakePri ==
    ASSUME NoOrphans, Inv, ChangeInv, OwnInv, PriInv, NEW t \in Task, TaskPriChangeMake(t)
    PROVE  /\ StopInv'
           /\ \/ CoreSched(Kernel', sched_lock)
              \/ active' = active /\ sched_lock' = sched_lock /\ ready' = ready
<1>1. (PriInv => StopInv)'
  BY PriStop, PTL
<1> QED
  BY <1>1, ChangeLivePri, ChangeDead

(* The lock that its count cannot hold. *)
LEMMA MutexLockOverflowPri ==
    ASSUME Inv, PriInv, NEW t \in Task, NEW m \in Mutex, MutexLockOverflow(t, m)
    PROVE  StopInv'
<1> DEFINE k == [Kernel EXCEPT !.kerr = "MUTEX_NESTED_OVF"]
<1>1. NoResched(k) /\ mtx[m].task = t /\ mtx[m].nested = MaxNested /\ t = active
  BY DEF MutexLockOverflow, Runs
<1>2. Good(k) /\ k.tcb = Kernel.tcb /\ k.mtx = Kernel.mtx /\ k.live = Kernel.live
  BY InvHas, ErrorOf DEF KernelError, Alike
<1>3. k.kerr = "MUTEX_NESTED_OVF"
  BY KernelIs DEF Kernel
<1> HIDE DEF k
<1>4. k \in KState /\ Become(k) /\ active' = active /\ kerr' = k.kerr /\ mtx' = k.mtx
  BY <1>1, <1>2, GoodState DEF NoResched, Become
<1>5. Owner(k) = Owner(Kernel)
  BY <1>2, OwnerSame
<1>6. INHERIT => Exact(k, Owner(k), {}, NULL)
  <2>1. INHERIT => Exact(Kernel, Owner(Kernel), {}, NULL)
    BY DEF PriInv, Even
  <2> QED
    BY <1>2, <1>5, <2>1 DEF Exact, Due, Least, Ahead, Waits
<1>7. StopsOnlyOnMisuse'
  BY <1>1, <1>2, <1>3, <1>4, KernelIs DEF StopsOnlyOnMisuse
<1> QED
  BY <1>4, <1>6, <1>7, StopNext

(* krhino_task_del frees the mutexes of the task before it goes. *)
LEMMA TaskDelPri ==
    ASSUME NoOrphans, Inv, OwnInv, PriInv, NEW t \in Task, NEW u \in Task, "task_del" \in Calls,
           TaskDel(t, u)
    PROVE  PriInv'
<1> DEFINE x == TaskMutexFree(Kernel, u)
           k == TaskRemove(x, u)
<1>1. Become(k) /\ tcb[u].state # "DELETED" /\ ~Strict /\ INHERIT
  BY DEF TaskDel, CoreSched, Alive, Strict, NoOrphans
<1>2. x = TaskMutexFree(Kernel, u) /\ Good(Kernel) /\ Own(Kernel, call)
      /\ Kernel.tcb[u].state # "DELETED"
  BY <1>1, InvHas, OwnHas, KernelIs
<1> HIDE DEF x
<1>3. Good(x) /\ Onward(Kernel, x) /\ x \in KState
  BY <1>2, TaskMutexFreeOf, GoodState
<1>4. /\ OwnersAlive(x) /\ Claims(x, call)
      /\ Lists(x, Owner(x), u) /\ Mine(Owner(x), u) = {}
  BY <1>1, <1>2, TaskMutexFreeIs
<1>5. Even(x, Owner(x), u)
  BY <1>1, <1>2, TaskMutexFreeEven DEF PriInv
<1>6. x.tcb[u].state # "DELETED"
  BY <1>2, <1>3, Kinds DEF Onward, Softer
<1>7. Good(k) /\ Parted(x, k, u) /\ Departs(x, k, u)
  BY <1>3, <1>6, TaskRemoveOf
<1> HIDE DEF k
<1>8. k \in KState /\ k.live = x.live /\ k.tcb[u].state = "DELETED"
  BY <1>7, GoodState DEF Parted
<1>9. \A m \in Mutex \cap x.live : Owner(x)[m] = x.mtx[m].task
                                    /\ x.mtx[m].task \in Task \cup {NULL}
  <2>1. Owner(x) \in OwnType
    BY <1>3, OwnerType
  <2> QED
    BY <1>1, <1>3, <2>1, OwnerType DEF OwnType
<1>10. Free(x, k, u)
  BY <1>4, <1>9 DEF Free, Mine
<1>11. Waited(x)
  <2> SUFFICES ASSUME NEW w \in Task, NEW m \in Mutex \cap x.live, Waits(x, w, m)
               PROVE  /\ x.mtx[m].task \in Task \ {w}
                      /\ x.tcb[x.mtx[m].task].state # "DELETED"
    BY DEF Waited
  <2>1. x.mtx[m].task \notin {NULL, w}
    BY <1>4 DEF Claims, Claim
  <2> QED
    BY <1>4, <1>9, <2>1 DEF OwnersAlive
<1>12. Even(k, Owner(k), NULL)
  BY <1>3, <1>4, <1>5, <1>6, <1>7, <1>8, <1>10, <1>11, DepartsEven
<1> QED
  BY <1>1, <1>8, <1>12, PriNext

LEMMA InvShape == Inv => Kernel \in KState
BY InvHas

(* A new task starts with its base priority: nobody waits for it yet. *)
LEMMA TaskCreatePri ==
    ASSUME Inv, OwnInv, Inv', PriInv, NEW t \in Task, NEW u \in Task,
           NEW s \in {"RDY", "SUSPENDED"}, TaskCreate(t, u, s)
    PROVE  PriInv'
<1> DEFINE r == NewTcb(InitPrio[u], s)
           x == [Kernel EXCEPT !.tcb[u] = r]
           k == IF s = "RDY" THEN ReadyAdd(x, u) ELSE x
<1>1. tcb[u].state = "DELETED" /\ Become(k)
  BY Ends DEF TaskCreate, Alive
<1>2. k.live = live /\ k.mtx = mtx /\ k.tcb = [tcb EXCEPT ![u] = r] /\ k.kerr = kerr
  BY DEF Kernel, ReadyAdd
<1>3. r.state = s /\ r.prio = r.b_prio
  BY DEF NewTcb
<1> HIDE DEF r, k
<1>4. /\ tcb'[u] = r /\ \A w \in Task \ {u} : tcb'[w] = tcb[w]
      /\ mtx' = mtx /\ live' = live
  BY <1>1, <1>2, TcbRewritten
<1>5. kerr' = kerr
  BY <1>1, <1>2 DEF Become
<1> DEFINE k2 == Kernel'
<1>6. /\ k2.tcb = tcb' /\ k2.mtx = mtx' /\ k2.live = live' /\ k2.kerr = kerr'
      /\ k2 = Kernel'
  BY DEF Kernel
<1>7. k2 \in KState
  <2>1. (Inv => Kernel \in KState)'
    BY InvShape, PTL
  <2> QED
    BY <2>1
<1> HIDE DEF k2
<1> DEFINE own == Owner(Kernel)
<1>8. own = Owner(Kernel) /\ Owner(k2) = own
  BY <1>4, <1>6, OwnerSame, KernelIs
<1>9. Mine(own, u) = {}
  BY <1>1, OwnHas, KernelIs, Kinds DEF Mine, OwnersAlive
<1> HIDE DEF own
<1>10. \A m : ~Waits(Kernel, u, m) /\ ~Waits(k2, u, m)
  BY <1>1, <1>3, <1>4, <1>6, KernelIs, States DEF Waits
<1>11. \A w \in Task : \A m : Waits(k2, w, m) <=> Waits(Kernel, w, m)
  BY <1>4, <1>6, <1>10, KernelIs DEF Waits
<1>12. ASSUME INHERIT PROVE Exact(k2, own, {}, NULL)
  <2> SUFFICES ASSUME NEW y \in Task \ {NULL}, k2.tcb[y].state # "DELETED"
               PROVE  Due(k2, own, {}, y, k2.tcb[y].prio)
    BY DEF Exact
  <2>1. \A w, z \in Task : Ahead(k2, own, {}, w, z) <=> Ahead(Kernel, own, {}, w, z)
    BY <1>11 DEF Ahead
  <2>2. CASE y = u
    <3>1. \A w \in Task : ~Ahead(k2, own, {}, w, u)
      BY <1>9 DEF Ahead, Mine
    <3>2. k2.tcb[u].prio = k2.tcb[u].b_prio /\ k2.tcb[u].prio \in Int
      BY <1>3, <1>4, <1>6, <1>7, PriosIn, Kinds
    <3> QED
      BY <2>2, <3>1, <3>2 DEF Due, Least
  <2>3. CASE y # u
    <3>1. Kernel.tcb[y] = k2.tcb[y] /\ k2.tcb[y] = tcb[y]
      BY <1>4, <1>6, <2>3, KernelIs
    <3>2. Due(Kernel, own, {}, y, k2.tcb[y].prio)
      BY <1>8, <1>12, <3>1 DEF PriInv, Even, Exact
    <3>3. \A w \in Task : Ahead(Kernel, own, {}, w, y) => k2.tcb[w].prio = Kernel.tcb[w].prio
      <4>1. \A w \in Task : Ahead(Kernel, own, {}, w, y) => w # u
        BY <1>10 DEF Ahead
      <4> QED
        BY <1>4, <1>6, <4>1, KernelIs
    <3>4. SameBehind(Kernel, k2, own, own, {}, {}, y)
      BY <2>1, <3>3 DEF SameBehind
    <3> QED
      BY <3>1, <3>2, <3>4, DueSame
  <2> QED
    BY <2>2, <2>3
<1>13. Even(k2, Owner(k2), NULL)
  BY <1>5, <1>6, <1>8, <1>12, KernelIs DEF Even, PriInv
<1> QED
  BY <1>6, <1>13 DEF PriInv

LEMMA MutexStepPri ==
    ASSUME NoOrphans, Inv, OwnInv, PriInv, NEW t \in Task, MutexStep(t)
    PROVE  PriInv' \/ \E m \in Mutex : MutexLockOverflow(t, m)
BY MutexLockNestedPri, MutexLockFreePri, MutexLockPendPri, MutexUnlockNestedPri,
   MutexUnlockPri, MutexDelPri, MutexCreatePri DEF MutexStep

LEMMA SemStepPri ==
    ASSUME NoOrphans, Inv, OwnInv, PriInv, NEW t \in Task, SemStep(t)
    PROVE  PriInv'
BY SemTakePri, SemTakePendPri, SemCountSetPri, SemDelPri, SemCreatePri DEF SemStep

LEMMA TaskStepPri ==
    ASSUME NoOrphans, Inv, OwnInv, Inv', PriInv, NEW t \in Task, TaskStep(t)
    PROVE  PriInv'
<1>1. PICK u \in Task :
          \/ TaskSuspend(t, u) \/ TaskResume(t, u)
          \/ \E p \in Prio : TaskPriChangeCall(t, u, p)
          \/ TaskWaitAbort(t, u) \/ TaskCancel(t, u)
          \/ "task_del" \in Calls /\ TaskDel(t, u)
          \/ \E s \in {"RDY", "SUSPENDED"} : TaskCreate(t, u, s)
  BY DEF TaskStep
<1>2. CASE TaskSuspend(t, u)
  <2>1. PICK k, s, n : HaltedAs(k, u, s, n)
    BY <1>2, TaskSuspendIs
  <2> QED
    BY <2>1, HaltedPri
<1>3. CASE TaskResume(t, u)
  <2>1. PICK k, s, n : HaltedAs(k, u, s, n)
    BY <1>3, TaskResumeIs
  <2> QED
    BY <2>1, HaltedPri
<1>4. CASE \E p \in Prio : TaskPriChangeCall(t, u, p)
  BY <1>4, TaskPriChangeCallPri
<1>5. CASE TaskWaitAbort(t, u)
  BY <1>5, TaskWaitAbortPri
<1>6. CASE TaskCancel(t, u)
  BY <1>6, TaskCancelPri
<1>7. CASE "task_del" \in Calls /\ TaskDel(t, u)
  BY <1>7, TaskDelPri
<1>8. CASE \E s \in {"RDY", "SUSPENDED"} : TaskCreate(t, u, s)
  BY <1>8, TaskCreatePri
<1> QED
  BY <1>1, <1>2, <1>3, <1>4, <1>5, <1>6, <1>7, <1>8

LEMMA SchedStepPri ==
    ASSUME Inv, PriInv, NEW t \in Task, SchedStep(t)
    PROVE  PriInv'
BY TaskSleepPri, TaskYieldPri, SchedPri DEF SchedStep

LEMMA NextPri ==
    ASSUME NoOrphans, Inv, ChangeInv, OwnInv, PriInv, Next
    PROVE  StopInv'
<1>1. Inv'
  BY NextKeeps
<1>2. (PriInv => StopInv)'
  BY PriStop, PTL
<1>3. ASSUME NEW t \in Task, PendEnd(t) \/ SemStep(t) \/ TaskStep(t) \/ SchedStep(t)
      PROVE  PriInv'
  BY <1>1, <1>3, PendEndPri, SemStepPri, TaskStepPri, SchedStepPri
<1>4. ASSUME NEW t \in Task, TaskPriChangeMake(t) PROVE StopInv'
  BY <1>4, TaskPriChangeMakePri
<1>5. ASSUME NEW t \in Task, MutexStep(t) PROVE StopInv'
  <2>1. CASE \E m \in Mutex : MutexLockOverflow(t, m)
    BY <2>1, MutexLockOverflowPri
  <2>2. CASE PriInv'
    BY <1>2, <2>2
  <2> QED
    BY <1>5, <2>1, <2>2, MutexStepPri
<1>6. ASSUME NEW s \in Sem, SemGive(s) \/ SemGiveAll(s)
      PROVE  PriInv'
  BY <1>6, SemGivePri, SemGiveAllPri
<1>7. CASE Tick
  BY <1>2, <1>7, TickPri
<1>8. ~Stopped
  BY KernelIs DEF Stopped, Up, PriInv, Even
<1> QED
  BY <1>2, <1>3, <1>4, <1>5, <1>6, <1>7, <1>8 DEF Next

(* After k_err_proc nothing happens any more. *)
LEMMA StoppedFor ==
    ASSUME Next, ~Up
    PROVE  UNCHANGED vars
<1>1. ASSUME NEW t \in Task
      PROVE  ~PendEnd(t) /\ ~TaskPriChangeMake(t) /\ ~MutexStep(t) /\ ~SemStep(t) /\ ~SchedStep(t)
  BY DEF PendEnd, TaskPriChangeMake, MutexStep, MutexLockNested, MutexLockOverflow,
         MutexLockFree, MutexLockPend, MutexUnlockNested, MutexUnlock, MutexDel, MutexCreate,
         SemStep, SemTake, SemTakePend, SemCountSet, SemDel, SemCreate,
         SchedStep, TaskSleep, TaskYield, SchedDisable, SchedEnable, Runs
<1>2. ASSUME NEW t \in Task PROVE ~TaskStep(t)
  BY DEF TaskStep, TaskSuspend, TaskResume, TaskPriChangeCall, TaskWaitAbort, TaskCancel,
         TaskDel, TaskCreate, Runs
<1>3. ~Tick /\ \A s \in Sem : ~SemGive(s) /\ ~SemGiveAll(s)
  BY DEF Tick, SemGive, SemGiveAll
<1> QED
  BY <1>1, <1>2, <1>3 DEF Next, Stopped

LEMMA NextStop ==
    ASSUME NoOrphans, Inv, ChangeInv, OwnInv, StopInv, [Next]_vars
    PROVE  StopInv'
<1>1. CASE UNCHANGED vars
  <2>1. /\ Kernel' = Kernel /\ kerr' = kerr /\ mtx' = mtx /\ tcb' = tcb
        /\ active' = active /\ change' = change
    BY <1>1 DEF vars, kernelVars, Kernel
  <2>2. INHERIT => Exact(Kernel', Owner(Kernel'), {}, NULL)
    BY <2>1 DEF StopInv
  <2>3. StopsOnlyOnMisuse'
    BY <2>1 DEF StopInv, StopsOnlyOnMisuse, Alive
  <2> QED
    BY <2>2, <2>3 DEF StopInv, Kernel
<1>2. CASE Next /\ Up
  BY <1>2, StopPri, NextPri
<1> QED
  BY <1>1, <1>2, StoppedFor

LEMMA InitPri == Init => PriInv
<1> SUFFICES ASSUME Init PROVE PriInv
  OBVIOUS
<1>1. Kernel.kerr = "NONE"
  BY KernelIs DEF Init
<1>2. \A m \in Mutex : Owner(Kernel)[m] = NULL
  BY KernelIs DEF Init, FreeMutex, Owner
<1>3. \A u \in Task : Kernel.tcb[u].prio = Kernel.tcb[u].b_prio
  BY KernelIs, Kinds DEF Init, InitTcb, NewTcb
<1>4. Kernel \in KState
  BY InitInv, InvHas
<1>5. \A u, w \in Task : ~Ahead(Kernel, Owner(Kernel), {}, w, u)
  BY <1>2, Kinds DEF Ahead
<1>6. Exact(Kernel, Owner(Kernel), {}, NULL)
  <2> SUFFICES ASSUME NEW u \in Task
               PROVE  Due(Kernel, Owner(Kernel), {}, u, Kernel.tcb[u].prio)
    BY DEF Exact
  <2>1. Kernel.tcb[u].prio \in Int
    BY <1>4, PriosIn, Kinds
  <2> QED
    BY <1>3, <1>5, <2>1 DEF Due, Least
<1> QED
  BY <1>1, <1>6 DEF PriInv, Even

LEMMA PriAlways ==
    ASSUME NoOrphans
    PROVE  Spec => [](Inv /\ ChangeInv /\ OwnInv /\ StopInv)
<1>1. Init => Inv /\ ChangeInv /\ OwnInv /\ StopInv
  BY InitInv, InitChange, InitOwn, InitPri, PriStop
<1>2. (Inv /\ ChangeInv /\ OwnInv /\ StopInv) /\ [Next]_vars
          => (Inv /\ ChangeInv /\ OwnInv /\ StopInv)'
  BY NextKeeps, ChangeKeeps, NextOwn, NextStop
<1> QED
  BY <1>1, <1>2, PTL DEF Spec

-----------------------------------------------------------------------------
(* The processor is given to the best ready task. *)

LEMMA CoreHigh ==
    ASSUME NEW k, NEW lock, CoreSched(k, lock)
    PROVE  RunsHighest'
BY DEF CoreSched, Become, RunsHighest, Preferred, HighestPri, Kernel

LEMMA ReschedHigh ==
    ASSUME NEW k, Resched(k)
    PROVE  RunsHighest'
BY CoreHigh DEF Resched

LEMMA KeepHigh ==
    ASSUME RunsHighest, active' = active, sched_lock' = sched_lock, ready' = ready
    PROVE  RunsHighest'
BY DEF RunsHighest, Preferred, HighestPri, Kernel

LEMMA NoReschedHigh ==
    ASSUME RunsHighest, NEW k, NoResched(k), k.ready = ready
    PROVE  RunsHighest'
BY KeepHigh DEF NoResched, Become

LEMMA MutexStepHigh ==
    ASSUME INHERIT, Inv, OwnInv, PriInv, RunsHighest, NEW t \in Task, MutexStep(t)
    PROVE  RunsHighest'
<1>1. PICK m \in Mutex :
          \/ MutexLockNested(t, m) \/ MutexLockOverflow(t, m) \/ MutexLockFree(t, m)
          \/ \E n \in Timeouts : MutexLockPend(t, m, n)
          \/ MutexUnlockNested(t, m) \/ MutexUnlock(t, m)
          \/ MutexDel(t, m) \/ MutexCreate(t, m)
  BY DEF MutexStep
<1>2. CASE MutexLockNested(t, m)
  <2> DEFINE k == [Kernel EXCEPT !.mtx[m].nested = @ + 1]
  <2>1. NoResched(k) /\ k.ready = ready
    BY <1>2 DEF MutexLockNested, Kernel
  <2> HIDE DEF k
  <2> QED
    BY <2>1, NoReschedHigh
<1>3. CASE MutexLockFree(t, m)
  <2> DEFINE k == PushMutex([Kernel EXCEPT !.mtx[m].task = t, !.mtx[m].nested = 1], t, m)
  <2>1. NoResched(k) /\ k.ready = ready
    BY <1>3 DEF MutexLockFree, Kernel, PushMutex
  <2> HIDE DEF k
  <2> QED
    BY <2>1, NoReschedHigh
<1>4. CASE \E n \in Timeouts : MutexLockPend(t, m, n)
  BY <1>4, CoreHigh DEF MutexLockPend
<1>5. CASE MutexUnlockNested(t, m)
  <2> DEFINE k == [Kernel EXCEPT !.mtx[m].nested = @ - 1]
  <2>1. NoResched(k) /\ k.ready = ready
    BY <1>5 DEF MutexUnlockNested, Kernel
  <2> HIDE DEF k
  <2> QED
    BY <2>1, NoReschedHigh
<1>6. CASE MutexUnlock(t, m)
  <2>1. CASE waitq[m] = <<>>
    <3>1. ready' = ready
      BY <1>6, <2>1, MutexUnlockPri DEF NoOrphans
    <3>2. active' = active /\ sched_lock' = sched_lock
      BY <1>6, <2>1 DEF MutexUnlock, NoResched
    <3> QED
      BY <3>1, <3>2, KeepHigh
  <2>2. CASE waitq[m] # <<>>
    BY <1>6, <2>2, ReschedHigh DEF MutexUnlock
  <2> QED
    BY <2>1, <2>2
<1>7. CASE MutexDel(t, m)
  BY <1>7, ReschedHigh DEF MutexDel
<1>8. CASE MutexCreate(t, m)
  <2> DEFINE k == [Kernel EXCEPT !.live = @ \cup {m}, !.mtx[m] = FreeMutex]
  <2>1. NoResched(k) /\ k.ready = ready
    BY <1>8 DEF MutexCreate, Kernel
  <2> HIDE DEF k
  <2> QED
    BY <2>1, NoReschedHigh
<1>9. CASE MutexLockOverflow(t, m)
  <2> DEFINE k == [Kernel EXCEPT !.kerr = "MUTEX_NESTED_OVF"]
  <2>1. NoResched(k) /\ k.ready = ready
    BY <1>9 DEF MutexLockOverflow, Kernel
  <2> HIDE DEF k
  <2> QED
    BY <2>1, NoReschedHigh
<1> QED
  BY <1>1, <1>2, <1>3, <1>4, <1>5, <1>6, <1>7, <1>8, <1>9

LEMMA SemStepHigh ==
    ASSUME RunsHighest, NEW t \in Task, SemStep(t)
    PROVE  RunsHighest'
<1>1. PICK s \in Sem :
          \/ SemTake(t, s) \/ \E n \in Timeouts : SemTakePend(t, s, n)
          \/ SemCountSet(t, s) \/ SemDel(t, s) \/ SemCreate(t, s)
  BY DEF SemStep
<1>2. CASE SemTake(t, s) \/ SemCountSet(t, s) \/ SemCreate(t, s)
  <2>1. active' = active /\ sched_lock' = sched_lock /\ ready' = ready
    BY <1>2 DEF SemTake, SemCountSet, SemCreate, NoResched, Become, Kernel
  <2> QED
    BY <2>1, KeepHigh
<1>3. CASE \E n \in Timeouts : SemTakePend(t, s, n)
  BY <1>3, CoreHigh DEF SemTakePend
<1>4. CASE SemDel(t, s)
  BY <1>4, ReschedHigh DEF SemDel
<1> QED
  BY <1>1, <1>2, <1>3, <1>4

LEMMA TaskStepHigh ==
    ASSUME INHERIT, Inv, OwnInv, PriInv, RunsHighest, NEW t \in Task, TaskStep(t)
    PROVE  RunsHighest'
<1>1. PICK u \in Task :
          \/ TaskSuspend(t, u) \/ TaskResume(t, u)
          \/ \E p \in Prio : TaskPriChangeCall(t, u, p)
          \/ TaskWaitAbort(t, u) \/ TaskCancel(t, u)
          \/ TaskDel(t, u)
          \/ \E s \in {"RDY", "SUSPENDED"} : TaskCreate(t, u, s)
  BY DEF TaskStep
<1>2. CASE TaskSuspend(t, u)
  <2>1. PICK k, s, n : HaltedAs(k, u, s, n)
    BY <1>2, TaskSuspendIs
  <2> QED
    BY <2>1, ReschedHigh DEF HaltedAs
<1>3. CASE TaskResume(t, u)
  <2>1. PICK k, s, n : HaltedAs(k, u, s, n)
    BY <1>3, TaskResumeIs
  <2> QED
    BY <2>1, ReschedHigh DEF HaltedAs
<1>4. CASE \E p \in Prio : TaskPriChangeCall(t, u, p)
  BY <1>4, KeepHigh DEF TaskPriChangeCall, kernelVars
<1>5. CASE TaskWaitAbort(t, u)
  BY <1>5, ReschedHigh DEF TaskWaitAbort
<1>6. CASE TaskCancel(t, u)
  <2> DEFINE k == [Kernel EXCEPT !.tcb[u].cancel = TRUE]
  <2>1. k.ready = ready /\ (NoResched(k) \/ \E x : Resched(x))
    BY <1>6 DEF TaskCancel, Kernel
  <2> HIDE DEF k
  <2> QED
    BY <2>1, NoReschedHigh, ReschedHigh
<1>7. CASE TaskDel(t, u)
  BY <1>7, CoreHigh DEF TaskDel
<1>8. CASE \E s \in {"RDY", "SUSPENDED"} : TaskCreate(t, u, s)
  <2>1. PICK s \in {"RDY", "SUSPENDED"} : TaskCreate(t, u, s)
    BY <1>8
  <2> DEFINE k == [Kernel EXCEPT !.tcb[u] = NewTcb(InitPrio[u], s)]
  <2>2. k.ready = ready /\ (NoResched(k) \/ Resched(ReadyAdd(k, u)))
    BY <2>1 DEF TaskCreate, Kernel
  <2> HIDE DEF k
  <2> QED
    BY <2>2, NoReschedHigh, ReschedHigh
<1> QED
  BY <1>1, <1>2, <1>3, <1>4, <1>5, <1>6, <1>7, <1>8

LEMMA SchedStepHigh ==
    ASSUME Inv, RunsHighest, NEW t \in Task, SchedStep(t)
    PROVE  RunsHighest'
<1>1. CASE SchedDisable(t)
  <2>1. sched_lock' # 0
    BY <1>1, InvHas, KernelAssumption DEF SchedDisable
  <2> QED
    BY <2>1 DEF RunsHighest
<1>2. CASE SchedEnable(t)
  BY <1>2, CoreHigh DEF SchedEnable
<1>3. CASE \E n \in Timeouts : TaskSleep(t, n)
  BY <1>3, CoreHigh DEF TaskSleep
<1>4. CASE TaskYield(t)
  BY <1>4, ReschedHigh DEF TaskYield
<1> QED
  BY <1>1, <1>2, <1>3, <1>4 DEF SchedStep

LEMMA NextHigh ==
    ASSUME INHERIT, Inv, ChangeInv, OwnInv, StopInv, RunsHighest, [Next]_vars
    PROVE  RunsHighest'
<1>1. CASE UNCHANGED vars
  BY <1>1, KeepHigh DEF vars, kernelVars
<1> SUFFICES ASSUME Next, Up PROVE RunsHighest'
  BY <1>1, StoppedFor
<1>2. PriInv /\ NoOrphans
  BY StopPri DEF NoOrphans
<1>3. ASSUME NEW t \in Task, PendEnd(t) PROVE RunsHighest'
  BY <1>3, KeepHigh DEF PendEnd
<1>4. ASSUME NEW t \in Task, TaskPriChangeMake(t) PROVE RunsHighest'
  BY <1>2, <1>4, TaskPriChangeMakePri, CoreHigh, KeepHigh
<1>5. ASSUME NEW t \in Task, MutexStep(t) \/ SemStep(t) \/ TaskStep(t) \/ SchedStep(t)
      PROVE  RunsHighest'
  BY <1>2, <1>5, MutexStepHigh, SemStepHigh, TaskStepHigh, SchedStepHigh
<1>6. ASSUME NEW s \in Sem, SemGive(s)
      PROVE  RunsHighest'
  <2> DEFINE k == [Kernel EXCEPT !.count[s] = @ + 1]
  <2>1. k.ready = ready /\ (NoResched(k) \/ \E x : Resched(x))
    BY <1>6 DEF SemGive, Kernel
  <2> HIDE DEF k
  <2> QED
    BY <2>1, NoReschedHigh, ReschedHigh
<1>7. ASSUME NEW s \in Sem, SemGiveAll(s) PROVE RunsHighest'
  BY <1>7, ReschedHigh DEF SemGiveAll
<1>8. CASE Tick
  BY <1>8, ReschedHigh DEF Tick
<1> QED
  BY <1>1, <1>3, <1>4, <1>5, <1>6, <1>7, <1>8 DEF Next, Stopped

-----------------------------------------------------------------------------
(* What the invariants say about the properties. *)

LEMMA PriHas ==
    ASSUME INHERIT, StopInv, NEW t \in Task, tcb[t].state # "DELETED"
    PROVE  Due(Kernel, Owner(Kernel), {}, t, tcb[t].prio)
BY KernelIs, Kinds DEF StopInv, Exact

(* The priority that is due is the least of the base priority and the      *)
(* priorities of the waiters.                                              *)
LEMMA InheritedHolds == Inv /\ OwnInv /\ StopInv => PriorityInherited
<1> SUFFICES ASSUME Inv, OwnInv, StopInv, INHERIT, NEW t \in Task, Alive(t)
             PROVE  tcb[t].prio = Min({tcb[t].b_prio} \cup
                        {tcb[w].prio : w \in UNION {Range(waitq[m]) :
                                           m \in {x \in live \cap Mutex : mtx[x].task = t}}})
  BY DEF PriorityInherited
<1> DEFINE W == UNION {Range(waitq[m]) : m \in {x \in live \cap Mutex : mtx[x].task = t}}
           S == {tcb[t].b_prio} \cup {tcb[w].prio : w \in W}
           p == tcb[t].prio
<1>1. /\ Good(Kernel) /\ Kernel \in KState
      /\ \A m \in Mutex : Owner(Kernel)[m] = IF m \in live THEN mtx[m].task ELSE NULL
  BY InvHas, OwnHas
<1>2. Due(Kernel, Owner(Kernel), {}, t, p)
  BY PriHas DEF Alive
<1>3. \A m \in Mutex : /\ Range(waitq[m]) \subseteq Task
                       /\ \A w \in Task : w \in Range(waitq[m]) <=> Waits(Kernel, w, m)
  <2>1. \A m \in Mutex : m \in Obj /\ waitq[m] \in Seq(Task)
    BY <1>1, KernelIs, Kinds, Fields
  <2>2. \A m \in Mutex : Range(waitq[m]) \subseteq Task
    BY <2>1 DEF Range
  <2> QED
    BY <1>1, <2>1, <2>2, KernelIs, WaiterIs
<1>4. W \subseteq Task /\ \A w \in Task : w \in W <=> Ahead(Kernel, Owner(Kernel), {}, w, t)
  <2>1. W \subseteq Task
    BY <1>3
  <2>2. \A m \in Mutex : Owner(Kernel)[m] = t <=> m \in live /\ mtx[m].task = t
    BY <1>1, Kinds
  <2>3. \A w \in Task : w \in W <=> \E m \in Mutex : /\ Owner(Kernel)[m] = t
                                                    /\ w \in Range(waitq[m])
    BY <2>2
  <2> HIDE DEF W
  <2>4. \A w \in Task : w \in W <=> Ahead(Kernel, Owner(Kernel), {}, w, t)
    BY <1>3, <2>3 DEF Ahead
  <2> QED
    BY <2>1, <2>4
<1> HIDE DEF W
<1>5. /\ p \in 0..IdlePri /\ tcb[t].b_prio \in 0..IdlePri
      /\ \A w \in W : tcb[w].prio \in 0..IdlePri
  BY <1>1, <1>4, PriosIn, KernelIs, Kinds
<1>6. S \in SUBSET Nat /\ S # {}
  BY <1>5, Kinds
<1>7. p \in S /\ \A y \in S : p <= y
  BY <1>2, <1>4, KernelIs DEF Due, Least
<1>8. S = {tcb[t].b_prio} \cup {tcb[w].prio : w \in W}
  OBVIOUS
<1> HIDE DEF S, p
<1>9. Min(S) \in S /\ \A y \in S : Min(S) <= y
  BY <1>6, LeastOf
<1>10. Min(S) <= p /\ p <= Min(S) /\ p \in Nat /\ Min(S) \in Nat
  BY <1>6, <1>7, <1>9
<1>11. p = Min(S)
  BY <1>10
<1> QED
  BY <1>11 DEF S, W, p

LEMMA InversionHolds ==
    NoOrphans /\ Inv /\ OwnInv /\ StopInv /\ (INHERIT => RunsHighest) => NoInversion
<1> SUFFICES ASSUME NoOrphans, Inv, OwnInv, StopInv, INHERIT, RunsHighest, sched_lock = 0,
                    NEW m \in Mutex, NEW w \in Task, w \in Range(waitq[m]),
                    tcb[mtx[m].task].state = "RDY"
             PROVE  tcb[active].prio <= tcb[w].prio
  BY DEF NoInversion
<1> DEFINE owner == mtx[m].task
<1>1. /\ Good(Kernel) /\ Kernel \in KState /\ Waited(Kernel) /\ Kernel.tcb[Idle].state = "RDY"
      /\ Owner(Kernel)[m] = IF m \in live THEN owner ELSE NULL
  BY InvHas, OwnHas, KernelWaited DEF Sound, SoundBut
<1>2. m \in live /\ Waits(Kernel, w, m)
  <2>1. WaitListsSound
    BY WaitListsHold
  <2>2. waitq[m] # <<>>
    BY DEF Range
  <2> QED
    BY <1>1, <2>1, <2>2, WaiterIs, KernelIs, Kinds DEF WaitListsSound
<1>3. owner \in Task
  BY <1>1, <1>2, KernelIs DEF Waited
<1>4. Ahead(Kernel, Owner(Kernel), {}, w, owner)
  BY <1>1, <1>2 DEF Ahead
<1>5. tcb[owner].prio <= tcb[w].prio
  <2>1. Due(Kernel, Owner(Kernel), {}, owner, tcb[owner].prio)
    BY <1>3, PriHas
  <2> QED
    BY <1>4, <2>1, KernelIs DEF Due, Least
<1>6. active = Preferred(Kernel)
  BY DEF RunsHighest
<1>7. tcb[active].prio <= tcb[owner].prio
  BY <1>1, <1>3, <1>6, PreferredOf, KernelIs, Kinds
<1>8. tcb[active].prio \in Int /\ tcb[owner].prio \in Int /\ tcb[w].prio \in Int
  BY <1>1, <1>3, InvHas, PriosIn, KernelIs, Kinds
<1> QED
  BY <1>5, <1>7, <1>8

LEMMA InitHigh == Init => RunsHighest
BY DEF Init, RunsHighest

LEMMA HighAlways ==
    ASSUME INHERIT
    PROVE  Spec => [](Inv /\ ChangeInv /\ OwnInv /\ StopInv /\ RunsHighest)
<1>1. NoOrphans
  BY DEF NoOrphans
<1>2. Init => Inv /\ ChangeInv /\ OwnInv /\ StopInv /\ RunsHighest
  BY InitInv, InitChange, InitOwn, InitPri, PriStop, InitHigh
<1>3. (Inv /\ ChangeInv /\ OwnInv /\ StopInv /\ RunsHighest) /\ [Next]_vars
          => (Inv /\ ChangeInv /\ OwnInv /\ StopInv /\ RunsHighest)'
  BY <1>1, NextKeeps, ChangeKeeps, NextOwn, NextStop, NextHigh
<1> QED
  BY <1>2, <1>3, PTL DEF Spec

-----------------------------------------------------------------------------
(* task_pri_change and the calls that use it (k_mutex.c:72-310): with      *)
(* inheritance, the priority of a task is at every moment the better of    *)
(* its base priority and the priorities of those that wait for its         *)
(* mutexes, however long the chain of owners through which a waiter gives  *)
(* its priority on, and whichever way a waiter leaves.                     *)
THEOREM PriorityAlwaysInherited == Spec => []PriorityInherited
<1>1. CASE INHERIT
  <2>1. Inv /\ OwnInv /\ StopInv => PriorityInherited
    BY InheritedHolds
  <2>2. NoOrphans
    BY <1>1 DEF NoOrphans
  <2> QED
    BY <2>1, <2>2, PriAlways, PTL
<1>2. CASE ~INHERIT
  <2>1. PriorityInherited
    BY <1>2 DEF PriorityInherited
  <2> QED
    BY <2>1, PTL
<1> QED
  BY <1>1, <1>2

(* k_err_proc is called only by a lock beyond the nesting limit and by a   *)
(* change of the priority of a task that was deleted after the check: no   *)
(* chain of waiting tasks and owners leads to a task in a state it must    *)
(* not be in, and the loop of task_pri_change ends, also when tasks wait   *)
(* for each other in a circle.  Without inheritance a deleted task leaves  *)
(* its mutexes locked: then no task is deleted.                            *)
THEOREM KernelStopsOnlyOnMisuse ==
    ASSUME INHERIT \/ "task_del" \notin Calls
    PROVE  Spec => []StopsOnlyOnMisuse
<1>1. NoOrphans
  BY DEF NoOrphans
<1>2. StopInv => StopsOnlyOnMisuse
  BY DEF StopInv
<1> QED
  BY <1>1, <1>2, PriAlways, PTL

(* k_sched.c: with the scheduler unlocked the processor runs the first of  *)
(* the best ready tasks.  Without inheritance no priority may be changed   *)
(* by a call: task_pri_change raises the owner of a mutex whose waiter     *)
(* became more urgent, and an unlock that finds no waiter any more         *)
(* (k_mutex.c:421) takes that back without core_sched.                     *)
THEOREM HighestAlwaysRuns ==
    ASSUME INHERIT \/ Changes = {}
    PROVE  Spec => []RunsHighest
<1>1. CASE INHERIT
  BY <1>1, HighAlways, PTL
<1>2. CASE ~INHERIT
  BY <1>2, HighestRuns
<1> QED
  BY <1>1, <1>2

(* No unbounded inversion: nothing of lower priority than a waiter runs    *)
(* while the owner of the mutex it waits for is ready.                     *)
THEOREM InversionIsBounded == Spec => []NoInversion
<1>1. CASE INHERIT
  <2>1. NoOrphans
    BY <1>1 DEF NoOrphans
  <2>2. Inv /\ OwnInv /\ StopInv /\ RunsHighest => NoInversion
    BY <2>1, InversionHolds
  <2> QED
    BY <1>1, <2>2, HighAlways, PTL
<1>2. CASE ~INHERIT
  <2>1. NoInversion
    BY <1>2 DEF NoInversion
  <2> QED
    BY <2>1, PTL
<1> QED
  BY <1>1, <1>2
=============================================================================
