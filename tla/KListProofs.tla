---------------------------- MODULE KListProofs ----------------------------
(***************************************************************************)
(* Facts about lists that the proofs of the kernel and of its timers use:  *)
(* what inserting and unlinking do to the elements, their order and their  *)
(* uniqueness, and what a loop reaches.                                    *)
(***************************************************************************)
EXTENDS KList, WellFoundedInduction, NaturalsInduction, TLAPS

(* A nonempty set of naturals has a least element. *)
LEMMA LeastOf ==
    ASSUME NEW S \in SUBSET Nat, S # {}
    PROVE  Min(S) \in S /\ \A y \in S : Min(S) <= y
<1> DEFINE Less == {p \in Nat \X Nat : p[1] < p[2]}
<1>1. IsWellFoundedOn(Less, Nat)
  BY NatLessThanWellFounded DEF OpToRel
<1> HIDE DEF Less
<1>2. \E x \in S : \A y \in S : <<y, x>> \notin Less
  BY <1>1, WFMin
<1>3. \A x, y \in Nat : <<y, x>> \notin Less => x <= y
  BY DEF Less
<1>4. \E x \in S : \A y \in S : x <= y
  BY <1>2, <1>3
<1> QED
  BY <1>4 DEF Min

(* Induction up to n. *)
LEMMA UpTo ==
    ASSUME NEW n \in Nat, NEW S, 0 \in S, \A i \in 1..n : i - 1 \in S => i \in S
    PROVE  \A i \in 0..n : i \in S
<1> SUFFICES ASSUME NEW x \in 0..n, x \notin S PROVE FALSE
  OBVIOUS
<1> DEFINE T == {i \in 0..n : i \notin S}
<1>1. T \in SUBSET Nat /\ T # {}
  OBVIOUS
<1> HIDE DEF T
<1>2. PICK m \in T : \A y \in T : m <= y
  BY <1>1, LeastOf
<1>3. m \in 1..n
  BY <1>2 DEF T
<1>4. m - 1 \in 0..n /\ ~(m <= m - 1)
  BY <1>3
<1>5. m - 1 \in S
  BY <1>2, <1>4 DEF T
<1> QED
  BY <1>2, <1>3, <1>5 DEF T

(* n rounds of a loop whose body is the function F on the set D. *)
Loop(g, F, x, n) == g[0] = x /\ \A i \in 1..n : g[i] = F[g[i - 1]]

LEMMA LoopExists ==
    ASSUME NEW D, NEW F \in [D -> D], NEW x \in D, NEW n \in Nat
    PROVE  \E g \in [0..n -> D] : Loop(g, F, x, n)
<1> DEFINE S == {m \in 0..n : \E g \in [0..m -> D] :
                     g[0] = x /\ \A i \in 1..m : g[i] = F[g[i - 1]]}
<1>1. 0 \in S
  <2> DEFINE g == [i \in 0..0 |-> x]
  <2>1. g \in [0..0 -> D] /\ g[0] = x /\ \A i \in 1..0 : g[i] = F[g[i - 1]]
    OBVIOUS
  <2> HIDE DEF g
  <2>2. 0 \in 0..n
    OBVIOUS
  <2> QED
    BY <2>1, <2>2
<1>2. ASSUME NEW m \in 1..n, m - 1 \in S PROVE m \in S
  <2>1. PICK g \in [0..(m - 1) -> D] :
            g[0] = x /\ \A i \in 1..(m - 1) : g[i] = F[g[i - 1]]
    BY <1>2
  <2> DEFINE h == [i \in 0..m |-> IF i = m THEN F[g[m - 1]] ELSE g[i]]
  <2>2. m - 1 \in 0..(m - 1) /\ g[m - 1] \in D
    BY <2>1
  <2>3. \A i \in 0..m : i # m => i \in 0..(m - 1)
    OBVIOUS
  <2>4. h \in [0..m -> D]
    BY <2>1, <2>2, <2>3
  <2>5. h[0] = x
    BY <2>1
  <2>6. ASSUME NEW i \in 1..m PROVE h[i] = F[h[i - 1]]
    <3>1. i - 1 \in 0..m /\ i - 1 # m /\ h[i - 1] = g[i - 1]
      OBVIOUS
    <3>2. CASE i = m
      BY <3>1, <3>2
    <3>3. CASE i # m
      <4>1. i \in 1..(m - 1) /\ h[i] = g[i]
        BY <3>3
      <4> QED
        BY <2>1, <3>1, <4>1
    <3> QED
      BY <3>2, <3>3
  <2> HIDE DEF h
  <2> QED
    BY <2>4, <2>5, <2>6
<1> HIDE DEF S
<1>3. n \in S
  <2>1. \A i \in 1..n : i - 1 \in S => i \in S
    BY <1>2
  <2> QED
    BY <1>1, <2>1, UpTo
<1> QED
  BY <1>3 DEF S, Loop

-----------------------------------------------------------------------------
(* Lists. *)
LEMMA Joined ==
    ASSUME NEW S, NEW a \in Seq(S), NEW b \in Seq(S)
    PROVE  /\ a \o b \in Seq(S) /\ Len(a \o b) = Len(a) + Len(b)
           /\ \A j \in 1..(Len(a) + Len(b)) :
                  (a \o b)[j] = IF j <= Len(a) THEN a[j] ELSE b[j - Len(a)]
  OBVIOUS

LEMMA Part ==
    ASSUME NEW S, NEW l \in Seq(S), NEW i \in 1..(Len(l) + 1), NEW n \in 0..Len(l),
           i <= n + 1
    PROVE  /\ SubSeq(l, i, n) \in Seq(S) /\ Len(SubSeq(l, i, n)) = n - i + 1
           /\ \A j \in 1..(n - i + 1) : SubSeq(l, i, n)[j] = l[i + j - 1]
  OBVIOUS

(* An element is put in before the place i. *)
LEMMA InsertedAt ==
    ASSUME NEW S, NEW l \in Seq(S), NEW t \in S, NEW i \in 1..Len(l)
    PROVE  LET m == InsertAt(l, i, t)
           IN  /\ m \in Seq(S) /\ Len(m) = Len(l) + 1
               /\ \A j \in 1..(Len(l) + 1) :
                      m[j] = IF j < i THEN l[j] ELSE IF j = i THEN t ELSE l[j - 1]
<1> DEFINE a == SubSeq(l, 1, i - 1)
           b == SubSeq(l, i, Len(l))
           c == a \o <<t>>
<1>1. a \in Seq(S) /\ Len(a) = i - 1 /\ \A j \in 1..(i - 1) : a[j] = l[j]
  BY Part
<1>2. /\ b \in Seq(S) /\ Len(b) = Len(l) - i + 1
      /\ \A j \in 1..(Len(l) - i + 1) : b[j] = l[i + j - 1]
  BY Part
<1>3. InsertAt(l, i, t) = c \o b
  BY DEF InsertAt
<1> HIDE DEF a, b
<1>4. <<t>> \in Seq(S) /\ Len(<<t>>) = 1 /\ <<t>>[1] = t
  OBVIOUS
<1>5. c \in Seq(S) /\ Len(c) = i /\ c[i] = t /\ \A j \in 1..(i - 1) : c[j] = l[j]
  <2>1. a \in Seq(S) /\ Len(a) = i - 1 /\ i \in Nat \ {0}
    BY <1>1
  <2>2. c \in Seq(S) /\ Len(c) = Len(a) + 1
    BY <1>4, <2>1, Joined
  <2>3. Len(c) = i
    BY <2>1, <2>2
  <2>4. \A j \in 1..i : c[j] = IF j <= i - 1 THEN a[j] ELSE <<t>>[j - (i - 1)]
    BY <1>4, <2>1, Joined
  <2> QED
    BY <1>1, <1>4, <2>1, <2>2, <2>3, <2>4
<1> HIDE DEF c
<1>6. c \o b \in Seq(S) /\ Len(c \o b) = Len(l) + 1
  <2>1. c \in Seq(S) /\ b \in Seq(S) /\ Len(c) + Len(b) = Len(l) + 1
    BY <1>2, <1>5
  <2> QED
    BY <2>1, Joined
<1>7. ASSUME NEW j \in 1..(Len(l) + 1)
      PROVE  (c \o b)[j] = IF j < i THEN l[j] ELSE IF j = i THEN t ELSE l[j - 1]
  <2>1. (c \o b)[j] = IF j <= i THEN c[j] ELSE b[j - i]
    BY <1>2, <1>5, Joined
  <2>2. CASE j > i
    <3>1. j - i \in 1..(Len(l) - i + 1) /\ i + (j - i) - 1 = j - 1
      BY <2>2
    <3>2. b[j - i] = l[j - 1]
      BY <1>2, <3>1
    <3> QED
      BY <2>1, <2>2, <3>2
  <2> QED
    BY <1>5, <2>1, <2>2
<1> QED
  BY <1>3, <1>6, <1>7

(* The element at the place i is taken out. *)
LEMMA RemovedAt ==
    ASSUME NEW S, NEW l \in Seq(S), NEW i \in 1..Len(l)
    PROVE  LET m == RemoveAt(l, i)
           IN  /\ m \in Seq(S) /\ Len(m) = Len(l) - 1
               /\ \A j \in 1..(Len(l) - 1) : m[j] = IF j < i THEN l[j] ELSE l[j + 1]
<1> DEFINE a == SubSeq(l, 1, i - 1)
           b == SubSeq(l, i + 1, Len(l))
<1>1. a \in Seq(S) /\ Len(a) = i - 1 /\ \A j \in 1..(i - 1) : a[j] = l[j]
  BY Part
<1>2. /\ b \in Seq(S) /\ Len(b) = Len(l) - i
      /\ \A j \in 1..(Len(l) - i) : b[j] = l[i + j]
  BY Part
<1>3. RemoveAt(l, i) = a \o b
  BY DEF RemoveAt
<1> HIDE DEF a, b
<1>4. a \o b \in Seq(S) /\ Len(a \o b) = Len(l) - 1
  <2>1. a \in Seq(S) /\ b \in Seq(S) /\ Len(a) + Len(b) = Len(l) - 1
    BY <1>1, <1>2
  <2> QED
    BY <2>1, Joined
<1>5. ASSUME NEW j \in 1..(Len(l) - 1)
      PROVE  (a \o b)[j] = IF j < i THEN l[j] ELSE l[j + 1]
  <2>1. (a \o b)[j] = IF j <= i - 1 THEN a[j] ELSE b[j - (i - 1)]
    BY <1>1, <1>2, Joined
  <2>2. CASE j >= i
    <3>1. j - (i - 1) \in 1..(Len(l) - i) /\ i + (j - (i - 1)) = j + 1
      BY <2>2
    <3>2. b[j - (i - 1)] = l[j + 1]
      BY <1>2, <3>1
    <3> QED
      BY <2>1, <2>2, <3>2
  <2> QED
    BY <1>1, <2>1, <2>2
<1> QED
  BY <1>3, <1>4, <1>5

(* One that is put in before the only one. *)
LEMMA InsertedFirst ==
    ASSUME NEW S, NEW l \in Seq(S), NEW t \in S, NEW i \in 1..Len(l)
    PROVE  LET m == InsertAt(l, i, t)
           IN  /\ m \in Seq(S)
               /\ Len(l) = 1 => Len(m) = 2 /\ m[1] = t /\ m[2] = l[1]
<1> DEFINE m == InsertAt(l, i, t)
<1>1. /\ m \in Seq(S) /\ Len(m) = Len(l) + 1
      /\ \A j \in 1..(Len(l) + 1) :
             m[j] = IF j < i THEN l[j] ELSE IF j = i THEN t ELSE l[j - 1]
  BY InsertedAt
<1> HIDE DEF m
<1>2. ASSUME Len(l) = 1 PROVE i = 1 /\ Len(m) = 2 /\ m[1] = t /\ m[2] = l[1]
  BY <1>1, <1>2
<1> QED
  BY <1>1, <1>2 DEF m

LEMMA Inserting ==
    ASSUME NEW S, NEW l \in Seq(S), NEW t \in S, NEW i \in 1..Len(l)
    PROVE  /\ InsertAt(l, i, t) \in Seq(S)
           /\ Range(InsertAt(l, i, t)) = Range(l) \cup {t}
           /\ t \notin Range(l) /\ IsInjective(l) => IsInjective(InsertAt(l, i, t))
<1> DEFINE m == InsertAt(l, i, t)
<1>1. /\ m \in Seq(S) /\ Len(m) = Len(l) + 1 /\ Len(l) \in Nat
      /\ \A j \in 1..(Len(l) + 1) :
             m[j] = IF j < i THEN l[j] ELSE IF j = i THEN t ELSE l[j - 1]
  BY InsertedAt
<1> HIDE DEF m
<1>2. DOMAIN m = 1..(Len(l) + 1) /\ DOMAIN l = 1..Len(l)
  BY <1>1
<1>3. m[i] = t /\ i \in 1..(Len(l) + 1)
  BY <1>1
<1>4. \A j \in 1..Len(l) : j < i => m[j] = l[j]
  BY <1>1
<1>5. \A j \in 1..Len(l) : j >= i => m[j + 1] = l[j]
  BY <1>1
<1>6. ASSUME NEW j \in 1..(Len(l) + 1), m[j] # t
      PROVE  \E x \in 1..Len(l) : m[j] = l[x] /\ x = (IF j < i THEN j ELSE j - 1)
  <2>1. CASE j < i
    <3>1. j \in 1..Len(l) /\ m[j] = l[j]
      BY <1>1, <2>1
    <3> QED
      BY <2>1, <3>1
  <2>2. CASE j > i
    <3>1. j - 1 \in 1..Len(l) /\ m[j] = l[j - 1]
      BY <1>1, <2>2
    <3> QED
      BY <2>2, <3>1
  <2>3. CASE j = i
    BY <1>3, <1>6, <2>3
  <2> QED
    BY <2>1, <2>2, <2>3
<1>7. Range(m) = Range(l) \cup {t}
  <2>1. \A x \in Range(m) : x \in Range(l) \cup {t}
    <3> SUFFICES ASSUME NEW j \in 1..(Len(l) + 1), m[j] # t PROVE m[j] \in Range(l)
      BY <1>2 DEF Range
    <3>1. PICK x \in 1..Len(l) : m[j] = l[x]
      BY <1>6
    <3> QED
      BY <1>2, <3>1 DEF Range
  <2>2. \A x \in Range(l) : x \in Range(m)
    <3> SUFFICES ASSUME NEW j \in 1..Len(l) PROVE l[j] \in Range(m)
      BY <1>2 DEF Range
    <3>1. CASE j < i
      BY <1>2, <1>4, <3>1 DEF Range
    <3>2. CASE j >= i
      BY <1>2, <1>5, <3>2 DEF Range
    <3> QED
      BY <3>1, <3>2
  <2>3. t \in Range(m)
    BY <1>2, <1>3 DEF Range
  <2> QED
    BY <2>1, <2>2, <2>3
<1>8. ASSUME t \notin Range(l), IsInjective(l) PROVE IsInjective(m)
  <2>1. \A j \in 1..Len(l) : l[j] # t
    BY <1>2, <1>8 DEF Range
  <2>2. \A j, k \in 1..Len(l) : l[j] = l[k] => j = k
    BY <1>2, <1>8 DEF IsInjective
  <2> SUFFICES ASSUME NEW j \in 1..(Len(l) + 1), NEW k \in 1..(Len(l) + 1), m[j] = m[k]
               PROVE  j = k
    BY <1>2 DEF IsInjective
  <2>3. \A n \in 1..(Len(l) + 1) : m[n] = t => n = i
    <3> SUFFICES ASSUME NEW n \in 1..(Len(l) + 1), m[n] = t, n # i PROVE FALSE
      OBVIOUS
    <3>1. CASE n < i
      BY <1>4, <2>1, <3>1
    <3>2. CASE n > i
      <4>1. n - 1 \in 1..Len(l) /\ n - 1 >= i /\ (n - 1) + 1 = n
        BY <3>2
      <4> QED
        BY <1>5, <2>1, <4>1
    <3> QED
      BY <3>1, <3>2
  <2>4. CASE m[j] = t
    BY <2>3, <2>4
  <2>5. CASE m[j] # t
    <3>1. PICK x \in 1..Len(l) : m[j] = l[x] /\ x = (IF j < i THEN j ELSE j - 1)
      BY <1>6, <2>5
    <3>2. PICK y \in 1..Len(l) : m[k] = l[y] /\ y = (IF k < i THEN k ELSE k - 1)
      BY <1>6, <2>5
    <3>3. x = y
      BY <2>2, <3>1, <3>2
    <3>4. j # i /\ k # i
      BY <1>3, <2>5
    <3> QED
      BY <3>1, <3>2, <3>3, <3>4
  <2> QED
    BY <2>4, <2>5
<1> QED
  BY <1>1, <1>7, <1>8 DEF m

LEMMA Removing ==
    ASSUME NEW S, NEW l \in Seq(S), NEW i \in 1..Len(l), IsInjective(l)
    PROVE  /\ RemoveAt(l, i) \in Seq(S)
           /\ Range(RemoveAt(l, i)) = Range(l) \ {l[i]}
           /\ IsInjective(RemoveAt(l, i))
<1> DEFINE m == RemoveAt(l, i)
<1>1. /\ m \in Seq(S) /\ Len(m) = Len(l) - 1 /\ Len(l) \in Nat
      /\ \A j \in 1..(Len(l) - 1) : m[j] = IF j < i THEN l[j] ELSE l[j + 1]
  BY RemovedAt
<1> HIDE DEF m
<1>2. DOMAIN m = 1..(Len(l) - 1) /\ DOMAIN l = 1..Len(l)
  BY <1>1
<1>3. \A j, k \in 1..Len(l) : l[j] = l[k] => j = k
  BY <1>2 DEF IsInjective
<1>4. \A j \in 1..(Len(l) - 1) : \E x \in 1..Len(l) :
          m[j] = l[x] /\ x = (IF j < i THEN j ELSE j + 1)
  BY <1>1
<1>5. \A x \in 1..Len(l) : x # i => \E j \in 1..(Len(l) - 1) : m[j] = l[x]
  <2> SUFFICES ASSUME NEW x \in 1..Len(l), x # i
               PROVE  \E j \in 1..(Len(l) - 1) : m[j] = l[x]
    OBVIOUS
  <2>1. CASE x < i
    <3>1. x \in 1..(Len(l) - 1) /\ m[x] = l[x]
      BY <1>1, <2>1
    <3> QED
      BY <3>1
  <2>2. CASE x > i
    <3>1. x - 1 \in 1..(Len(l) - 1) /\ m[x - 1] = l[x]
      BY <1>1, <2>2
    <3> QED
      BY <3>1
  <2> QED
    BY <2>1, <2>2
<1>6. Range(m) = Range(l) \ {l[i]}
  <2>1. \A y \in Range(m) : y \in Range(l) /\ y # l[i]
    <3> SUFFICES ASSUME NEW j \in 1..(Len(l) - 1) PROVE m[j] \in Range(l) /\ m[j] # l[i]
      BY <1>2 DEF Range
    <3>1. PICK x \in 1..Len(l) : m[j] = l[x] /\ x = (IF j < i THEN j ELSE j + 1)
      BY <1>4
    <3>2. x # i
      BY <3>1
    <3> QED
      BY <1>2, <1>3, <3>1, <3>2 DEF Range
  <2>2. \A y \in Range(l) : y # l[i] => y \in Range(m)
    BY <1>2, <1>5 DEF Range
  <2> QED
    BY <2>1, <2>2
<1>7. IsInjective(m)
  <2> SUFFICES ASSUME NEW j \in 1..(Len(l) - 1), NEW k \in 1..(Len(l) - 1), m[j] = m[k]
               PROVE  j = k
    BY <1>2 DEF IsInjective
  <2>1. PICK x \in 1..Len(l) : m[j] = l[x] /\ x = (IF j < i THEN j ELSE j + 1)
    BY <1>4
  <2>2. PICK y \in 1..Len(l) : m[k] = l[y] /\ y = (IF k < i THEN k ELSE k + 1)
    BY <1>4
  <2>3. x = y
    BY <1>3, <2>1, <2>2
  <2> QED
    BY <2>1, <2>2, <2>3
<1> QED
  BY <1>1, <1>6, <1>7 DEF m

(* The first place at which something is found. *)
LEMMA Found ==
    ASSUME NEW S, NEW l \in Seq(S), NEW t \in Range(l)
    PROVE  LET i == SelectInSeq(l, LAMBDA u : u = t)
           IN  i \in 1..Len(l) /\ l[i] = t
<1> DEFINE I == {i \in 1..Len(l) : l[i] = t}
<1>1. I \in SUBSET Nat /\ I # {}
  BY DEF Range
<1>2. Min(I) \in I
  <2> HIDE DEF I
  <2> QED
    BY <1>1, LeastOf
<1>3. SelectInSeq(l, LAMBDA u : u = t) = Min(I)
  BY <1>1 DEF SelectInSeq
<1> QED
  BY <1>2, <1>3

LEMMA UnlinkOf ==
    ASSUME NEW S, NEW l \in Seq(S), NEW t, IsInjective(l)
    PROVE  /\ Unlink(l, t) \in Seq(S)
           /\ Range(Unlink(l, t)) = Range(l) \ {t}
           /\ IsInjective(Unlink(l, t))
           /\ t \in Range(l) => Len(Unlink(l, t)) = Len(l) - 1
<1>1. CASE t \in Range(l)
  <2>1. \E i \in DOMAIN l : l[i] = t
    BY <1>1 DEF Range
  <2>2. PICK i : i = CHOOSE j \in DOMAIN l : l[j] = t
    OBVIOUS
  <2>3. i \in DOMAIN l /\ l[i] = t
    BY <2>1, <2>2
  <2>4. /\ RemoveAt(l, i) \in Seq(S) /\ IsInjective(RemoveAt(l, i))
        /\ Range(RemoveAt(l, i)) = Range(l) \ {l[i]}
        /\ Len(RemoveAt(l, i)) = Len(l) - 1
    <3>1. i \in 1..Len(l)
      BY <2>3
    <3> QED
      BY <3>1, Removing, RemovedAt
  <2>5. Unlink(l, t) = RemoveAt(l, i)
    BY <1>1, <2>2 DEF Unlink
  <2> QED
    BY <2>3, <2>4, <2>5
<1>2. CASE t \notin Range(l)
  BY <1>2 DEF Unlink
<1> QED
  BY <1>1, <1>2

LEMMA Appending ==
    ASSUME NEW S, NEW l \in Seq(S), NEW t \in S
    PROVE  /\ Append(l, t) \in Seq(S)
           /\ Range(Append(l, t)) = Range(l) \cup {t}
           /\ t \notin Range(l) /\ IsInjective(l) => IsInjective(Append(l, t))
<1> DEFINE m == Append(l, t)
<1>1. /\ m \in Seq(S) /\ Len(l) \in Nat
      /\ DOMAIN m = 1..(Len(l) + 1) /\ DOMAIN l = 1..Len(l)
      /\ m[Len(l) + 1] = t /\ \A j \in 1..Len(l) : m[j] = l[j]
  OBVIOUS
<1> HIDE DEF m
<1>2. \A j \in 1..(Len(l) + 1) : j \in 1..Len(l) \/ j = Len(l) + 1
  BY <1>1
<1>3. \A j \in 1..Len(l) : j \in 1..(Len(l) + 1) /\ j # Len(l) + 1
  BY <1>1
<1>4. Len(l) + 1 \in 1..(Len(l) + 1)
  BY <1>1
<1>5. Range(m) = Range(l) \cup {t}
  BY <1>1, <1>2, <1>3, <1>4 DEF Range
<1>6. t \notin Range(l) /\ IsInjective(l) => IsInjective(m)
  BY <1>1, <1>2, <1>3 DEF Range, IsInjective
<1> QED
  BY <1>1, <1>5, <1>6 DEF m
(* The first place in I, or 0. *)
LEMMA FirstPlace ==
    ASSUME NEW n \in Nat, NEW I \in SUBSET (1..n)
    PROVE  LET i == IF I # {} THEN Min(I) ELSE 0
           IN  /\ i \in 0..n
               /\ i = 0 => I = {}
               /\ i # 0 => i \in I
               /\ \A j \in 1..n : j < i => j \notin I
<1>1. CASE I = {}
  BY <1>1
<1>2. CASE I # {}
  <2>1. Min(I) \in I /\ \A y \in I : Min(I) <= y
    <3>1. I \in SUBSET Nat
      OBVIOUS
    <3> QED
      BY <1>2, <3>1, LeastOf
  <2>2. Min(I) \in 1..n /\ \A j \in 1..n : j < Min(I) => j \notin I
    <3>1. PICK m \in 1..n : m = Min(I)
      BY <2>1
    <3>2. \A j \in 1..n : j < m => ~(m <= j)
      OBVIOUS
    <3> QED
      BY <2>1, <3>1, <3>2
  <2>3. (IF I # {} THEN Min(I) ELSE 0) = Min(I) /\ Min(I) \in 0..n /\ Min(I) # 0
    BY <1>2, <2>2
  <2> QED
    BY <2>1, <2>2, <2>3
<1> QED
  BY <1>1, <1>2

LEMMA InsertingBefore ==
    ASSUME NEW S, NEW l \in Seq(S), NEW t \in S, NEW i \in 0..Len(l)
    PROVE  /\ InsertBefore(l, i, t) \in Seq(S)
           /\ Range(InsertBefore(l, i, t)) = Range(l) \cup {t}
           /\ t \notin Range(l) /\ IsInjective(l) => IsInjective(InsertBefore(l, i, t))
<1>1. CASE i = 0
  BY <1>1, Appending DEF InsertBefore
<1>2. CASE i # 0
  <2>1. InsertBefore(l, i, t) = InsertAt(l, i, t) /\ i \in 1..Len(l)
    BY <1>2 DEF InsertBefore
  <2> QED
    BY <2>1, Inserting
<1> QED
  BY <1>1, <1>2

(* A list in the order of a key, and one with an element t that may stand  *)
(* anywhere.                                                               *)
Ordered(l, key) == \A i, j \in DOMAIN l : i < j => key[l[i]] <= key[l[j]]

OrderedBut(l, key, t) ==
    \A i, j \in DOMAIN l : i < j /\ l[i] # t /\ l[j] # t => key[l[i]] <= key[l[j]]

(* t is put in at the place p, where its key fits. *)
LEMMA OrderedWith ==
    ASSUME NEW S, NEW l \in Seq(S), NEW t \in S, NEW key \in [S -> Nat],
           Ordered(l, key), NEW p \in 1..(Len(l) + 1),
           NEW m \in Seq(S), Len(m) = Len(l) + 1,
           \A j \in 1..(Len(l) + 1) :
               m[j] = IF j < p THEN l[j] ELSE IF j = p THEN t ELSE l[j - 1],
           \A j \in 1..Len(l) : j < p => key[l[j]] <= key[t],
           \A j \in 1..Len(l) : j >= p => key[t] <= key[l[j]]
    PROVE  Ordered(m, key)
<1>1. \A j \in 1..(Len(l) + 1) :
          m[j] = IF j < p THEN l[j] ELSE IF j = p THEN t ELSE l[j - 1]
  OBVIOUS
<1>5. \A j \in 1..Len(l) : j < p => key[l[j]] <= key[t]
  OBVIOUS
<1>6. \A j \in 1..Len(l) : j >= p => key[t] <= key[l[j]]
  OBVIOUS
<1>2. p \in 1..(Len(l) + 1) /\ Len(l) \in Nat
  OBVIOUS
<1>3. \A a, b \in 1..Len(l) : a < b => key[l[a]] <= key[l[b]]
  <2>1. DOMAIN l = 1..Len(l)
    OBVIOUS
  <2> QED
    BY <2>1 DEF Ordered
<1>4. \A j \in 1..Len(l) : key[l[j]] \in Nat /\ key[t] \in Nat
  OBVIOUS
<1>7. DOMAIN m = 1..(Len(l) + 1)
  OBVIOUS
<1> SUFFICES ASSUME NEW a \in 1..(Len(l) + 1), NEW b \in 1..(Len(l) + 1), a < b
             PROVE  key[m[a]] <= key[m[b]]
  BY <1>7 DEF Ordered
<1>8. CASE b < p
  <2>1. a \in 1..Len(l) /\ b \in 1..Len(l) /\ a < p
    BY <1>2, <1>8
  <2>2. m[a] = l[a] /\ m[b] = l[b]
    BY <1>1, <1>8, <2>1
  <2> QED
    BY <1>3, <2>1, <2>2
<1>9. CASE b = p
  <2>1. a \in 1..Len(l) /\ a < p
    BY <1>2, <1>9
  <2>2. m[a] = l[a] /\ m[b] = t
    BY <1>1, <1>9, <2>1
  <2> QED
    BY <1>5, <2>1, <2>2
<1>10. CASE b > p
  <2>1. b - 1 \in 1..Len(l) /\ b - 1 >= p
    BY <1>2, <1>10
  <2>2. m[b] = l[b - 1]
    BY <1>1, <1>2, <1>10
  <2>3. CASE a < p
    <3>1. a \in 1..Len(l) /\ a < b - 1
      BY <1>2, <1>10, <2>3
    <3>2. m[a] = l[a]
      BY <1>1, <2>3
    <3> QED
      BY <1>3, <2>1, <2>2, <3>1, <3>2
  <2>4. CASE a = p
    <3>1. m[a] = t
      BY <1>1, <1>2, <2>4
    <3> QED
      BY <1>6, <2>1, <2>2, <3>1
  <2>5. CASE a > p
    <3>1. a - 1 \in 1..Len(l) /\ a - 1 < b - 1
      BY <1>2, <2>5
    <3>2. m[a] = l[a - 1]
      BY <1>1, <1>2, <2>5
    <3> QED
      BY <1>3, <2>1, <2>2, <3>1, <3>2
  <2> QED
    BY <1>2, <2>3, <2>4, <2>5
<1> QED
  BY <1>2, <1>8, <1>9, <1>10

(* Insertion before the first element with a larger key keeps the order. *)
LEMMA InsertOrderedAt ==
    ASSUME NEW S, NEW l \in Seq(S), NEW t \in S, NEW i \in 1..Len(l),
           NEW key \in [S -> Nat], Ordered(l, key), key[t] <= key[l[i]],
           \A j \in 1..Len(l) : j < i => key[l[j]] <= key[t]
    PROVE  Ordered(InsertAt(l, i, t), key)
<1> DEFINE m == InsertAt(l, i, t)
<1>1. /\ m \in Seq(S) /\ Len(m) = Len(l) + 1
      /\ \A j \in 1..(Len(l) + 1) :
             m[j] = IF j < i THEN l[j] ELSE IF j = i THEN t ELSE l[j - 1]
  BY InsertedAt
<1> HIDE DEF m
<1>2. i \in 1..(Len(l) + 1)
  OBVIOUS
<1>3. ASSUME NEW j \in 1..Len(l), j >= i PROVE key[t] <= key[l[j]]
  <2>1. key[l[i]] \in Nat /\ key[l[j]] \in Nat /\ key[t] \in Nat
    OBVIOUS
  <2>2. DOMAIN l = 1..Len(l)
    OBVIOUS
  <2>3. i < j => key[l[i]] <= key[l[j]]
    BY <2>2 DEF Ordered
  <2>4. i = j \/ i < j
    BY <1>3
  <2> QED
    BY <2>1, <2>3, <2>4
<1>4. Ordered(m, key)
  BY <1>1, <1>2, <1>3, OrderedWith
<1> QED
  BY <1>4 DEF m

LEMMA AppendOrdered ==
    ASSUME NEW S, NEW l \in Seq(S), NEW t \in S, NEW key \in [S -> Nat],
           Ordered(l, key), \A j \in 1..Len(l) : key[l[j]] <= key[t]
    PROVE  Ordered(Append(l, t), key)
<1> DEFINE m == Append(l, t)
<1>1. m \in Seq(S) /\ Len(m) = Len(l) + 1 /\ Len(l) + 1 \in 1..(Len(l) + 1)
  OBVIOUS
<1>2. \A j \in 1..(Len(l) + 1) :
          m[j] = IF j < Len(l) + 1 THEN l[j] ELSE IF j = Len(l) + 1 THEN t ELSE l[j - 1]
  OBVIOUS
<1>3. \A j \in 1..Len(l) : ~(j >= Len(l) + 1)
  OBVIOUS
<1> HIDE DEF m
<1>4. Ordered(m, key)
  BY <1>1, <1>2, <1>3, OrderedWith
<1> QED
  BY <1>4 DEF m

LEMMA InsertOrdered ==
    ASSUME NEW S, NEW l \in Seq(S), NEW t \in S, NEW key \in [S -> Nat],
           Ordered(l, key), NEW i \in 0..Len(l),
           i = 0 => \A j \in 1..Len(l) : key[l[j]] <= key[t],
           i # 0 => key[t] <= key[l[i]],
           \A j \in 1..Len(l) : j < i => key[l[j]] <= key[t]
    PROVE  Ordered(InsertBefore(l, i, t), key)
<1>1. CASE i = 0
  <2>1. Ordered(Append(l, t), key)
    BY <1>1, AppendOrdered
  <2> QED
    BY <1>1, <2>1 DEF InsertBefore
<1>2. CASE i # 0
  <2>1. i \in 1..Len(l) /\ key[t] <= key[l[i]]
    BY <1>2
  <2>2. Ordered(InsertAt(l, i, t), key)
    BY <2>1, InsertOrderedAt
  <2> QED
    BY <1>2, <2>2 DEF InsertBefore
<1> QED
  BY <1>1, <1>2

LEMMA RemoveOrdered ==
    ASSUME NEW S, NEW l \in Seq(S), NEW key, NEW i \in 1..Len(l), IsInjective(l),
           OrderedBut(l, key, l[i])
    PROVE  Ordered(RemoveAt(l, i), key)
<1> DEFINE m == RemoveAt(l, i)
<1>1. /\ m \in Seq(S) /\ Len(m) = Len(l) - 1 /\ Len(l) \in Nat
      /\ \A j \in 1..(Len(l) - 1) : m[j] = IF j < i THEN l[j] ELSE l[j + 1]
  BY RemovedAt
<1> HIDE DEF m
<1>2. DOMAIN m = 1..(Len(l) - 1) /\ DOMAIN l = 1..Len(l)
  BY <1>1
<1> SUFFICES ASSUME NEW a \in 1..(Len(l) - 1), NEW b \in 1..(Len(l) - 1), a < b
             PROVE  key[m[a]] <= key[m[b]]
  BY <1>2 DEF Ordered, m
<1>3. PICK x \in 1..Len(l) : m[a] = l[x] /\ x = (IF a < i THEN a ELSE a + 1)
  BY <1>1
<1>4. PICK y \in 1..Len(l) : m[b] = l[y] /\ y = (IF b < i THEN b ELSE b + 1)
  BY <1>1
<1>5. x < y /\ x # i /\ y # i
  BY <1>3, <1>4
<1>6. l[x] # l[i] /\ l[y] # l[i]
  BY <1>2, <1>5 DEF IsInjective
<1> QED
  BY <1>2, <1>3, <1>4, <1>5, <1>6 DEF OrderedBut

LEMMA UnlinkOrdered ==
    ASSUME NEW S, NEW l \in Seq(S), NEW t, NEW key, IsInjective(l), OrderedBut(l, key, t)
    PROVE  Ordered(Unlink(l, t), key)
<1>1. CASE t \in Range(l)
  <2>1. \E i \in DOMAIN l : l[i] = t
    BY <1>1 DEF Range
  <2>2. PICK i : i = CHOOSE j \in DOMAIN l : l[j] = t
    OBVIOUS
  <2>3. i \in 1..Len(l) /\ l[i] = t
    BY <2>1, <2>2
  <2>4. Unlink(l, t) = RemoveAt(l, i)
    BY <1>1, <2>2 DEF Unlink
  <2> QED
    BY <2>3, <2>4, RemoveOrdered
<1>2. CASE t \notin Range(l)
  BY <1>2 DEF Unlink, Range, Ordered, OrderedBut
<1> QED
  BY <1>1, <1>2
=============================================================================
