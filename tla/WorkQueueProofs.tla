-------------------------- MODULE WorkQueueProofs --------------------------
(***************************************************************************)
(* Proofs about work queues for any tasks, works and queues: a work is     *)
(* queued once, a cancelled one stays where it is, and, when no worker     *)
(* that may be deleted calls from its handlers, tokens and works match.    *)
(***************************************************************************)
EXTENDS WorkQueueProperties, FiniteSetTheorems, TLAPS

CallerState == [pc : {"ready", "give", "cancel"},
                q : Queue \cup {NULL}, w : Work \cup {NULL}]
Types ==
    /\ work_list \in [Queue -> Seq(Work)]
    /\ work_current \in [Queue -> Work \cup {NULL}]
    /\ sem \in [Queue -> Nat]
    /\ worker \in [Queue -> {"take", "got", "run", "wild", "gone"}]
    /\ del \in [Queue -> {"no", "tested", "worker", "sem", "gone"}]
    /\ wq \in [Work -> Queue \cup {NULL}] /\ work_exit \in [Work -> {0, 1}]
    /\ caller \in [Caller -> CallerState]
    /\ cancelled \subseteq Work

(* A work is listed and handled at home only; work_exit is exact. *)
ListedHome == \A q \in Queue : \A i \in 1..Len(work_list[q]) :
                  q = Home[work_list[q][i]] /\ work_exit[work_list[q][i]] = 1
ListedOnce == \A q \in Queue : \A i, j \in 1..Len(work_list[q]) :
                  work_list[q][i] = work_list[q][j] => i = j
ExitListed == \A w \in Work : work_exit[w] = 1 =>
                  \E i \in 1..Len(work_list[Home[w]]) : work_list[Home[w]][i] = w
Lists == ListedHome /\ ListedOnce /\ ExitListed

(* What work->wq and a cancel under way know about a work. *)
AtRest(w) == work_exit[w] = 0 /\ work_current[Home[w]] # w
Cancels ==
    /\ \A q \in Queue : work_current[q] \in Work => q = Home[work_current[q]]
    /\ \A w \in Work : wq[w] \in {NULL, Home[w]}
    /\ \A w \in Work : wq[w] = NULL => AtRest(w)
    /\ \A c \in Caller : caller[c].pc = "cancel" =>
           caller[c].w \in Work /\ caller[c].q = Home[caller[c].w]
    /\ \A w \in cancelled \ Delayed : AtRest(w)

Gives == \A c \in Caller : caller[c].pc = "give" => caller[c].q \in Queue

Inv == Types /\ Lists /\ Cancels /\ Gives

(* Only works with a delay have commands and timers. *)
Timers ==
    /\ timer \in [Work -> [cmds : Seq({"start", "stop"}), on : BOOLEAN]]
    /\ \A w \in Work : timer[w].on \/ timer[w].cmds # <<>> => w \in Delayed

-----------------------------------------------------------------------------
(* Sequences. *)
LEMMA AppendIndex ==
    ASSUME NEW S, NEW q \in Seq(S), NEW e \in S
    PROVE  /\ Append(q, e) \in Seq(S) /\ Len(Append(q, e)) = Len(q) + 1
           /\ \A i \in 1..Len(q) : Append(q, e)[i] = q[i]
           /\ Append(q, e)[Len(q) + 1] = e
  OBVIOUS

LEMMA TailIndex ==
    ASSUME NEW S, NEW q \in Seq(S), q # <<>>
    PROVE  /\ Tail(q) \in Seq(S) /\ Len(Tail(q)) = Len(q) - 1 /\ Len(q) >= 1
           /\ Head(q) = q[1] /\ Head(q) \in S
           /\ \A i \in 1..Len(Tail(q)) : Tail(q)[i] = q[i + 1]
  OBVIOUS

LEMMA InitInv == Init => Inv
<1> SUFFICES ASSUME Init PROVE Inv
  OBVIOUS
<1>1. Types
  BY DEF Init, Types, Ready, CallerState
<1>2. Lists
  BY DEF Init, Lists, ListedHome, ListedOnce, ExitListed
<1>3. Cancels /\ Gives
  BY WorkQueueAssumption DEF Init, Cancels, Gives, AtRest, Ready
<1> QED
  BY <1>1, <1>2, <1>3 DEF Inv

(* A work is put at the end of the list of its queue. *)
LEMMA InsertInv ==
    ASSUME Inv, NEW c \in Caller, NEW w \in Work, MayQueue(Home[w], w),
           Insert(c, Home[w], w), UNCHANGED <<work_current, sem, worker, del>>,
           cancelled' = cancelled \ {w} \/ (cancelled' = cancelled /\ w \in Delayed)
    PROVE  Inv'
<1> DEFINE q == Home[w]
           l == work_list[q]
           e == [pc |-> "give", q |-> q, w |-> NULL]
<1>1. /\ q \in Queue /\ l \in Seq(Work) /\ Len(l) \in Nat
      /\ work_current[q] # w /\ work_exit[w] = 0
      /\ work_list' = [work_list EXCEPT ![q] = Append(l, w)]
      /\ wq' = [wq EXCEPT ![w] = q] /\ work_exit' = [work_exit EXCEPT ![w] = 1]
      /\ caller' = [caller EXCEPT ![c] = e]
  <2>1. q \in Queue
    BY WorkQueueAssumption
  <2>2. l \in Seq(Work) /\ Len(l) \in Nat
    BY <2>1 DEF Inv, Types
  <2>3. work_current[q] # w /\ work_exit[w] = 0
    BY DEF MayQueue
  <2> QED
    BY <2>1, <2>2, <2>3 DEF Insert
<1>2. e \in CallerState /\ e.pc = "give" /\ e.q = q
  BY <1>1 DEF CallerState
<1> HIDE DEF e
<1>3. /\ work_list'[q] \in Seq(Work) /\ Len(work_list'[q]) = Len(l) + 1
      /\ \A i \in 1..Len(l) : work_list'[q][i] = l[i]
      /\ work_list'[q][Len(l) + 1] = w
      /\ \A p \in Queue \ {q} : work_list'[p] = work_list[p]
  <2>1. work_list'[q] = Append(l, w) /\ \A p \in Queue \ {q} : work_list'[p] = work_list[p]
    BY <1>1 DEF Inv, Types
  <2> QED
    BY <1>1, <2>1, AppendIndex
<1>4. /\ wq'[w] = q /\ work_exit'[w] = 1 /\ caller'[c] = e
      /\ \A x \in Work \ {w} : wq'[x] = wq[x] /\ work_exit'[x] = work_exit[x]
      /\ \A d \in Caller \ {c} : caller'[d] = caller[d]
  BY <1>1 DEF Inv, Types
<1>5. Types'
  BY <1>1, <1>2, <1>3 DEF Inv, Types
<1>6. \A i \in 1..Len(l) : l[i] # w
  BY <1>1 DEF Inv, Lists, ListedHome
<1>7. \A i \in 1..Len(work_list'[q]) :
          \/ i \in 1..Len(l) /\ work_list'[q][i] = l[i]
          \/ i = Len(l) + 1 /\ work_list'[q][i] = w
  BY <1>1, <1>3
<1> HIDE DEF l
<1>8. ListedHome'
  <2> SUFFICES ASSUME NEW p \in Queue, NEW i \in 1..Len(work_list'[p])
               PROVE  p = Home[work_list'[p][i]] /\ work_exit'[work_list'[p][i]] = 1
    BY DEF ListedHome
  <2>1. CASE p = q /\ work_list'[p][i] = w
    BY <1>4, <2>1
  <2>2. CASE p = q /\ work_list'[p][i] # w
    <3>1. i \in 1..Len(l) /\ work_list'[p][i] = l[i] /\ l[i] \in Work
      BY <1>1, <1>7, <2>2 DEF l
    <3> QED
      BY <1>4, <2>2, <3>1 DEF Inv, Lists, ListedHome, l
  <2>3. CASE p # q
    <3>1. i \in 1..Len(work_list[p]) /\ work_list'[p][i] = work_list[p][i]
          /\ work_list[p][i] \in Work
      BY <1>3, <2>3 DEF Inv, Types
    <3>2. work_list[p][i] # w
      BY <2>3, <3>1 DEF Inv, Lists, ListedHome
    <3> QED
      BY <1>4, <3>1, <3>2 DEF Inv, Lists, ListedHome
  <2> QED
    BY <2>1, <2>2, <2>3
<1>9. ListedOnce'
  <2> SUFFICES ASSUME NEW p \in Queue, NEW i \in 1..Len(work_list'[p]),
                      NEW j \in 1..Len(work_list'[p]), work_list'[p][i] = work_list'[p][j]
               PROVE  i = j
    BY DEF ListedOnce
  <2>1. CASE p = q /\ work_list'[p][i] = w
    BY <1>6, <1>7, <2>1
  <2>2. CASE p = q /\ work_list'[p][i] # w
    BY <1>1, <1>7, <2>2 DEF Inv, Lists, ListedOnce, l
  <2>3. CASE p # q
    BY <1>3, <2>3 DEF Inv, Lists, ListedOnce
  <2> QED
    BY <2>1, <2>2, <2>3
<1>10. ExitListed'
  <2> SUFFICES ASSUME NEW x \in Work, work_exit'[x] = 1
               PROVE  \E i \in 1..Len(work_list'[Home[x]]) : work_list'[Home[x]][i] = x
    BY DEF ExitListed
  <2>1. CASE x = w
    <3>1. Len(l) + 1 \in 1..Len(work_list'[q])
      BY <1>1, <1>3 DEF l
    <3> QED
      BY <1>3, <2>1, <3>1
  <2>2. CASE x # w
    <3>1. PICK i \in 1..Len(work_list[Home[x]]) : work_list[Home[x]][i] = x
      BY <1>4, <2>2 DEF Inv, Lists, ExitListed
    <3>2. Home[x] \in Queue
      BY WorkQueueAssumption
    <3>3. i \in 1..Len(work_list'[Home[x]]) /\ work_list'[Home[x]][i] = x
      BY <1>1, <1>3, <3>1, <3>2 DEF l
    <3> QED
      BY <3>3
  <2> QED
    BY <2>1, <2>2
<1>11. Cancels'
  <2>1. /\ \A p \in Queue : work_current'[p] \in Work => p = Home[work_current'[p]]
        /\ \A x \in Work : wq'[x] \in {NULL, Home[x]}
    BY <1>4 DEF Inv, Cancels
  <2>2. \A x \in Work \ {w} : AtRest(x)' <=> AtRest(x)
    BY <1>4 DEF AtRest
  <2>3. \A x \in Work : wq'[x] = NULL => AtRest(x)'
    BY <1>1, <1>4, <2>2, WorkQueueAssumption DEF Inv, Cancels
  <2>4. \A d \in Caller : caller'[d].pc = "cancel" =>
           caller'[d].w \in Work /\ caller'[d].q = Home[caller'[d].w]
    BY <1>2, <1>4 DEF Inv, Cancels
  <2>5. \A x \in cancelled' \ Delayed : AtRest(x)'
    BY <2>2 DEF Inv, Types, Cancels
  <2> QED
    BY <2>1, <2>3, <2>4, <2>5 DEF Cancels
<1>12. Gives'
  BY <1>1, <1>2, <1>4 DEF Inv, Gives
<1> QED
  BY <1>5, <1>8, <1>9, <1>10, <1>11, <1>12 DEF Inv, Lists

(* The worker takes the first work off its list. *)
LEMMA GetInv ==
    ASSUME Inv, NEW q \in Queue, WorkerGet(q)
    PROVE  Inv'
<1>1. CASE work_list[q] = <<>>
  <2>1. worker' = [worker EXCEPT ![q] = "wild"]
        /\ UNCHANGED <<work_list, work_current, work_exit, sem, del, wq, caller, cancelled>>
    BY <1>1 DEF WorkerGet
  <2>2. Types'
    BY <2>1 DEF Inv, Types
  <2>3. Lists'
    BY <2>1 DEF Inv, Lists, ListedHome, ListedOnce, ExitListed
  <2>4. Cancels' /\ Gives'
    BY <2>1 DEF Inv, Cancels, AtRest, Gives
  <2> QED
    BY <2>2, <2>3, <2>4 DEF Inv
<1>2. CASE work_list[q] # <<>>
  <2> DEFINE l == work_list[q]
             w == Head(l)
  <2>1. /\ work_list' = [work_list EXCEPT ![q] = Tail(l)]
        /\ work_current' = [work_current EXCEPT ![q] = w]
        /\ work_exit' = [work_exit EXCEPT ![w] = 0]
        /\ worker' = [worker EXCEPT ![q] = "run"]
        /\ UNCHANGED <<sem, del, wq, caller, cancelled>>
    BY <1>2 DEF WorkerGet
  <2>2. l \in Seq(Work) /\ l # <<>> /\ Len(l) \in Nat
    BY <1>2 DEF Inv, Types
  <2>3. /\ work_list'[q] \in Seq(Work) /\ Len(work_list'[q]) = Len(l) - 1
        /\ Len(l) >= 1 /\ w = l[1] /\ w \in Work
        /\ \A i \in 1..Len(work_list'[q]) : work_list'[q][i] = l[i + 1]
        /\ \A p \in Queue \ {q} : work_list'[p] = work_list[p]
    <3>1. work_list'[q] = Tail(l) /\ \A p \in Queue \ {q} : work_list'[p] = work_list[p]
      BY <2>1 DEF Inv, Types
    <3> QED
      BY <3>1, <2>2, TailIndex
  <2> HIDE DEF w
  <2>4. /\ work_current'[q] = w /\ work_exit'[w] = 0
        /\ \A p \in Queue \ {q} : work_current'[p] = work_current[p]
        /\ \A x \in Work \ {w} : work_exit'[x] = work_exit[x]
    BY <2>1, <2>3 DEF Inv, Types
  <2>5. Types'
    BY <2>1, <2>3 DEF Inv, Types
  <2>6. 1 \in 1..Len(l) /\ Home[w] = q /\ work_exit[w] = 1
    BY <2>2, <2>3 DEF Inv, Lists, ListedHome
  <2>7. \A i \in 1..Len(work_list'[q]) :
            /\ i + 1 \in 1..Len(l) /\ i \in Nat /\ work_list'[q][i] = l[i + 1]
            /\ l[i + 1] # w /\ l[i + 1] \in Work
    <3>1. \A i \in 1..Len(work_list'[q]) :
            i + 1 \in 1..Len(l) /\ i \in Nat /\ i + 1 # 1 /\ work_list'[q][i] = l[i + 1]
      BY <2>2, <2>3
    <3>2. \A i \in 1..Len(work_list'[q]) : l[i + 1] # w
      BY <2>3, <2>6, <3>1 DEF Inv, Lists, ListedOnce
    <3>3. \A j \in 1..Len(l) : l[j] \in Work
      BY <2>2
    <3> QED
      BY <3>1, <3>2, <3>3
  <2> HIDE DEF l
  <2>8. ListedHome'
    <3> SUFFICES ASSUME NEW p \in Queue, NEW i \in 1..Len(work_list'[p])
                 PROVE  p = Home[work_list'[p][i]] /\ work_exit'[work_list'[p][i]] = 1
      BY DEF ListedHome
    <3>1. CASE p = q
      BY <2>4, <2>7, <3>1 DEF Inv, Lists, ListedHome, l
    <3>2. CASE p # q
      <4>1. i \in 1..Len(work_list[p]) /\ work_list'[p][i] = work_list[p][i]
            /\ work_list[p][i] \in Work
        BY <2>3, <3>2 DEF Inv, Types
      <4>2. p = Home[work_list[p][i]] /\ work_exit[work_list[p][i]] = 1
        BY <4>1 DEF Inv, Lists, ListedHome
      <4> QED
        BY <2>4, <2>6, <3>2, <4>1, <4>2
    <3> QED
      BY <3>1, <3>2
  <2>9. ListedOnce'
    <3> SUFFICES ASSUME NEW p \in Queue, NEW i \in 1..Len(work_list'[p]),
                        NEW j \in 1..Len(work_list'[p]), work_list'[p][i] = work_list'[p][j]
                 PROVE  i = j
      BY DEF ListedOnce
    <3>1. CASE p = q
      <4>1. i + 1 \in 1..Len(l) /\ j + 1 \in 1..Len(l) /\ l[i + 1] = l[j + 1]
            /\ i \in Nat /\ j \in Nat
        BY <2>7, <3>1
      <4>2. i + 1 = j + 1
        BY <4>1 DEF Inv, Lists, ListedOnce, l
      <4> QED
        BY <4>1, <4>2
    <3>2. CASE p # q
      BY <2>3, <3>2 DEF Inv, Lists, ListedOnce
    <3> QED
      BY <3>1, <3>2
  <2>10. ExitListed'
    <3> SUFFICES ASSUME NEW x \in Work, work_exit'[x] = 1
                 PROVE  \E i \in 1..Len(work_list'[Home[x]]) : work_list'[Home[x]][i] = x
      BY DEF ExitListed
    <3>1. x # w /\ work_exit[x] = 1
      BY <2>4
    <3>2. PICK i \in 1..Len(work_list[Home[x]]) : work_list[Home[x]][i] = x
      BY <3>1 DEF Inv, Lists, ExitListed
    <3>3. CASE Home[x] = q
      <4>1. i \in 1..Len(l) /\ l[i] = x /\ i # 1
        BY <2>3, <3>1, <3>2, <3>3 DEF l
      <4>2. i - 1 \in 1..Len(work_list'[q]) /\ (i - 1) + 1 = i
        BY <2>2, <2>3, <4>1
      <4>3. work_list'[q][i - 1] = x
        BY <2>3, <4>1, <4>2
      <4> QED
        BY <3>3, <4>2, <4>3
    <3>4. CASE Home[x] # q
      <4>1. Home[x] \in Queue
        BY WorkQueueAssumption
      <4> QED
        BY <2>3, <3>2, <3>4, <4>1
    <3> QED
      BY <3>3, <3>4
  <2>11. Cancels'
    <3>1. \A x \in Work : AtRest(x) => x # w
      BY <2>6 DEF AtRest
    <3>2. \A x \in Work : AtRest(x) => AtRest(x)'
      <4> SUFFICES ASSUME NEW x \in Work, AtRest(x) PROVE AtRest(x)'
        OBVIOUS
      <4>1. x # w /\ Home[x] \in Queue
        BY <3>1, WorkQueueAssumption
      <4>2. work_exit'[x] = 0
        BY <2>4, <4>1 DEF AtRest
      <4>3. work_current'[Home[x]] # x
        BY <2>4, <4>1 DEF AtRest
      <4> QED
        BY <4>2, <4>3 DEF AtRest
    <3>3. \A p \in Queue : work_current'[p] \in Work => p = Home[work_current'[p]]
      BY <2>4, <2>6 DEF Inv, Cancels
    <3> QED
      BY <2>1, <3>2, <3>3 DEF Inv, Cancels, Types
  <2>12. Gives'
    BY <2>1 DEF Inv, Gives
  <2> QED
    BY <2>5, <2>8, <2>9, <2>10, <2>11, <2>12 DEF Inv, Lists
<1> QED
  BY <1>1, <1>2

(* Steps that touch neither a list nor work_exit. *)
LEMMA ListsStill ==
    ASSUME Inv, UNCHANGED <<work_list, work_exit>>
    PROVE  Lists'
  BY DEF Inv, Lists, ListedHome, ListedOnce, ExitListed

LEMMA CancelInv ==
    ASSUME Inv, NEW c \in Caller, NEW w \in Work, WorkCancel(c, w)
    PROVE  Inv'
<1>1. UNCHANGED <<work_list, work_current, sem, worker, del, wq, work_exit>>
  BY DEF WorkCancel, queueVars
<1>2. CASE wq[w] = NULL
  <2>1. UNCHANGED caller /\ cancelled' = cancelled \cup {w}
    BY <1>2 DEF WorkCancel
  <2>2. AtRest(w)
    BY <1>2 DEF Inv, Cancels
  <2>3. Types'
    BY <1>1, <2>1 DEF Inv, Types
  <2>4. Cancels' /\ Gives'
    BY <1>1, <2>1, <2>2 DEF Inv, Cancels, Gives, AtRest
  <2> QED
    BY <1>1, <2>3, <2>4, ListsStill DEF Inv
<1>3. CASE wq[w] # NULL
  <2> DEFINE e == [pc |-> "cancel", q |-> wq[w], w |-> w]
  <2>1. UNCHANGED cancelled /\ caller' = [caller EXCEPT ![c] = e]
    BY <1>3 DEF WorkCancel
  <2>2. e \in CallerState /\ e.pc = "cancel" /\ e.w = w /\ e.q = Home[w]
    BY <1>3 DEF Inv, Types, Cancels, CallerState
  <2> HIDE DEF e
  <2>3. caller'[c] = e /\ \A d \in Caller \ {c} : caller'[d] = caller[d]
    BY <2>1 DEF Inv, Types
  <2>4. Types'
    BY <1>1, <2>1, <2>2 DEF Inv, Types
  <2>5. Cancels' /\ Gives'
    BY <1>1, <2>1, <2>2, <2>3 DEF Inv, Cancels, Gives, AtRest
  <2> QED
    BY <1>1, <2>4, <2>5, ListsStill DEF Inv
<1> QED
  BY <1>2, <1>3

LEMMA CancelEndInv ==
    ASSUME Inv, NEW c \in Caller, WorkCancelEnd(c)
    PROVE  Inv'
<1> DEFINE w == caller[c].w
<1>1. /\ caller[c].pc = "cancel" /\ caller' = [caller EXCEPT ![c] = Ready]
      /\ UNCHANGED <<work_list, work_current, sem, worker, del, work_exit>>
  BY DEF WorkCancelEnd, queueVars
<1>2. w \in Work /\ caller[c].q = Home[w]
  BY <1>1 DEF Inv, Cancels
<1>3. Ready \in CallerState /\ Ready.pc = "ready"
  BY DEF Ready, CallerState
<1>4. caller'[c] = Ready /\ \A d \in Caller \ {c} : caller'[d] = caller[d]
  BY <1>1 DEF Inv, Types
<1>5. CASE MayCancel(Home[w], w)
  <2>1. wq' = [wq EXCEPT ![w] = NULL] /\ cancelled' = cancelled \cup {w}
    BY <1>2, <1>5 DEF WorkCancelEnd
  <2>2. AtRest(w)
    BY <1>5 DEF MayCancel, AtRest
  <2>3. wq'[w] = NULL /\ \A x \in Work \ {w} : wq'[x] = wq[x]
    BY <1>2, <2>1 DEF Inv, Types
  <2> HIDE DEF w
  <2>4. Types'
    BY <1>1, <1>2, <1>3, <2>1 DEF Inv, Types
  <2>5. Cancels' /\ Gives'
    BY <1>1, <1>3, <1>4, <2>1, <2>2, <2>3 DEF Inv, Cancels, Gives, AtRest
  <2> QED
    BY <1>1, <2>4, <2>5, ListsStill DEF Inv
<1>6. CASE ~MayCancel(Home[w], w)
  <2>1. UNCHANGED <<wq, cancelled>>
    BY <1>2, <1>6 DEF WorkCancelEnd
  <2> HIDE DEF w
  <2>2. Types'
    BY <1>1, <1>3, <2>1 DEF Inv, Types
  <2>3. Cancels' /\ Gives'
    BY <1>1, <1>3, <1>4, <2>1 DEF Inv, Cancels, Gives, AtRest
  <2> QED
    BY <1>1, <2>2, <2>3, ListsStill DEF Inv
<1> QED
  BY <1>5, <1>6

(* Steps that only end something. *)
LEMMA QuietInv ==
    ASSUME Inv, Types', UNCHANGED <<work_list, work_exit, wq>>,
           cancelled' \subseteq cancelled,
           \A q \in Queue : work_current'[q] \in {work_current[q], NULL},
           \A c \in Caller : caller'[c] \in {caller[c], Ready}
    PROVE  Inv'
<1>1. \A x \in Work : AtRest(x) => AtRest(x)'
  <2> SUFFICES ASSUME NEW x \in Work, AtRest(x) PROVE AtRest(x)'
    OBVIOUS
  <2>1. Home[x] \in Queue /\ x # NULL
    BY WorkQueueAssumption
  <2> QED
    BY <2>1 DEF AtRest
<1>2. \A q \in Queue : work_current'[q] \in Work => q = Home[work_current'[q]]
  BY WorkQueueAssumption DEF Inv, Cancels
<1>3. Ready.pc = "ready"
  BY DEF Ready
<1>4. \A c \in Caller : caller'[c].pc = "cancel" =>
           caller'[c].w \in Work /\ caller'[c].q = Home[caller'[c].w]
  BY <1>3 DEF Inv, Cancels
<1>5. Cancels'
  BY <1>1, <1>2, <1>4 DEF Inv, Cancels, Types
<1>6. Gives'
  BY <1>3 DEF Inv, Gives
<1> QED
  BY <1>5, <1>6, ListsStill DEF Inv

LEMMA TimersInv ==
    ASSUME Timers, [Next]_vars
    PROVE  Timers'
<1>1. ASSUME NEW w \in Work, NEW cmd \in {"start", "stop"}, w \in Delayed, SendCmd(w, cmd)
      PROVE  Timers'
  <2>1. timer' = [timer EXCEPT ![w].cmds = Append(timer[w].cmds, cmd)]
    BY <1>1 DEF SendCmd
  <2>2. Append(timer[w].cmds, cmd) \in Seq({"start", "stop"})
    BY <1>1 DEF Timers
  <2> QED
    BY <1>1, <2>1, <2>2 DEF Timers
<1>2. ASSUME NEW w \in Work, TimerCmd(w)
      PROVE  Timers'
  <2> DEFINE on == Head(timer[w].cmds) = "start"
  <2>1. timer' = [timer EXCEPT ![w] = [cmds |-> Tail(timer[w].cmds), on |-> on]]
    BY <1>2 DEF TimerCmd
  <2>2. Tail(timer[w].cmds) \in Seq({"start", "stop"}) /\ w \in Delayed /\ on \in BOOLEAN
    BY <1>2 DEF TimerCmd, Timers
  <2> HIDE DEF on
  <2> QED
    BY <2>1, <2>2 DEF Timers
<1>3. ASSUME NEW w \in Work, WorkTimerCb(w)
      PROVE  Timers'
  <2>1. timer' = [timer EXCEPT ![w].on = FALSE]
    BY <1>3 DEF WorkTimerCb
  <2> QED
    BY <2>1 DEF Timers
<1>4. ASSUME UNCHANGED timer PROVE Timers'
  BY <1>4 DEF Timers
<1>5. ASSUME NEW c \in Caller, NEW w \in Work,
             WorkRun(c, w) \/ WorkRunDelayed(c, w) \/ WorkCancel(c, w)
      PROVE  Timers'
  BY <1>1, <1>4, <1>5 DEF WorkRun, WorkRunDelayed, WorkCancel
<1>6. ASSUME NEW c \in Caller, SemGive(c) \/ WorkCancelEnd(c)
      PROVE  Timers'
  BY <1>4, <1>6 DEF SemGive, WorkCancelEnd
<1>7. ASSUME NEW q \in Queue,
             \/ WorkerTake(q) \/ WorkerGet(q) \/ WorkerDone(q)
             \/ WorkqueueDel(q) \/ DelWorker(q) \/ DelEnd(q)
      PROVE  Timers'
  BY <1>4, <1>7
     DEF WorkerTake, WorkerGet, WorkerDone, WorkqueueDel, DelWorker, DelEnd
<1>8. CASE UNCHANGED vars
  BY <1>4, <1>8 DEF vars
<1> QED
  BY <1>2, <1>3, <1>5, <1>6, <1>7, <1>8 DEF Next

LEMMA NextInv ==
    ASSUME Inv, Timers, [Next]_vars
    PROVE  Inv'
<1>1. CASE UNCHANGED vars
  <2>1. UNCHANGED <<queueVars, wq, work_exit, caller, cancelled>>
    BY <1>1 DEF vars
  <2>2. Types'
    BY <2>1 DEF Inv, Types, queueVars
  <2> QED
    BY <2>1, <2>2, QuietInv DEF queueVars
<1>2. ASSUME NEW c \in Caller, NEW w \in Work, WorkRun(c, w)
      PROVE  Inv'
  BY <1>2, InsertInv DEF WorkRun
<1>3. ASSUME NEW c \in Caller, NEW w \in Work, WorkRunDelayed(c, w)
      PROVE  Inv'
  <2>1. UNCHANGED <<queueVars, wq, work_exit, caller>> /\ cancelled' = cancelled \ {w}
    BY <1>3 DEF WorkRunDelayed
  <2>2. Types'
    BY <2>1 DEF Inv, Types, queueVars
  <2> QED
    BY <2>1, <2>2, QuietInv DEF queueVars
<1>4. ASSUME NEW c \in Caller, SemGive(c)
      PROVE  Inv'
  <2>1. caller' = [caller EXCEPT ![c] = Ready] /\ Ready \in CallerState
        /\ UNCHANGED <<work_list, work_current, worker, del, wq, work_exit, cancelled>>
    BY <1>4 DEF SemGive, Ready, CallerState
  <2>2. sem' \in [Queue -> Nat]
    <3>1. sem \in [Queue -> Nat] /\ caller[c].q \in Queue
      BY <1>4 DEF SemGive, Inv, Types, Gives
    <3>2. sem' = sem \/ sem' = [sem EXCEPT ![caller[c].q] = sem[caller[c].q] + 1]
      BY <1>4 DEF SemGive
    <3> QED
      BY <3>1, <3>2
  <2>3. Types'
    BY <2>1, <2>2 DEF Inv, Types
  <2>4. \A d \in Caller : caller'[d] \in {caller[d], Ready}
    BY <2>1 DEF Inv, Types
  <2> QED
    BY <2>1, <2>3, <2>4, QuietInv
<1>5. ASSUME NEW w \in Work, TimerCmd(w)
      PROVE  Inv'
  <2>1. UNCHANGED <<queueVars, wq, work_exit, caller, cancelled>>
    BY <1>5 DEF TimerCmd
  <2>2. Types'
    BY <2>1 DEF Inv, Types, queueVars
  <2> QED
    BY <2>1, <2>2, QuietInv DEF queueVars
<1>6. ASSUME NEW w \in Work, WorkTimerCb(w)
      PROVE  Inv'
  <2>1. CASE MayQueue(Home[w], w)
    <3>1. Timer \in Caller /\ w \in Delayed
      BY <1>6 DEF Caller, Timers, WorkTimerCb
    <3>2. Insert(Timer, Home[w], w) /\ UNCHANGED <<work_current, sem, worker, del, cancelled>>
      BY <1>6, <2>1 DEF WorkTimerCb
    <3> QED
      BY <2>1, <3>1, <3>2, InsertInv
  <2>2. CASE ~MayQueue(Home[w], w)
    <3>1. UNCHANGED <<queueVars, wq, work_exit, caller, cancelled>>
      BY <1>6, <2>2 DEF WorkTimerCb, queueVars
    <3>2. Types'
      BY <3>1 DEF Inv, Types, queueVars
    <3> QED
      BY <3>1, <3>2, QuietInv DEF queueVars
  <2> QED
    BY <2>1, <2>2
<1>7. ASSUME NEW q \in Queue, WorkerTake(q)
      PROVE  Inv'
  <2>1. /\ UNCHANGED <<work_list, work_current, del, wq, work_exit, caller, cancelled>>
        /\ sem[q] > 0 /\ sem' = [sem EXCEPT ![q] = sem[q] - 1]
        /\ worker' = [worker EXCEPT ![q] = "got"]
    BY <1>7 DEF WorkerTake
  <2>2. Types'
    BY <2>1 DEF Inv, Types
  <2> QED
    BY <2>1, <2>2, QuietInv
<1>8. ASSUME NEW q \in Queue, WorkerDone(q)
      PROVE  Inv'
  <2>1. /\ UNCHANGED <<work_list, sem, del, wq, work_exit, caller, cancelled>>
        /\ work_current' = [work_current EXCEPT ![q] = NULL]
        /\ worker' = [worker EXCEPT ![q] = "take"]
    BY <1>8 DEF WorkerDone
  <2>2. Types' /\ \A p \in Queue : work_current'[p] \in {work_current[p], NULL}
    BY <2>1 DEF Inv, Types
  <2> QED
    BY <2>1, <2>2, QuietInv
<1>9. ASSUME NEW q \in Queue, WorkqueueDel(q) \/ DelEnd(q)
      PROVE  Inv'
  <2>1. /\ UNCHANGED <<work_list, work_current, sem, worker, wq, work_exit, caller, cancelled>>
        /\ \E d \in {"tested", "sem", "gone"} : del' = [del EXCEPT ![q] = d]
    BY <1>9 DEF WorkqueueDel, DelEnd
  <2>2. Types'
    BY <2>1 DEF Inv, Types
  <2> QED
    BY <2>1, <2>2, QuietInv
<1>10. ASSUME NEW q \in Queue, DelWorker(q)
       PROVE  Inv'
  <2>1. /\ UNCHANGED <<work_list, work_current, sem, wq, work_exit, cancelled>>
        /\ del' = [del EXCEPT ![q] = "worker"]
        /\ worker' = [worker EXCEPT ![q] = "gone"]
        /\ caller' = [caller EXCEPT ![q] = Ready] /\ Ready \in CallerState
    BY <1>10 DEF DelWorker, Ready, CallerState
  <2>2. Types' /\ \A d \in Caller : caller'[d] \in {caller[d], Ready}
    BY <2>1 DEF Inv, Types
  <2> QED
    BY <2>1, <2>2, QuietInv
<1>11. CASE Next
  BY <1>2, <1>3, <1>4, <1>5, <1>6, <1>7, <1>8, <1>9, <1>10, <1>11,
     CancelInv, CancelEndInv, GetInv DEF Next
<1> QED
  BY <1>1, <1>11

LEMMA InvAlways == Spec => [](Inv /\ Timers)
<1>1. Init => Timers
  BY DEF Init, Timers, Stopped
<1>2. Inv /\ Timers /\ [Next]_vars => Inv' /\ Timers'
  BY NextInv, TimersInv
<1> QED
  BY InitInv, <1>1, <1>2, PTL DEF Spec

(* After krhino_work_cancel returned RHINO_SUCCESS the handler of a work   *)
(* without delay neither runs nor starts, until it is run again.           *)
THEOREM CancelAlwaysHolds == Spec => []CancelHolds
<1>1. Inv => CancelHolds
  BY DEF Inv, Types, Cancels, AtRest, CancelHolds
<1> QED
  BY <1>1, InvAlways, PTL

(* A work is queued at most once, and work_exit says whether it is. *)
THEOREM QueuedAtMostOnce == Spec => []QueuedOnce
<1>1. Inv => QueuedOnce
  <2> SUFFICES ASSUME Inv, NEW w \in Work PROVE Cardinality(Places(w)) = work_exit[w]
    BY DEF QueuedOnce
  <2>1. \A q \in Queue : DOMAIN work_list[q] = 1..Len(work_list[q])
    BY DEF Inv, Types
  <2>2. \A p : p \in Places(w) <=>
            \E q \in Queue : \E i \in 1..Len(work_list[q]) :
                p = <<q, i>> /\ work_list[q][i] = w
    BY <2>1 DEF Places, Entry
  <2>3. CASE work_exit[w] = 0
    <3>1. Places(w) = {}
      BY <2>2, <2>3 DEF Inv, Lists, ListedHome
    <3> QED
      BY <2>3, <3>1, FS_EmptySet
  <2>4. CASE work_exit[w] = 1
    <3>1. PICK i \in 1..Len(work_list[Home[w]]) : work_list[Home[w]][i] = w
      BY <2>4 DEF Inv, Lists, ExitListed
    <3>2. Home[w] \in Queue
      BY WorkQueueAssumption
    <3>3. \A q \in Queue : \A j \in 1..Len(work_list[q]) :
              work_list[q][j] = w => q = Home[w] /\ j = i
      BY <3>1, <3>2 DEF Inv, Lists, ListedHome, ListedOnce
    <3>4. Places(w) = {<<Home[w], i>>}
      BY <2>2, <3>1, <3>2, <3>3
    <3> QED
      BY <2>4, <3>4, FS_Singleton
  <2> QED
    BY <2>3, <2>4 DEF Inv, Types
<1> QED
  BY <1>1, InvAlways, PTL

-----------------------------------------------------------------------------
(* Tokens.  A worker that is deleted in the middle of krhino_work_run      *)
(* takes the token with it that it was about to give: no queue may be      *)
(* deleted whose handlers call.                                            *)
NoCallerDeleted == Calling \cap Deletable = {} /\ IsFiniteSet(Caller)

Silent ==
    /\ \A q \in Queue \ Calling : caller[q] = Ready
    /\ \A q \in Queue : del[q] # "no" => q \in Deletable
Got(q) == IF worker[q] = "got" THEN 1 ELSE 0
Match(q) == Len(work_list[q]) = sem[q] + Cardinality(Giving(q)) + Got(q)
Counted(q) == del[q] \in {"no", "tested"}
TokenInv == Silent /\ TokensMatch

LEMMA MatchAll == TokensMatch <=> \A q \in Queue : Counted(q) => Match(q)
  BY DEF TokensMatch, Counted, Match, Got

LEMMA GivingFinite ==
    ASSUME NoCallerDeleted, NEW q
    PROVE  IsFiniteSet(Giving(q)) /\ Cardinality(Giving(q)) \in Nat
<1>1. Giving(q) \in SUBSET Caller
  BY DEF Giving
<1> QED
  BY <1>1, FS_Subset, FS_CardinalityType DEF NoCallerDeleted

(* Nobody begins or ends to give a token. *)
LEMMA GivingStill ==
    ASSUME \A c \in Caller : \/ caller'[c] = caller[c]
                             \/ caller[c].pc # "give" /\ caller'[c].pc # "give"
    PROVE  \A q : Giving(q)' = Giving(q)
  BY DEF Giving

(* A work and its token. *)
LEMMA InsertTokens ==
    ASSUME Inv, TokenInv, NoCallerDeleted, NEW c \in Caller, NEW q \in Queue,
           NEW w \in Work, caller[c] = Ready, c \in Queue => c \in Calling,
           Insert(c, q, w), UNCHANGED <<sem, worker, del>>
    PROVE  TokenInv'
<1> DEFINE e == [pc |-> "give", q |-> q, w |-> NULL]
<1>1. /\ work_list[q] \in Seq(Work) /\ Len(work_list[q]) \in Nat
      /\ work_list' = [work_list EXCEPT ![q] = Append(work_list[q], w)]
      /\ caller' = [caller EXCEPT ![c] = e]
  BY DEF Insert, Inv, Types
<1>2. e.pc = "give" /\ e.q = q /\ Ready.pc = "ready"
  BY DEF Ready
<1> HIDE DEF e
<1>3. caller'[c] = e /\ \A d \in Caller \ {c} : caller'[d] = caller[d]
  BY <1>1 DEF Inv, Types
<1>4. /\ Len(work_list'[q]) = Len(work_list[q]) + 1
      /\ \A p \in Queue \ {q} : work_list'[p] = work_list[p]
  BY <1>1, AppendIndex DEF Inv, Types
<1>5. Giving(q)' = Giving(q) \cup {c} /\ c \notin Giving(q)
      /\ \A p \in Queue \ {q} : Giving(p)' = Giving(p)
  BY <1>2, <1>3 DEF Giving
<1>6. Cardinality(Giving(q)') = Cardinality(Giving(q)) + 1
  <2>1. IsFiniteSet(Giving(q))
    BY GivingFinite
  <2>2. Cardinality(Giving(q) \cup {c}) = Cardinality(Giving(q)) + 1
    BY <1>5, <2>1, FS_AddElement
  <2> QED
    BY <1>5, <2>2
<1>7. \A p \in Queue : Match(p) => Match(p)'
  <2>1. sem[q] \in Nat /\ Cardinality(Giving(q)) \in Nat
    BY GivingFinite DEF Inv, Types
  <2>2. ASSUME Match(q) PROVE Match(q)'
    <3>1. Got(q)' = Got(q) /\ Got(q) \in {0, 1}
      BY DEF Got
    <3>2. sem'[q] = sem[q]
      OBVIOUS
    <3>3. Len(work_list'[q]) = Len(work_list[q]) + 1
      BY <1>4
    <3> QED
      <4>1. Len(work_list[q]) = sem[q] + Cardinality(Giving(q)) + Got(q)
        BY <2>2 DEF Match
      <4>2. Len(work_list'[q]) = (sem[q] + Cardinality(Giving(q)) + Got(q)) + 1
        BY <3>3, <4>1
      <4>3. @ = sem[q] + (Cardinality(Giving(q)) + 1) + Got(q)
        BY <2>1, <3>1
      <4> QED
        BY <1>6, <3>1, <3>2, <4>2, <4>3 DEF Match
  <2>3. \A p \in Queue \ {q} : Match(p) => Match(p)'
    BY <1>4, <1>5 DEF Match, Got
  <2> QED
    BY <2>2, <2>3
<1>8. TokensMatch'
  BY <1>7 DEF TokenInv, TokensMatch, Match, Got
<1>9. Silent'
  BY <1>3 DEF TokenInv, Silent, Caller
<1> QED
  BY <1>8, <1>9 DEF TokenInv

LEMMA GiveTokens ==
    ASSUME Inv, TokenInv, NoCallerDeleted, NEW c \in Caller, SemGive(c),
           NEW q \in Queue, caller[c].q = q
    PROVE  TokenInv'
<1>1. /\ caller[c].pc = "give" /\ caller' = [caller EXCEPT ![c] = Ready]
      /\ UNCHANGED <<work_list, worker, del>>
  BY DEF SemGive
<1>2. sem' = IF del[q] \in {"sem", "gone"} THEN sem ELSE [sem EXCEPT ![q] = sem[q] + 1]
  BY DEF SemGive
<1>3. caller'[c] = Ready /\ \A d \in Caller \ {c} : caller'[d] = caller[d]
  BY <1>1 DEF Inv, Types
<1>4. Ready.pc = "ready"
  BY DEF Ready
<1>5. Giving(q)' = Giving(q) \ {c} /\ c \in Giving(q)
      /\ \A p \in Queue \ {q} : Giving(p)' = Giving(p)
  BY <1>1, <1>3, <1>4 DEF Giving
<1>6. Cardinality(Giving(q)') = Cardinality(Giving(q)) - 1
  <2>1. IsFiniteSet(Giving(q))
    BY GivingFinite
  <2>2. Cardinality(Giving(q) \ {c}) = Cardinality(Giving(q)) - 1
    BY <1>5, <2>1, FS_RemoveElement
  <2> QED
    BY <1>5, <2>2
<1>7. \A p \in Queue : Counted(p) /\ Match(p) => Match(p)'
  <2>1. ASSUME Counted(q), Match(q) PROVE Match(q)'
    <3>1. sem'[q] = sem[q] + 1
      BY <1>1, <1>2, <2>1 DEF Counted, Inv, Types
    <3>2. Got(q)' = Got(q) /\ Got(q) \in {0, 1}
      BY <1>1 DEF Got
    <3>3. sem[q] \in Nat /\ Cardinality(Giving(q)) \in Nat
      BY <1>1, GivingFinite DEF Inv, Types
    <3>4. Len(work_list'[q]) = Len(work_list[q])
      BY <1>1
    <3> QED
      BY <1>6, <2>1, <3>1, <3>2, <3>3, <3>4 DEF Match
  <2>2. \A p \in Queue \ {q} : Match(p) => Match(p)'
    <3>1. \A p \in Queue \ {q} : sem'[p] = sem[p]
      BY <1>1, <1>2 DEF Inv, Types
    <3> QED
      BY <1>1, <1>5, <3>1 DEF Match, Got
  <2> QED
    BY <2>1, <2>2
<1>8. TokensMatch'
  BY <1>1, <1>7 DEF TokenInv, TokensMatch, Match, Got, Counted
<1>9. Silent'
  BY <1>1, <1>3 DEF TokenInv, Silent, Caller
<1> QED
  BY <1>8, <1>9 DEF TokenInv

(* Steps of a queue that is counted keep the balance, one by one. *)
LEMMA WorkerTokens ==
    ASSUME Inv, TokenInv, NoCallerDeleted, NEW q \in Queue,
           WorkerTake(q) \/ WorkerGet(q) \/ WorkerDone(q)
    PROVE  TokenInv'
<1>1. UNCHANGED <<del, caller>>
  BY DEF WorkerTake, WorkerGet, WorkerDone
<1>2. \A p : Giving(p)' = Giving(p)
  BY <1>1 DEF Giving
<1>3. sem[q] \in Nat /\ Cardinality(Giving(q)) \in Nat /\ work_list[q] \in Seq(Work)
      /\ Len(work_list[q]) \in Nat
  BY GivingFinite DEF Inv, Types
<1>4. \A p \in Queue \ {q} : /\ work_list'[p] = work_list[p] /\ sem'[p] = sem[p]
                             /\ worker'[p] = worker[p]
  BY DEF WorkerTake, WorkerGet, WorkerDone, Inv, Types
<1>5. Counted(q) => Match(q)
  BY DEF TokenInv, TokensMatch, Match, Got, Counted
<1>6. ASSUME Counted(q) PROVE Match(q)'
  <2>1. CASE WorkerTake(q)
    <3>1. sem'[q] = sem[q] - 1 /\ worker[q] = "take" /\ worker'[q] = "got"
          /\ work_list'[q] = work_list[q]
      BY <2>1 DEF WorkerTake, Inv, Types
    <3>2. Got(q) = 0 /\ Got(q)' = 1
      BY <3>1 DEF Got
    <3> QED
      BY <1>2, <1>3, <1>5, <1>6, <3>1, <3>2 DEF Match
  <2>2. CASE WorkerGet(q)
    <3>1. worker[q] = "got" /\ Got(q) = 1 /\ sem'[q] = sem[q]
      BY <2>2 DEF WorkerGet, Got
    <3>2. Len(work_list[q]) >= 1
      BY <1>3, <1>5, <1>6, <3>1 DEF Match
    <3>3. work_list[q] # <<>>
      BY <3>2
    <3>4. work_list'[q] = Tail(work_list[q]) /\ worker'[q] = "run"
      BY <2>2, <3>3 DEF WorkerGet, Inv, Types
    <3>5. Got(q)' = 0 /\ Len(work_list'[q]) = Len(work_list[q]) - 1
      BY <1>3, <3>3, <3>4, TailIndex DEF Got
    <3>6. Len(work_list[q]) = sem[q] + Cardinality(Giving(q)) + 1
      BY <1>5, <1>6, <3>1 DEF Match
    <3>7. Len(work_list'[q]) = sem'[q] + Cardinality(Giving(q)')
      BY <1>2, <1>3, <3>1, <3>5, <3>6
    <3>8. Cardinality(Giving(q)') \in Nat
      BY <1>2, <1>3
    <3> QED
      BY <1>3, <3>1, <3>5, <3>7, <3>8 DEF Match
  <2>3. CASE WorkerDone(q)
    <3>1. worker[q] = "run" /\ worker'[q] = "take" /\ sem'[q] = sem[q]
          /\ work_list'[q] = work_list[q]
      BY <2>3 DEF WorkerDone, Inv, Types
    <3>2. Got(q) = 0 /\ Got(q)' = 0
      BY <3>1 DEF Got
    <3> QED
      BY <1>2, <1>3, <1>5, <1>6, <3>1, <3>2 DEF Match
  <2> QED
    BY <2>1, <2>2, <2>3
<1>7. TokensMatch'
  <2>1. \A p \in Queue \ {q} : Match(p) => Match(p)'
    BY <1>2, <1>4 DEF Match, Got
  <2> QED
    BY <1>1, <1>6, <2>1 DEF TokenInv, TokensMatch, Match, Got, Counted
<1>8. Silent'
  BY <1>1 DEF TokenInv, Silent
<1> QED
  BY <1>7, <1>8 DEF TokenInv

LEMMA DelTokens ==
    ASSUME Inv, TokenInv, NoCallerDeleted, NEW q \in Queue,
           WorkqueueDel(q) \/ DelWorker(q) \/ DelEnd(q)
    PROVE  TokenInv'
<1>1. CASE WorkqueueDel(q) \/ DelEnd(q)
  <2>1. UNCHANGED <<work_list, sem, worker, caller>>
    BY <1>1 DEF WorkqueueDel, DelEnd
  <2>2. \A p \in Queue : Counted(p)' => Counted(p)
    BY <1>1 DEF WorkqueueDel, DelEnd, Counted, Inv, Types
  <2>3. \A p : Match(p)' <=> Match(p)
    BY <2>1 DEF Match, Giving, Got
  <2>4. TokensMatch'
    BY <2>2, <2>3 DEF TokenInv, TokensMatch, Match, Got, Counted
  <2>5. \A p \in Queue : del'[p] # "no" => p \in Deletable
    BY <1>1 DEF WorkqueueDel, DelEnd, TokenInv, Silent, Inv, Types
  <2> QED
    BY <2>1, <2>4, <2>5 DEF TokenInv, Silent
<1>2. CASE DelWorker(q)
  <2>1. /\ del[q] = "tested" /\ UNCHANGED <<work_list, sem>>
        /\ del' = [del EXCEPT ![q] = "worker"]
        /\ worker' = [worker EXCEPT ![q] = "gone"]
        /\ caller' = [caller EXCEPT ![q] = Ready]
    BY <1>2 DEF DelWorker
  <2>2. ~Counted(q)' /\ \A p \in Queue \ {q} : Counted(p)' <=> Counted(p)
    BY <2>1 DEF Counted, Inv, Types
  <2>3. UNCHANGED caller
    <3>1. caller[q] = Ready
      BY <2>1 DEF NoCallerDeleted, TokenInv, Silent
    <3> QED
      BY <2>1, <3>1 DEF Inv, Types
  <2>4. \A p \in Queue \ {q} : Match(p)' <=> Match(p)
    <3>1. \A p : Giving(p)' = Giving(p)
      BY <2>3 DEF Giving
    <3>2. \A p \in Queue \ {q} : worker'[p] = worker[p]
      BY <2>1 DEF Inv, Types
    <3> QED
      BY <2>1, <3>1, <3>2 DEF Match, Got
  <2>5. TokensMatch'
    BY <2>2, <2>4 DEF TokenInv, TokensMatch, Match, Got, Counted
  <2>6. \A p \in Queue : del'[p] # "no" => p \in Deletable
    BY <2>1 DEF TokenInv, Silent, Inv, Types
  <2> QED
    BY <2>3, <2>5, <2>6 DEF TokenInv, Silent
<1> QED
  BY <1>1, <1>2

LEMMA NextTokens ==
    ASSUME Inv, TokenInv, NoCallerDeleted, [Next]_vars
    PROVE  TokenInv'
<1>1. ASSUME UNCHANGED <<work_list, sem, worker, del>>, Silent',
             \A c \in Caller : \/ caller'[c] = caller[c]
                               \/ caller[c].pc # "give" /\ caller'[c].pc # "give"
      PROVE  TokenInv'
  <2>1. \A p : Match(p)' <=> Match(p)
    BY <1>1, GivingStill DEF Match, Got
  <2>2. TokensMatch'
    BY <1>1, <2>1 DEF TokenInv, TokensMatch, Match, Got
  <2> QED
    BY <1>1, <2>2 DEF TokenInv
<1>2. ASSUME UNCHANGED <<work_list, sem, worker, del, caller>>
      PROVE  TokenInv'
  BY <1>1, <1>2 DEF TokenInv, Silent
<1>3. ASSUME NEW c \in Caller, NEW w \in Work, WorkRun(c, w)
      PROVE  TokenInv'
  <2>1. Home[w] \in Queue
    BY WorkQueueAssumption
  <2> QED
    BY <1>3, <2>1, InsertTokens DEF WorkRun, MayCall
<1>4. ASSUME NEW c \in Caller, NEW w \in Work, WorkRunDelayed(c, w)
      PROVE  TokenInv'
  BY <1>2, <1>4 DEF WorkRunDelayed, queueVars
<1>5. ASSUME NEW c \in Caller, NEW w \in Work, WorkCancel(c, w)
      PROVE  TokenInv'
  <2>1. caller[c] = Ready /\ (c \in Queue => c \in Calling)
        /\ UNCHANGED <<work_list, sem, worker, del>>
    BY <1>5 DEF WorkCancel, MayCall, queueVars
  <2>2. /\ \A d \in Caller \ {c} : caller'[d] = caller[d]
        /\ caller'[c] = caller[c] \/ caller'[c].pc = "cancel"
    BY <1>5 DEF WorkCancel, Inv, Types
  <2>3. Silent'
    BY <2>1, <2>2 DEF TokenInv, Silent, Caller
  <2> QED
    BY <1>1, <2>1, <2>2, <2>3 DEF Ready
<1>6. ASSUME NEW c \in Caller, WorkCancelEnd(c)
      PROVE  TokenInv'
  <2>1. caller[c].pc = "cancel" /\ UNCHANGED <<work_list, sem, worker, del>>
        /\ caller' = [caller EXCEPT ![c] = Ready]
    BY <1>6 DEF WorkCancelEnd, queueVars
  <2>2. caller'[c] = Ready /\ \A d \in Caller \ {c} : caller'[d] = caller[d]
    BY <2>1 DEF Inv, Types
  <2>3. Silent'
    BY <2>1, <2>2 DEF TokenInv, Silent, Caller
  <2> QED
    BY <1>1, <2>1, <2>2, <2>3 DEF Ready
<1>7. ASSUME NEW c \in Caller, SemGive(c)
      PROVE  TokenInv'
  <2>1. PICK q \in Queue : caller[c].q = q
    BY <1>7 DEF SemGive, Inv, Gives
  <2> QED
    BY <1>7, <2>1, GiveTokens
<1>8. ASSUME NEW w \in Work, TimerCmd(w)
      PROVE  TokenInv'
  BY <1>2, <1>8 DEF TimerCmd, queueVars
<1>9. ASSUME NEW w \in Work, WorkTimerCb(w)
      PROVE  TokenInv'
  <2>1. CASE MayQueue(Home[w], w)
    <3>1. Home[w] \in Queue /\ Timer \in Caller /\ Timer \notin Queue
      BY WorkQueueAssumption DEF Caller
    <3>2. Insert(Timer, Home[w], w) /\ caller[Timer] = Ready
          /\ UNCHANGED <<sem, worker, del>>
      BY <1>9, <2>1 DEF WorkTimerCb
    <3> QED
      BY <3>1, <3>2, InsertTokens
  <2>2. CASE ~MayQueue(Home[w], w)
    BY <1>2, <1>9, <2>2 DEF WorkTimerCb
  <2> QED
    BY <2>1, <2>2
<1>10. CASE UNCHANGED vars
  BY <1>2, <1>10 DEF vars, queueVars
<1>11. CASE Next
  BY <1>3, <1>4, <1>5, <1>6, <1>7, <1>8, <1>9, <1>11, WorkerTokens, DelTokens
     DEF Next
<1> QED
  BY <1>10, <1>11

(* The worker takes a token and then the first work without looking: every *)
(* token, in the semaphore, taken, or about to be given, stands for one    *)
(* work in the list; so it never takes the head of an empty list for one.  *)
THEOREM TokensAlwaysMatch == ASSUME NoCallerDeleted PROVE Spec => []TokensMatch
<1>1. Init => TokenInv
  <2> SUFFICES ASSUME Init PROVE TokenInv
    OBVIOUS
  <2>1. \A q : Cardinality(Giving(q)) = 0
    <3>1. \A q : Giving(q) = {}
      BY DEF Init, Giving, Ready
    <3> QED
      BY <3>1, FS_EmptySet
  <2>2. \A q \in Queue : Len(work_list[q]) = 0 /\ sem[q] = 0 /\ worker[q] = "take"
    BY DEF Init
  <2>3. TokensMatch
    BY <2>1, <2>2 DEF TokensMatch
  <2> QED
    BY <2>3 DEF Init, TokenInv, Silent, Caller
<1>2. Inv /\ TokenInv /\ [Next]_vars => TokenInv'
  BY NextTokens
<1>3. TokenInv => TokensMatch
  BY DEF TokenInv
<1> QED
  BY <1>1, <1>2, <1>3, InvAlways, PTL DEF Spec
============================================================================
