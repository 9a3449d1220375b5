---------------------------- MODULE RhinoProofs ----------------------------
(***************************************************************************)
(* Proofs about the Rhino kernel, for any number of tasks, mutexes and     *)
(* semaphores, any priorities, timeouts and selection of calls: the ready  *)
(* queue, the blocked lists and the tick list always hold the tasks that   *)
(* the task control blocks say they hold.                                  *)
(***************************************************************************)
EXTENDS RhinoProperties, KListProofs, FiniteSetTheorems

Suspended == {"SUSPENDED", "SLEEP_SUSPENDED", "PEND_SUSPENDED"}

Tcb ==
    {r \in [state : TaskState, prio : Prio, b_prio : Prio, suspend : 0..MaxSuspend,
            cancel : BOOLEAN, blk_state : BlkState, blk_obj : Obj \cup {NULL},
            mutex_list : Mutex \cup {NULL}, slice : 1..TimeSlice] :
        /\ r.state \in Suspended => r.suspend > 0
        /\ r.state \in Pending => r.blk_obj \in Obj}

Entry == [task : Task, left : Nat]

MutexRecord == [task : Task \cup {NULL}, next : Mutex \cup {NULL}, nested : 0..MaxNested]

KState == [tcb : [AllTask -> Tcb], ready : [Prio -> Seq(AllTask)], tick : Seq(Entry),
           waitq : [Obj -> Seq(Task)], live : SUBSET Obj, mtx : [Mutex -> MutexRecord],
           count : [Sem -> 0..MaxCount], kerr : KernelError]

PrioOf(k)    == [u \in Task |-> k.tcb[u].prio]
LeftOf       == [e \in Entry |-> e.left]
TickTasks(k) == {e.task : e \in Range(k.tick)}

-----------------------------------------------------------------------------
(***************************************************************************)
(* The invariant of the lists, but for the task h that a helper is moving; *)
(* h = NULL: of all tasks.                                                 *)
(***************************************************************************)
ReadyPart(k, h) ==
    \A p \in Prio :
        /\ IsInjective(k.ready[p])
        /\ \A u \in AllTask \ {h} :
               u \in Range(k.ready[p]) <=> k.tcb[u].state = "RDY" /\ k.tcb[u].prio = p

WaitPart(k, h) ==
    \A o \in Obj :
        /\ IsInjective(k.waitq[o])
        /\ \A u \in Task \ {h} :
               u \in Range(k.waitq[o]) <=> k.tcb[u].state \in Pending /\ k.tcb[u].blk_obj = o
        /\ OrderedBut(k.waitq[o], PrioOf(k), h)

TickPart(k, h) ==
    /\ IsInjective(k.tick)
    /\ \A e, f \in Range(k.tick) : e.task = f.task => e = f
    /\ Ordered(k.tick, LeftOf)
    /\ \A u \in Task \ {h} :
           /\ u \in TickTasks(k) => k.tcb[u].state \in Pending \cup Sleeping
           /\ k.tcb[u].state \in Sleeping => u \in TickTasks(k)

But(k, h) == k \in KState /\ ReadyPart(k, h) /\ WaitPart(k, h) /\ TickPart(k, h)

Good(k) == But(k, NULL)

(* The lists t is on. *)
InReady(k, t) == {p \in Prio : t \in Range(k.ready[p])}
InWait(k, t)  == {o \in Obj : t \in Range(k.waitq[o])}

(* From k to k2 only t and the lists have changed. *)
Near(k, k2, t) ==
    /\ \A u \in AllTask \ {t} : k2.tcb[u] = k.tcb[u]
    /\ k2.live = k.live /\ k2.mtx = k.mtx /\ k2.count = k.count /\ k2.kerr = k.kerr

LEMMA Kinds ==
    /\ NULL \notin AllTask /\ NULL \notin Obj /\ NULL \notin Mutex /\ NULL # "sleep"
    /\ Idle \in AllTask /\ Idle \notin Task /\ \A t \in Task : t \in AllTask
    /\ Mutex \subseteq Obj /\ Sem \subseteq Obj /\ Mutex \cap Sem = {}
    /\ IdlePri \in Nat \ {0} /\ Prio = 0..IdlePri
BY RhinoAssumption DEF AllTask, Obj, Prio

(* The states are different. *)
LEMMA States ==
    /\ Pending = {"PEND", "PEND_SUSPENDED"} /\ Sleeping = {"SLEEP", "SLEEP_SUSPENDED"}
    /\ TaskState = {"PEND", "PEND_SUSPENDED", "SLEEP", "SLEEP_SUSPENDED", "RDY", "SUSPENDED", "DELETED"}
    /\ Suspended = {"SUSPENDED", "SLEEP_SUSPENDED", "PEND_SUSPENDED"}
BY DEF Pending, Sleeping, TaskState, Suspended

-----------------------------------------------------------------------------
(* One field of the kernel state changes. *)
LEMMA Fields ==
    ASSUME NEW k \in KState
    PROVE  /\ k.tcb \in [AllTask -> Tcb] /\ k.ready \in [Prio -> Seq(AllTask)]
           /\ k.tick \in Seq(Entry) /\ k.waitq \in [Obj -> Seq(Task)]
           /\ k.live \subseteq Obj /\ k.mtx \in [Mutex -> MutexRecord]
           /\ k.count \in [Sem -> 0..MaxCount] /\ k.kerr \in KernelError
BY DEF KState

LEMMA TcbFields ==
    ASSUME NEW r \in Tcb
    PROVE  /\ r.state \in TaskState /\ r.prio \in Prio /\ r.b_prio \in Prio
           /\ r.suspend \in 0..MaxSuspend /\ r.cancel \in BOOLEAN /\ r.blk_state \in BlkState
           /\ r.blk_obj \in Obj \cup {NULL} /\ r.mutex_list \in Mutex \cup {NULL}
           /\ r.slice \in 1..TimeSlice
           /\ r.state \in Suspended => r.suspend > 0
           /\ r.state \in Pending => r.blk_obj \in Obj
BY DEF Tcb

LEMMA WithTcb ==
    ASSUME NEW k \in KState, NEW t \in AllTask, NEW r \in Tcb
    PROVE  LET k2 == [k EXCEPT !.tcb[t] = r]
           IN  /\ k2 \in KState
               /\ k2.tcb = [k.tcb EXCEPT ![t] = r]
               /\ k2.tcb[t] = r /\ \A u \in AllTask \ {t} : k2.tcb[u] = k.tcb[u]
               /\ k2.ready = k.ready /\ k2.tick = k.tick /\ k2.waitq = k.waitq
               /\ k2.live = k.live /\ k2.mtx = k.mtx /\ k2.count = k.count /\ k2.kerr = k.kerr
BY DEF KState

LEMMA WithReady ==
    ASSUME NEW k \in KState, NEW p \in Prio, NEW l \in Seq(AllTask)
    PROVE  LET k2 == [k EXCEPT !.ready[p] = l]
           IN  /\ k2 \in KState
               /\ k2.ready[p] = l /\ \A q \in Prio \ {p} : k2.ready[q] = k.ready[q]
               /\ k2.tcb = k.tcb /\ k2.tick = k.tick /\ k2.waitq = k.waitq
               /\ k2.live = k.live /\ k2.mtx = k.mtx /\ k2.count = k.count /\ k2.kerr = k.kerr
BY DEF KState

LEMMA WithWait ==
    ASSUME NEW k \in KState, NEW o \in Obj, NEW l \in Seq(Task)
    PROVE  LET k2 == [k EXCEPT !.waitq[o] = l]
           IN  /\ k2 \in KState
               /\ k2.waitq[o] = l /\ \A x \in Obj \ {o} : k2.waitq[x] = k.waitq[x]
               /\ k2.tcb = k.tcb /\ k2.tick = k.tick /\ k2.ready = k.ready
               /\ k2.live = k.live /\ k2.mtx = k.mtx /\ k2.count = k.count /\ k2.kerr = k.kerr
BY DEF KState

LEMMA WithTick ==
    ASSUME NEW k \in KState, NEW l \in Seq(Entry)
    PROVE  LET k2 == [k EXCEPT !.tick = l]
           IN  /\ k2 \in KState /\ k2.tick = l
               /\ k2.tcb = k.tcb /\ k2.waitq = k.waitq /\ k2.ready = k.ready
               /\ k2.live = k.live /\ k2.mtx = k.mtx /\ k2.count = k.count /\ k2.kerr = k.kerr
BY DEF KState

-----------------------------------------------------------------------------
(* The parts depend on the control blocks of the other tasks only. *)
LEMMA ReadySame ==
    ASSUME NEW k, NEW k2, NEW t, ReadyPart(k, t), k2.ready = k.ready,
           \A u \in AllTask \ {t} : k2.tcb[u] = k.tcb[u]
    PROVE  ReadyPart(k2, t)
BY DEF ReadyPart

LEMMA WaitSame ==
    ASSUME NEW k \in KState, NEW k2, NEW t, WaitPart(k, t), k2.waitq = k.waitq,
           \A u \in Task \ {t} : k2.tcb[u] = k.tcb[u]
    PROVE  WaitPart(k2, t)
<1> SUFFICES ASSUME NEW o \in Obj
             PROVE  /\ IsInjective(k.waitq[o])
                    /\ \A u \in Task \ {t} :
                           u \in Range(k.waitq[o]) <=>
                               k.tcb[u].state \in Pending /\ k.tcb[u].blk_obj = o
                    /\ OrderedBut(k.waitq[o], PrioOf(k2), t)
  BY DEF WaitPart
<1>1. k.waitq[o] \in Seq(Task)
  BY Fields
<1>2. \A i \in DOMAIN k.waitq[o] : k.waitq[o][i] \in Task
  BY <1>1
<1>3. \A u \in Task \ {t} : PrioOf(k2)[u] = PrioOf(k)[u]
  BY DEF PrioOf
<1> QED
  BY <1>2, <1>3 DEF WaitPart, OrderedBut

LEMMA TickSame ==
    ASSUME NEW k, NEW k2, NEW t, TickPart(k, t), k2.tick = k.tick,
           \A u \in Task \ {t} : k2.tcb[u] = k.tcb[u]
    PROVE  TickPart(k2, t)
<1>1. TickTasks(k2) = TickTasks(k)
  BY DEF TickTasks
<1> QED
  BY <1>1 DEF TickPart

LEMMA OtherTcb ==
    ASSUME NEW k, NEW t \in Task, But(k, t), NEW k2 \in KState,
           \A u \in AllTask \ {t} : k2.tcb[u] = k.tcb[u],
           k2.ready = k.ready, k2.tick = k.tick, k2.waitq = k.waitq
    PROVE  But(k2, t)
<1>1. k \in KState /\ ReadyPart(k, t) /\ WaitPart(k, t) /\ TickPart(k, t)
  BY DEF But
<1>2. \A u \in Task \ {t} : k2.tcb[u] = k.tcb[u]
  BY Kinds
<1>3. ReadyPart(k2, t)
  BY <1>1, ReadySame
<1>4. WaitPart(k2, t)
  BY <1>1, <1>2, WaitSame
<1>5. TickPart(k2, t)
  BY <1>1, <1>2, TickSame
<1> QED
  BY <1>3, <1>4, <1>5 DEF But

-----------------------------------------------------------------------------
(* The ready queue. *)

(* One list is exchanged for one that differs in t alone. *)
LEMMA SetReady ==
    ASSUME NEW k, NEW t \in Task, But(k, t), NEW p \in Prio, NEW l \in Seq(AllTask),
           IsInjective(l), Range(l) \ {t} = Range(k.ready[p]) \ {t},
           NEW k2, k2 = [k EXCEPT !.ready[p] = l]
    PROVE  /\ But(k2, t) /\ Near(k, k2, t) /\ k2.tcb = k.tcb
           /\ k2.waitq = k.waitq /\ k2.tick = k.tick
           /\ InReady(k2, t) = IF t \in Range(l) THEN InReady(k, t) \cup {p}
                                                 ELSE InReady(k, t) \ {p}
<1>1. k \in KState
  BY DEF But
<1>2. /\ k2 \in KState
      /\ k2.ready[p] = l /\ \A q \in Prio \ {p} : k2.ready[q] = k.ready[q]
      /\ k2.tcb = k.tcb /\ k2.tick = k.tick /\ k2.waitq = k.waitq
      /\ k2.live = k.live /\ k2.mtx = k.mtx /\ k2.count = k.count /\ k2.kerr = k.kerr
  BY <1>1, WithReady
<1>3. ReadyPart(k2, t)
  <2> SUFFICES ASSUME NEW q \in Prio
               PROVE  /\ IsInjective(k2.ready[q])
                      /\ \A u \in AllTask \ {t} :
                             u \in Range(k2.ready[q]) <=> u \in Range(k.ready[q])
    BY <1>2 DEF But, ReadyPart
  <2>1. CASE q = p
    BY <1>2, <2>1
  <2>2. CASE q # p
    BY <1>2, <2>2 DEF But, ReadyPart
  <2> QED
    BY <2>1, <2>2
<1>4. WaitPart(k2, t)
  BY <1>1, <1>2, WaitSame DEF But
<1>5. TickPart(k2, t)
  BY <1>2, TickSame DEF But
<1>6. InReady(k2, t) = IF t \in Range(l) THEN InReady(k, t) \cup {p} ELSE InReady(k, t) \ {p}
  <2>1. \A q \in Prio : q # p => (t \in Range(k2.ready[q]) <=> t \in Range(k.ready[q]))
    BY <1>2
  <2> QED
    BY <1>2, <2>1 DEF InReady
<1> QED
  BY <1>2, <1>3, <1>4, <1>5, <1>6 DEF But, Near

LEMMA ReadyListOf ==
    ASSUME NEW k, NEW t \in Task, But(k, t)
    PROVE  /\ k.tcb[t] \in Tcb /\ k.tcb[t].prio \in Prio
           /\ k.ready[k.tcb[t].prio] \in Seq(AllTask) /\ IsInjective(k.ready[k.tcb[t].prio])
<1>1. k \in KState /\ t \in AllTask
  BY Kinds DEF But
<1>2. k.tcb[t] \in Tcb
  BY <1>1, Fields
<1>3. k.tcb[t].prio \in Prio
  BY <1>2, TcbFields
<1> QED
  BY <1>1, <1>2, <1>3, Fields DEF But, ReadyPart

LEMMA ReadyAddOf ==
    ASSUME NEW k, NEW t \in Task, But(k, t), InReady(k, t) = {}, NEW k2, k2 = ReadyAdd(k, t)
    PROVE  /\ But(k2, t) /\ Near(k, k2, t) /\ k2.tcb = k.tcb
           /\ k2.waitq = k.waitq /\ k2.tick = k.tick /\ InReady(k2, t) = {k.tcb[t].prio}
<1> DEFINE p == k.tcb[t].prio
           l == Append(k.ready[p], t)
<1>1. p \in Prio /\ k.ready[p] \in Seq(AllTask) /\ IsInjective(k.ready[p]) /\ t \in AllTask
  BY ReadyListOf, Kinds
<1>2. k2 = [k EXCEPT !.ready[p] = l]
  BY DEF ReadyAdd
<1>3. t \notin Range(k.ready[p])
  BY <1>1 DEF InReady
<1> HIDE DEF p
<1>4. l \in Seq(AllTask) /\ IsInjective(l) /\ Range(l) = Range(k.ready[p]) \cup {t}
  BY <1>1, <1>3, Appending
<1> HIDE DEF l
<1>5. Range(l) \ {t} = Range(k.ready[p]) \ {t} /\ t \in Range(l)
  BY <1>4
<1>6. /\ But(k2, t) /\ Near(k, k2, t) /\ k2.tcb = k.tcb
      /\ k2.waitq = k.waitq /\ k2.tick = k.tick /\ InReady(k2, t) = InReady(k, t) \cup {p}
  BY <1>1, <1>2, <1>4, <1>5, SetReady
<1> QED
  BY <1>6 DEF p

LEMMA Prepending ==
    ASSUME NEW S, NEW l \in Seq(S), NEW t \in S
    PROVE  /\ <<t>> \o l \in Seq(S)
           /\ Range(<<t>> \o l) = Range(l) \cup {t}
           /\ t \notin Range(l) /\ IsInjective(l) => IsInjective(<<t>> \o l)
<1> DEFINE m == <<t>> \o l
<1>1. /\ m \in Seq(S) /\ Len(m) = Len(l) + 1 /\ Len(l) \in Nat
      /\ m[1] = t /\ \A j \in 1..Len(l) : m[j + 1] = l[j]
  OBVIOUS
<1>2. DOMAIN m = 1..(Len(l) + 1) /\ DOMAIN l = 1..Len(l)
  OBVIOUS
<1> HIDE DEF m
<1>3. \A j \in 1..(Len(l) + 1) : j # 1 => j - 1 \in 1..Len(l) /\ m[j] = l[j - 1]
  <2> SUFFICES ASSUME NEW j \in 1..(Len(l) + 1), j # 1
               PROVE  j - 1 \in 1..Len(l) /\ m[j] = l[j - 1]
    OBVIOUS
  <2>1. j - 1 \in 1..Len(l) /\ (j - 1) + 1 = j
    OBVIOUS
  <2> QED
    BY <1>1, <2>1
<1>4. \A j \in 1..Len(l) : j + 1 \in 1..(Len(l) + 1)
  OBVIOUS
<1>5. 1 \in 1..(Len(l) + 1)
  BY <1>1
<1>6. Range(m) = Range(l) \cup {t}
  <2>1. \A x \in Range(m) : x \in Range(l) \cup {t}
    BY <1>1, <1>2, <1>3 DEF Range
  <2>2. \A x \in Range(l) : x \in Range(m)
    BY <1>1, <1>2, <1>4 DEF Range
  <2>3. t \in Range(m)
    BY <1>1, <1>2, <1>5 DEF Range
  <2> QED
    BY <2>1, <2>2, <2>3
<1>7. ASSUME t \notin Range(l), IsInjective(l) PROVE IsInjective(m)
  <2> SUFFICES ASSUME NEW i \in 1..(Len(l) + 1), NEW j \in 1..(Len(l) + 1), m[i] = m[j]
               PROVE  i = j
    BY <1>2 DEF IsInjective
  <2>1. \A x \in 1..Len(l) : l[x] # t
    BY <1>2, <1>7 DEF Range
  <2>2. i = 1 <=> j = 1
    BY <1>1, <1>3, <2>1
  <2>3. ASSUME i # 1, j # 1 PROVE i = j
    <3>1. i - 1 = j - 1
      BY <1>2, <1>3, <1>7, <2>3 DEF IsInjective
    <3> QED
      BY <3>1
  <2> QED
    BY <2>2, <2>3
<1> QED
  BY <1>1, <1>6, <1>7 DEF m

LEMMA ReadyAddHeadOf ==
    ASSUME NEW k, NEW t \in Task, But(k, t), InReady(k, t) = {}, NEW k2, k2 = ReadyAddHead(k, t)
    PROVE  /\ But(k2, t) /\ Near(k, k2, t) /\ k2.tcb = k.tcb
           /\ k2.waitq = k.waitq /\ k2.tick = k.tick /\ InReady(k2, t) = {k.tcb[t].prio}
<1> DEFINE p == k.tcb[t].prio
           l == <<t>> \o k.ready[p]
<1>1. p \in Prio /\ k.ready[p] \in Seq(AllTask) /\ IsInjective(k.ready[p]) /\ t \in AllTask
  BY ReadyListOf, Kinds
<1>2. k2 = [k EXCEPT !.ready[p] = l]
  BY DEF ReadyAddHead
<1>3. t \notin Range(k.ready[p])
  BY <1>1 DEF InReady
<1> HIDE DEF p
<1>4. l \in Seq(AllTask) /\ IsInjective(l) /\ Range(l) = Range(k.ready[p]) \cup {t}
  BY <1>1, <1>3, Prepending
<1> HIDE DEF l
<1>5. Range(l) \ {t} = Range(k.ready[p]) \ {t} /\ t \in Range(l)
  BY <1>4
<1>6. /\ But(k2, t) /\ Near(k, k2, t) /\ k2.tcb = k.tcb
      /\ k2.waitq = k.waitq /\ k2.tick = k.tick /\ InReady(k2, t) = InReady(k, t) \cup {p}
  BY <1>1, <1>2, <1>4, <1>5, SetReady
<1> QED
  BY <1>6 DEF p

LEMMA ReadyRmOf ==
    ASSUME NEW k, NEW t \in Task, But(k, t), InReady(k, t) \subseteq {k.tcb[t].prio},
           NEW k2, k2 = ReadyRm(k, t)
    PROVE  /\ But(k2, t) /\ Near(k, k2, t) /\ k2.tcb = k.tcb
           /\ k2.waitq = k.waitq /\ k2.tick = k.tick /\ InReady(k2, t) = {}
<1> DEFINE p == k.tcb[t].prio
           l == Unlink(k.ready[p], t)
<1>1. p \in Prio /\ k.ready[p] \in Seq(AllTask) /\ IsInjective(k.ready[p])
  BY ReadyListOf
<1>2. k2 = [k EXCEPT !.ready[p] = l]
  BY DEF ReadyRm
<1>3. InReady(k, t) \subseteq {p}
  OBVIOUS
<1> HIDE DEF p
<1>4. l \in Seq(AllTask) /\ IsInjective(l) /\ Range(l) = Range(k.ready[p]) \ {t}
  BY <1>1, UnlinkOf
<1> HIDE DEF l
<1>5. Range(l) \ {t} = Range(k.ready[p]) \ {t} /\ t \notin Range(l)
  BY <1>4
<1>6. /\ But(k2, t) /\ Near(k, k2, t) /\ k2.tcb = k.tcb
      /\ k2.waitq = k.waitq /\ k2.tick = k.tick /\ InReady(k2, t) = InReady(k, t) \ {p}
  BY <1>1, <1>2, <1>4, <1>5, SetReady
<1> QED
  BY <1>3, <1>6

-----------------------------------------------------------------------------
(* The blocked lists. *)
LEMMA SetWait ==
    ASSUME NEW k, NEW t \in Task, But(k, t), NEW o \in Obj, NEW l \in Seq(Task),
           IsInjective(l), Range(l) \ {t} = Range(k.waitq[o]) \ {t},
           OrderedBut(l, PrioOf(k), t), NEW k2 \in KState, k2.waitq[o] = l,
           \A x \in Obj \ {o} : k2.waitq[x] = k.waitq[x],
           k2.tcb = k.tcb, k2.tick = k.tick, k2.ready = k.ready,
           k2.live = k.live, k2.mtx = k.mtx, k2.count = k.count, k2.kerr = k.kerr
    PROVE  /\ But(k2, t) /\ Near(k, k2, t)
           /\ InWait(k2, t) = IF t \in Range(l) THEN InWait(k, t) \cup {o}
                                                ELSE InWait(k, t) \ {o}
<1>1. k \in KState
  BY DEF But
<1>3. WaitPart(k2, t)
  <2>1. PrioOf(k2) = PrioOf(k)
    BY DEF PrioOf
  <2> SUFFICES ASSUME NEW x \in Obj
               PROVE  /\ IsInjective(k2.waitq[x])
                      /\ \A u \in Task \ {t} :
                             u \in Range(k2.waitq[x]) <=> u \in Range(k.waitq[x])
                      /\ OrderedBut(k2.waitq[x], PrioOf(k), t)
    BY <2>1 DEF But, WaitPart
  <2>2. CASE x = o
    BY <2>2
  <2>3. CASE x # o
    BY <2>3 DEF But, WaitPart
  <2> QED
    BY <2>2, <2>3
<1>4. ReadyPart(k2, t)
  BY ReadySame DEF But
<1>5. TickPart(k2, t)
  BY TickSame DEF But
<1>6. InWait(k2, t) = IF t \in Range(l) THEN InWait(k, t) \cup {o} ELSE InWait(k, t) \ {o}
  <2>1. \A x \in Obj : x # o => (t \in Range(k2.waitq[x]) <=> t \in Range(k.waitq[x]))
    OBVIOUS
  <2> QED
    BY <2>1 DEF InWait
<1> QED
  BY <1>3, <1>4, <1>5, <1>6 DEF But, Near

LEMMA WaitListOf ==
    ASSUME NEW k, NEW t, But(k, t), NEW o \in Obj
    PROVE  /\ k.waitq[o] \in Seq(Task) /\ IsInjective(k.waitq[o])
           /\ OrderedBut(k.waitq[o], PrioOf(k), t) /\ PrioOf(k) \in [Task -> Nat]
<1>1. k \in KState
  BY DEF But
<1>2. PrioOf(k) \in [Task -> Nat]
  <2>1. \A u \in Task : k.tcb[u].prio \in Nat
    BY <1>1, Fields, TcbFields, Kinds
  <2> QED
    BY <2>1 DEF PrioOf
<1> QED
  BY <1>1, <1>2, Fields DEF But, WaitPart

LEMMA PendListRmOf ==
    ASSUME NEW k, NEW t \in Task, But(k, t), k.tcb[t].blk_obj \in Obj,
           InWait(k, t) \subseteq {k.tcb[t].blk_obj}, NEW k2, k2 = PendListRm(k, t)
    PROVE  /\ But(k2, t) /\ Near(k, k2, t) /\ k2.tcb = k.tcb
           /\ k2.ready = k.ready /\ k2.tick = k.tick /\ InWait(k2, t) = {}
           /\ LET o == k.tcb[t].blk_obj
              IN  t \in Range(k.waitq[o]) => Len(k2.waitq[o]) = Len(k.waitq[o]) - 1
<1> DEFINE o == k.tcb[t].blk_obj
           l == Unlink(k.waitq[o], t)
<1>1. /\ o \in Obj /\ k.waitq[o] \in Seq(Task) /\ IsInjective(k.waitq[o])
      /\ OrderedBut(k.waitq[o], PrioOf(k), t)
  BY WaitListOf
<1>2. k2 = [k EXCEPT !.waitq[o] = l]
  BY DEF PendListRm
<1>3. InWait(k, t) \subseteq {o}
  OBVIOUS
<1> HIDE DEF o
<1>4. /\ l \in Seq(Task) /\ IsInjective(l) /\ Range(l) = Range(k.waitq[o]) \ {t}
      /\ t \in Range(k.waitq[o]) => Len(l) = Len(k.waitq[o]) - 1
  BY <1>1, UnlinkOf
<1>5. Ordered(l, PrioOf(k))
  BY <1>1, UnlinkOrdered
<1> HIDE DEF l
<1>6. Range(l) \ {t} = Range(k.waitq[o]) \ {t} /\ t \notin Range(l) /\ OrderedBut(l, PrioOf(k), t)
  BY <1>4, <1>5 DEF Ordered, OrderedBut
<1>7. /\ k2 \in KState
      /\ k2.waitq[o] = l /\ \A x \in Obj \ {o} : k2.waitq[x] = k.waitq[x]
      /\ k2.tcb = k.tcb /\ k2.tick = k.tick /\ k2.ready = k.ready
      /\ k2.live = k.live /\ k2.mtx = k.mtx /\ k2.count = k.count /\ k2.kerr = k.kerr
  <2>1. k \in KState
    BY DEF But
  <2> QED
    BY <1>1, <1>2, <1>4, <2>1, WithWait
<1>8. But(k2, t) /\ Near(k, k2, t) /\ InWait(k2, t) = InWait(k, t) \ {o}
  BY <1>1, <1>4, <1>6, <1>7, SetWait
<1> QED
  BY <1>3, <1>4, <1>7, <1>8 DEF o

LEMMA PendListAddOf ==
    ASSUME NEW k, NEW t \in Task, But(k, t), NEW o \in Obj, InWait(k, t) = {},
           NEW k2, k2 = PendListAdd(k, o, t)
    PROVE  /\ But(k2, t) /\ Near(k, k2, t) /\ k2.tcb = k.tcb
           /\ k2.ready = k.ready /\ k2.tick = k.tick /\ InWait(k2, t) = {o}
           /\ Ordered(k2.waitq[o], PrioOf(k2))
<1> DEFINE q == k.waitq[o]
           key == PrioOf(k)
           I == {j \in 1..Len(q) : k.tcb[q[j]].prio > k.tcb[t].prio}
           i == IF I # {} THEN Min(I) ELSE 0
           l == InsertBefore(q, i, t)
<1>1. /\ q \in Seq(Task) /\ IsInjective(q) /\ OrderedBut(q, key, t) /\ key \in [Task -> Nat]
  BY WaitListOf
<1>2. k2 = [k EXCEPT !.waitq[o] = l]
  BY DEF PendListAdd, SelectInSeq
<1>3. t \notin Range(q)
  BY DEF InWait
<1>4. I \in SUBSET (1..Len(q)) /\ Len(q) \in Nat
  BY <1>1
<1>5. \A j \in 1..Len(q) : j \in I <=> key[q[j]] > key[t]
  BY <1>1 DEF PrioOf
<1> HIDE DEF q, key, I
<1>6. /\ i \in 0..Len(q) /\ (i = 0 => I = {}) /\ (i # 0 => i \in I)
      /\ \A j \in 1..Len(q) : j < i => j \notin I
  BY <1>4, FirstPlace
<1> HIDE DEF i
<1>7. l \in Seq(Task) /\ Range(l) = Range(q) \cup {t} /\ IsInjective(l)
  BY <1>1, <1>3, <1>6, InsertingBefore
<1>8. Ordered(q, key)
  <2>1. \A j \in DOMAIN q : q[j] # t
    BY <1>3 DEF Range
  <2> QED
    BY <1>1, <2>1 DEF Ordered, OrderedBut
<1>9. Ordered(l, key)
  <2>1. \A j \in 1..Len(q) : key[q[j]] \in Nat /\ key[t] \in Nat
    BY <1>1
  <2>2. i = 0 => \A j \in 1..Len(q) : key[q[j]] <= key[t]
    BY <1>5, <1>6, <2>1
  <2>3. i # 0 => key[t] <= key[q[i]]
    BY <1>4, <1>5, <1>6, <2>1
  <2>4. \A j \in 1..Len(q) : j < i => key[q[j]] <= key[t]
    BY <1>5, <1>6, <2>1
  <2> QED
    BY <1>1, <1>6, <1>8, <2>2, <2>3, <2>4, InsertOrdered
<1> HIDE DEF l
<1>10. Range(l) \ {t} = Range(q) \ {t} /\ t \in Range(l) /\ OrderedBut(l, key, t)
  BY <1>7, <1>9 DEF Ordered, OrderedBut
<1>11. /\ But(k2, t) /\ Near(k, k2, t) /\ k2.tcb = k.tcb /\ k2.waitq[o] = l
       /\ k2.ready = k.ready /\ k2.tick = k.tick /\ InWait(k2, t) = {o}
  <2>1. Range(l) \ {t} = Range(k.waitq[o]) \ {t} /\ OrderedBut(l, PrioOf(k), t)
    BY <1>10 DEF q, key
  <2>2. /\ k2 \in KState
        /\ k2.waitq[o] = l /\ \A x \in Obj \ {o} : k2.waitq[x] = k.waitq[x]
        /\ k2.tcb = k.tcb /\ k2.tick = k.tick /\ k2.ready = k.ready
        /\ k2.live = k.live /\ k2.mtx = k.mtx /\ k2.count = k.count /\ k2.kerr = k.kerr
    BY <1>2, <1>7, WithWait DEF But
  <2>3. But(k2, t) /\ Near(k, k2, t)
    BY <1>7, <2>1, <2>2, SetWait
  <2>4. InWait(k2, t) = {o}
    BY <1>10, <2>2 DEF InWait
  <2> QED
    BY <2>2, <2>3, <2>4
<1>12. PrioOf(k2) = key
  BY <1>11 DEF PrioOf, key
<1> QED
  BY <1>9, <1>11, <1>12

-----------------------------------------------------------------------------
(* The tick list. *)
LEMMA SetTick ==
    ASSUME NEW k, NEW t \in Task, But(k, t), NEW l \in Seq(Entry), IsInjective(l),
           \A e, f \in Range(l) : e.task = f.task => e = f, Ordered(l, LeftOf),
           {e.task : e \in Range(l)} \ {t} = TickTasks(k) \ {t},
           NEW k2, k2 = [k EXCEPT !.tick = l]
    PROVE  /\ But(k2, t) /\ Near(k, k2, t) /\ k2.tcb = k.tcb
           /\ k2.ready = k.ready /\ k2.waitq = k.waitq /\ k2.tick = l
<1>1. k \in KState
  BY DEF But
<1>2. /\ k2 \in KState /\ k2.tick = l
      /\ k2.tcb = k.tcb /\ k2.waitq = k.waitq /\ k2.ready = k.ready
      /\ k2.live = k.live /\ k2.mtx = k.mtx /\ k2.count = k.count /\ k2.kerr = k.kerr
  BY <1>1, WithTick
<1>3. TickPart(k2, t)
  <2>1. TickTasks(k2) \ {t} = TickTasks(k) \ {t}
    BY <1>2 DEF TickTasks
  <2>2. \A u \in Task \ {t} : u \in TickTasks(k2) <=> u \in TickTasks(k)
    BY <2>1
  <2> QED
    BY <1>2, <2>2 DEF But, TickPart
<1>4. ReadyPart(k2, t)
  BY <1>2, ReadySame DEF But
<1>5. WaitPart(k2, t)
  BY <1>1, <1>2, WaitSame DEF But
<1> QED
  BY <1>2, <1>3, <1>4, <1>5 DEF But, Near

LEMMA TickInsertOf ==
    ASSUME NEW k, NEW t \in Task, But(k, t), t \notin TickTasks(k), NEW n \in Nat,
           NEW k2, k2 = TickInsert(k, t, n)
    PROVE  /\ But(k2, t) /\ Near(k, k2, t) /\ k2.tcb = k.tcb
           /\ k2.ready = k.ready /\ k2.waitq = k.waitq
           /\ Range(k2.tick) = Range(k.tick) \cup {[task |-> t, left |-> n]}
<1> DEFINE q == k.tick
           x == [task |-> t, left |-> n]
           I == {j \in 1..Len(q) : q[j].left > n}
           i == IF I # {} THEN Min(I) ELSE 0
           l == InsertBefore(q, i, x)
<1>1. /\ q \in Seq(Entry) /\ IsInjective(q) /\ Ordered(q, LeftOf)
      /\ \A e, f \in Range(q) : e.task = f.task => e = f
  BY Fields DEF But, TickPart
<1>2. k2 = [k EXCEPT !.tick = l]
  BY DEF TickInsert, SelectInSeq
<1>3. x \in Entry /\ x.task = t /\ LeftOf \in [Entry -> Nat] /\ LeftOf[x] = n
  BY DEF Entry, LeftOf
<1>4. \A e \in Range(q) : e.task # t
  BY DEF TickTasks
<1>5. I \in SUBSET (1..Len(q)) /\ Len(q) \in Nat
  BY <1>1
<1>6. \A j \in 1..Len(q) : j \in I <=> LeftOf[q[j]] > n
  BY <1>1 DEF LeftOf
<1>7. TickTasks(k) = {e.task : e \in Range(q)}
  BY DEF TickTasks
<1> HIDE DEF q, x, I
<1>8. /\ i \in 0..Len(q) /\ (i = 0 => I = {}) /\ (i # 0 => i \in I)
      /\ \A j \in 1..Len(q) : j < i => j \notin I
  BY <1>5, FirstPlace
<1> HIDE DEF i
<1>9. x \notin Range(q)
  BY <1>3, <1>4
<1>10. l \in Seq(Entry) /\ Range(l) = Range(q) \cup {x} /\ IsInjective(l)
  BY <1>1, <1>3, <1>8, <1>9, InsertingBefore
<1>11. Ordered(l, LeftOf)
  <2>1. \A j \in 1..Len(q) : LeftOf[q[j]] \in Nat
    BY <1>1, <1>3
  <2>2. i = 0 => \A j \in 1..Len(q) : LeftOf[q[j]] <= LeftOf[x]
    BY <1>3, <1>6, <1>8, <2>1
  <2>3. i # 0 => LeftOf[x] <= LeftOf[q[i]]
    BY <1>3, <1>5, <1>6, <1>8, <2>1
  <2>4. \A j \in 1..Len(q) : j < i => LeftOf[q[j]] <= LeftOf[x]
    BY <1>3, <1>6, <1>8, <2>1
  <2> QED
    BY <1>1, <1>3, <1>8, <2>2, <2>3, <2>4, InsertOrdered
<1> HIDE DEF l
<1>12. \A e, f \in Range(l) : e.task = f.task => e = f
  BY <1>1, <1>3, <1>4, <1>10
<1>13. {e.task : e \in Range(l)} \ {t} = TickTasks(k) \ {t}
  BY <1>3, <1>7, <1>10
<1>14. /\ But(k2, t) /\ Near(k, k2, t) /\ k2.tcb = k.tcb
       /\ k2.ready = k.ready /\ k2.waitq = k.waitq /\ k2.tick = l
  BY <1>2, <1>10, <1>11, <1>12, <1>13, SetTick
<1> QED
  BY <1>10, <1>14 DEF q, x

LEMMA TickRmOf ==
    ASSUME NEW k, NEW t \in Task, But(k, t), NEW k2, k2 = TickRm(k, t)
    PROVE  /\ But(k2, t) /\ Near(k, k2, t) /\ k2.tcb = k.tcb
           /\ k2.ready = k.ready /\ k2.waitq = k.waitq
           /\ Range(k2.tick) \subseteq Range(k.tick) /\ t \notin TickTasks(k2)
           /\ t \in TickTasks(k) => Len(k2.tick) = Len(k.tick) - 1
<1> DEFINE q == k.tick
           I == {j \in 1..Len(q) : q[j].task = t}
           i == IF I # {} THEN Min(I) ELSE 0
           l == RemoveAt(q, i)
<1>1. /\ q \in Seq(Entry) /\ IsInjective(q) /\ Ordered(q, LeftOf)
      /\ \A e, f \in Range(q) : e.task = f.task => e = f
  BY Fields DEF But, TickPart
<1>2. k2 = IF i = 0 THEN k ELSE [k EXCEPT !.tick = l]
  BY DEF TickRm, SelectInSeq
<1>3. I \in SUBSET (1..Len(q)) /\ Len(q) \in Nat /\ DOMAIN q = 1..Len(q)
  BY <1>1
<1>4. \A j \in 1..Len(q) : j \in I <=> q[j].task = t
  OBVIOUS
<1>5. TickTasks(k) = {e.task : e \in Range(q)}
  BY DEF TickTasks
<1> HIDE DEF q, I
<1>6. /\ i \in 0..Len(q) /\ (i = 0 => I = {}) /\ (i # 0 => i \in I)
  BY <1>3, FirstPlace
<1> HIDE DEF i
<1>7. CASE i = 0
  <2>1. k2 = k
    BY <1>2, <1>7
  <2>2. t \notin TickTasks(k)
    BY <1>3, <1>4, <1>5, <1>6, <1>7 DEF Range
  <2> QED
    BY <2>1, <2>2 DEF Near
<1>8. CASE i # 0
  <2>1. i \in 1..Len(q) /\ q[i].task = t
    BY <1>4, <1>6, <1>8
  <2>2. /\ l \in Seq(Entry) /\ Range(l) = Range(q) \ {q[i]} /\ IsInjective(l)
    BY <1>1, <2>1, Removing
  <2>3. Len(l) = Len(q) - 1
    BY <1>1, <2>1, RemovedAt
  <2>4. OrderedBut(q, LeftOf, q[i])
    BY <1>1 DEF Ordered, OrderedBut
  <2>5. Ordered(l, LeftOf)
    BY <1>1, <2>1, <2>4, RemoveOrdered
  <2> HIDE DEF l
  <2>6. \A e, f \in Range(l) : e.task = f.task => e = f
    BY <1>1, <2>2
  <2>7. q[i] \in Range(q)
    BY <1>3, <2>1 DEF Range
  <2>8. \A e \in Range(l) : e.task # t
    BY <1>1, <2>1, <2>2, <2>7
  <2>9. {e.task : e \in Range(l)} \ {t} = TickTasks(k) \ {t}
    BY <1>5, <2>1, <2>2
  <2>10. k2 = [k EXCEPT !.tick = l]
    BY <1>2, <1>8
  <2>11. /\ But(k2, t) /\ Near(k, k2, t) /\ k2.tcb = k.tcb
         /\ k2.ready = k.ready /\ k2.waitq = k.waitq /\ k2.tick = l
    BY <2>2, <2>5, <2>6, <2>9, <2>10, SetTick
  <2>12. t \notin TickTasks(k2)
    BY <2>8, <2>11 DEF TickTasks
  <2> QED
    BY <2>2, <2>3, <2>11, <2>12 DEF q
<1> QED
  BY <1>7, <1>8

-----------------------------------------------------------------------------
(* A task is taken up, and put down where its control block says. *)
ReadyAs(k, t) == InReady(k, t) = IF k.tcb[t].state = "RDY" THEN {k.tcb[t].prio} ELSE {}
WaitAs(k, t)  == InWait(k, t) = IF k.tcb[t].state \in Pending THEN {k.tcb[t].blk_obj} ELSE {}
TickAs(k, t)  ==
    /\ t \in TickTasks(k) => k.tcb[t].state \in Pending \cup Sleeping
    /\ k.tcb[t].state \in Sleeping => t \in TickTasks(k)

LEMMA TakeUp ==
    ASSUME NEW k, Good(k), NEW t \in Task
    PROVE  /\ But(k, t) /\ ReadyAs(k, t) /\ WaitAs(k, t) /\ TickAs(k, t)
           /\ k.tcb[t] \in Tcb
<1>1. k \in KState /\ ReadyPart(k, NULL) /\ WaitPart(k, NULL) /\ TickPart(k, NULL)
  BY DEF Good, But
<1>2. t # NULL /\ t \in AllTask /\ NULL \notin AllTask /\ \A u \in Task : u \in AllTask
  BY Kinds
<1>3. k.tcb[t] \in Tcb
  BY <1>1, <1>2, Fields
<1>4. ReadyPart(k, t)
  BY <1>1, <1>2 DEF ReadyPart
<1>5. \A o \in Obj : Ordered(k.waitq[o], PrioOf(k)) /\ OrderedBut(k.waitq[o], PrioOf(k), t)
  <2> SUFFICES ASSUME NEW o \in Obj
               PROVE  Ordered(k.waitq[o], PrioOf(k)) /\ OrderedBut(k.waitq[o], PrioOf(k), t)
    OBVIOUS
  <2>1. k.waitq[o] \in Seq(Task) /\ OrderedBut(k.waitq[o], PrioOf(k), NULL)
    BY <1>1, Fields DEF WaitPart
  <2>2. \A i \in DOMAIN k.waitq[o] : k.waitq[o][i] # NULL
    BY <1>2, <2>1
  <2> QED
    BY <2>1, <2>2 DEF Ordered, OrderedBut
<1>6. WaitPart(k, t)
  BY <1>1, <1>2, <1>5 DEF WaitPart
<1>7. TickPart(k, t) /\ TickAs(k, t)
  BY <1>1, <1>2 DEF TickPart, TickAs
<1>8. ReadyAs(k, t)
  <2>1. k.tcb[t].prio \in Prio
    BY <1>3, TcbFields
  <2>2. \A p \in Prio : t \in Range(k.ready[p]) <=> k.tcb[t].state = "RDY" /\ k.tcb[t].prio = p
    BY <1>1, <1>2 DEF ReadyPart
  <2> QED
    BY <2>1, <2>2 DEF ReadyAs, InReady
<1>9. WaitAs(k, t)
  <2>1. k.tcb[t].state \in Pending => k.tcb[t].blk_obj \in Obj
    BY <1>3, TcbFields
  <2>2. \A o \in Obj : t \in Range(k.waitq[o]) <=>
                           k.tcb[t].state \in Pending /\ k.tcb[t].blk_obj = o
    BY <1>1, <1>2 DEF WaitPart
  <2> QED
    BY <2>1, <2>2 DEF WaitAs, InWait
<1> QED
  BY <1>1, <1>3, <1>4, <1>6, <1>7, <1>8, <1>9 DEF But

LEMMA GoodOrdered ==
    ASSUME NEW k, Good(k), NEW o \in Obj
    PROVE  Ordered(k.waitq[o], PrioOf(k))
<1>1. k.waitq[o] \in Seq(Task) /\ OrderedBut(k.waitq[o], PrioOf(k), NULL)
  BY WaitListOf DEF Good
<1>2. \A i \in DOMAIN k.waitq[o] : k.waitq[o][i] # NULL
  BY <1>1, Kinds
<1> QED
  BY <1>1, <1>2 DEF Ordered, OrderedBut

LEMMA PutDown ==
    ASSUME NEW k, NEW t \in Task, But(k, t), ReadyAs(k, t), WaitAs(k, t), TickAs(k, t),
           \A o \in InWait(k, t) : Ordered(k.waitq[o], PrioOf(k))
    PROVE  Good(k)
<1>1. k \in KState /\ ReadyPart(k, t) /\ WaitPart(k, t) /\ TickPart(k, t)
  BY DEF But
<1>2. t # NULL /\ t \in AllTask /\ NULL \notin AllTask /\ \A u \in Task : u \in AllTask
  BY Kinds
<1>3. k.tcb[t] \in Tcb
  BY <1>1, <1>2, Fields
<1>4. ReadyPart(k, NULL)
  <2>1. \A p \in Prio : t \in Range(k.ready[p]) <=> k.tcb[t].state = "RDY" /\ k.tcb[t].prio = p
    BY DEF ReadyAs, InReady
  <2> QED
    BY <1>1, <2>1 DEF ReadyPart
<1>5. WaitPart(k, NULL)
  <2>1. \A o \in Obj : t \in Range(k.waitq[o]) <=>
                           k.tcb[t].state \in Pending /\ k.tcb[t].blk_obj = o
    BY DEF WaitAs, InWait
  <2>2. ASSUME NEW o \in Obj PROVE OrderedBut(k.waitq[o], PrioOf(k), NULL)
    <3>1. CASE t \in Range(k.waitq[o])
      BY <3>1 DEF InWait, Ordered, OrderedBut
    <3>2. CASE t \notin Range(k.waitq[o])
      <4>1. \A i \in DOMAIN k.waitq[o] : k.waitq[o][i] # t
        BY <3>2 DEF Range
      <4>2. OrderedBut(k.waitq[o], PrioOf(k), t)
        BY <1>1 DEF WaitPart
      <4> QED
        BY <4>1, <4>2 DEF OrderedBut
    <3> QED
      BY <3>1, <3>2
  <2> QED
    BY <1>1, <2>1, <2>2 DEF WaitPart
<1>6. TickPart(k, NULL)
  BY <1>1 DEF TickPart, TickAs
<1> QED
  BY <1>1, <1>4, <1>5, <1>6 DEF Good, But

LEMMA NearNear ==
    ASSUME NEW a, NEW b, NEW c, NEW t, Near(a, b, t), Near(b, c, t)
    PROVE  Near(a, c, t)
BY DEF Near

-----------------------------------------------------------------------------
(* One field of t's control block changes. *)
TcbState(r, s)    == [r EXCEPT !.state = s]
TcbBlkState(r, b) == [r EXCEPT !.blk_state = b]
TcbBlkObj(r, o)   == [r EXCEPT !.blk_obj = o]
TcbPrio(r, p)     == [r EXCEPT !.prio = p]

PutState(k, t, s)    == [k EXCEPT !.tcb[t].state = s]
PutBlkState(k, t, b) == [k EXCEPT !.tcb[t].blk_state = b]
PutBlkObj(k, t, o)   == [k EXCEPT !.tcb[t].blk_obj = o]
PutPrio(k, t, p)     == [k EXCEPT !.tcb[t].prio = p]

LEMMA SetState ==
    ASSUME NEW k, NEW t \in Task, But(k, t), NEW s \in TaskState,
           s \in Suspended => k.tcb[t].suspend > 0, s \in Pending => k.tcb[t].blk_obj \in Obj,
           NEW k2, k2 = PutState(k, t, s)
    PROVE  /\ But(k2, t) /\ Near(k, k2, t) /\ k2.tcb[t] = TcbState(k.tcb[t], s)
           /\ k2.ready = k.ready /\ k2.waitq = k.waitq /\ k2.tick = k.tick
<1> DEFINE r == TcbState(k.tcb[t], s)
<1>1. k.tcb[t] \in Tcb
  BY Kinds, Fields DEF But
<1>2. r \in Tcb
  BY <1>1 DEF Tcb, TcbState
<1>3. t \in AllTask /\ k \in KState
  BY Kinds DEF But
<1>4. PutState(k, t, s) = [k EXCEPT !.tcb[t] = r]
  BY DEF PutState, TcbState
<1> HIDE DEF r
<1>5. /\ k2 \in KState /\ k2.tcb[t] = r /\ \A u \in AllTask \ {t} : k2.tcb[u] = k.tcb[u]
      /\ k2.ready = k.ready /\ k2.tick = k.tick /\ k2.waitq = k.waitq
      /\ k2.live = k.live /\ k2.mtx = k.mtx /\ k2.count = k.count /\ k2.kerr = k.kerr
  BY <1>2, <1>3, <1>4, WithTcb
<1>6. But(k2, t)
  BY <1>5, OtherTcb
<1> QED
  BY <1>5, <1>6 DEF Near, r

LEMMA SetBlkState ==
    ASSUME NEW k, NEW t \in Task, But(k, t), NEW b \in BlkState,
           NEW k2, k2 = PutBlkState(k, t, b)
    PROVE  /\ But(k2, t) /\ Near(k, k2, t) /\ k2.tcb[t] = TcbBlkState(k.tcb[t], b)
           /\ k2.ready = k.ready /\ k2.waitq = k.waitq /\ k2.tick = k.tick
<1> DEFINE r == TcbBlkState(k.tcb[t], b)
<1>1. k.tcb[t] \in Tcb
  BY Kinds, Fields DEF But
<1>2. r \in Tcb
  BY <1>1 DEF Tcb, TcbBlkState
<1>3. t \in AllTask /\ k \in KState
  BY Kinds DEF But
<1>4. PutBlkState(k, t, b) = [k EXCEPT !.tcb[t] = r]
  BY DEF PutBlkState, TcbBlkState
<1> HIDE DEF r
<1>5. /\ k2 \in KState /\ k2.tcb[t] = r /\ \A u \in AllTask \ {t} : k2.tcb[u] = k.tcb[u]
      /\ k2.ready = k.ready /\ k2.tick = k.tick /\ k2.waitq = k.waitq
      /\ k2.live = k.live /\ k2.mtx = k.mtx /\ k2.count = k.count /\ k2.kerr = k.kerr
  BY <1>2, <1>3, <1>4, WithTcb
<1>6. But(k2, t)
  BY <1>5, OtherTcb
<1> QED
  BY <1>5, <1>6 DEF Near, r

LEMMA SetBlkObj ==
    ASSUME NEW k, NEW t \in Task, But(k, t), NEW o \in Obj \cup {NULL},
           k.tcb[t].state \in Pending => o \in Obj, NEW k2, k2 = PutBlkObj(k, t, o)
    PROVE  /\ But(k2, t) /\ Near(k, k2, t) /\ k2.tcb[t] = TcbBlkObj(k.tcb[t], o)
           /\ k2.ready = k.ready /\ k2.waitq = k.waitq /\ k2.tick = k.tick
<1> DEFINE r == TcbBlkObj(k.tcb[t], o)
<1>1. k.tcb[t] \in Tcb
  BY Kinds, Fields DEF But
<1>2. r \in Tcb
  BY <1>1 DEF Tcb, TcbBlkObj
<1>3. t \in AllTask /\ k \in KState
  BY Kinds DEF But
<1>4. PutBlkObj(k, t, o) = [k EXCEPT !.tcb[t] = r]
  BY DEF PutBlkObj, TcbBlkObj
<1> HIDE DEF r
<1>5. /\ k2 \in KState /\ k2.tcb[t] = r /\ \A u \in AllTask \ {t} : k2.tcb[u] = k.tcb[u]
      /\ k2.ready = k.ready /\ k2.tick = k.tick /\ k2.waitq = k.waitq
      /\ k2.live = k.live /\ k2.mtx = k.mtx /\ k2.count = k.count /\ k2.kerr = k.kerr
  BY <1>2, <1>3, <1>4, WithTcb
<1>6. But(k2, t)
  BY <1>5, OtherTcb
<1> QED
  BY <1>5, <1>6 DEF Near, r

LEMMA SetPrio ==
    ASSUME NEW k, NEW t \in Task, But(k, t), NEW p \in Prio,
           NEW k2, k2 = PutPrio(k, t, p)
    PROVE  /\ But(k2, t) /\ Near(k, k2, t) /\ k2.tcb[t] = TcbPrio(k.tcb[t], p)
           /\ k2.ready = k.ready /\ k2.waitq = k.waitq /\ k2.tick = k.tick
<1> DEFINE r == TcbPrio(k.tcb[t], p)
<1>1. k.tcb[t] \in Tcb
  BY Kinds, Fields DEF But
<1>2. r \in Tcb
  BY <1>1 DEF Tcb, TcbPrio
<1>3. t \in AllTask /\ k \in KState
  BY Kinds DEF But
<1>4. PutPrio(k, t, p) = [k EXCEPT !.tcb[t] = r]
  BY DEF PutPrio, TcbPrio
<1> HIDE DEF r
<1>5. /\ k2 \in KState /\ k2.tcb[t] = r /\ \A u \in AllTask \ {t} : k2.tcb[u] = k.tcb[u]
      /\ k2.ready = k.ready /\ k2.tick = k.tick /\ k2.waitq = k.waitq
      /\ k2.live = k.live /\ k2.mtx = k.mtx /\ k2.count = k.count /\ k2.kerr = k.kerr
  BY <1>2, <1>3, <1>4, WithTcb
<1>6. But(k2, t)
  BY <1>5, OtherTcb
<1> QED
  BY <1>5, <1>6 DEF Near, r

-----------------------------------------------------------------------------
(* A waiter is woken. *)
Woken(r, b) == [r EXCEPT !.state = IF r.state = "PEND" THEN "RDY" ELSE "SUSPENDED",
                         !.blk_state = b]

LEMMA UnpendOf ==
    ASSUME NEW k, NEW t \in Task, But(k, t), ReadyAs(k, t), WaitAs(k, t),
           k.tcb[t].state \in Pending, NEW b \in BlkState, NEW k2, k2 = Unpend(k, t, b)
    PROVE  /\ But(k2, t) /\ Near(k, k2, t) /\ k2.tcb[t] = Woken(k.tcb[t], b)
           /\ ReadyAs(k2, t) /\ WaitAs(k2, t) /\ k2.tick = k.tick
           /\ LET o == k.tcb[t].blk_obj
              IN  t \in Range(k.waitq[o]) /\ Len(k2.waitq[o]) = Len(k.waitq[o]) - 1
<1> DEFINE k1 == PendListRm(k, t)
           o == k.tcb[t].blk_obj
<1>1. k.tcb[t] \in Tcb
  BY Kinds, Fields DEF But
<1>2. k.tcb[t].prio \in Prio /\ o \in Obj /\ k.tcb[t].suspend \in 0..MaxSuspend
  BY <1>1, TcbFields
<1>3. InReady(k, t) = {} /\ InWait(k, t) = {o} /\ t \in Range(k.waitq[o])
  <2>1. k.tcb[t].state # "RDY"
    BY States
  <2>2. InReady(k, t) = {} /\ InWait(k, t) = {o}
    BY <2>1 DEF ReadyAs, WaitAs
  <2> QED
    BY <2>2 DEF InWait
<1>4. /\ But(k1, t) /\ Near(k, k1, t) /\ k1.tcb = k.tcb
      /\ k1.ready = k.ready /\ k1.tick = k.tick /\ InWait(k1, t) = {}
      /\ Len(k1.waitq[o]) = Len(k.waitq[o]) - 1
  BY <1>2, <1>3, PendListRmOf
<1>5. InReady(k1, t) = {}
  BY <1>3, <1>4 DEF InReady
<1> HIDE DEF k1
<1>6. CASE k.tcb[t].state = "PEND"
  <2> DEFINE x1 == ReadyAdd(k1, t)
             x2 == PutState(x1, t, "RDY")
             x3 == PutBlkState(x2, t, b)
  <2>1. /\ But(x1, t) /\ Near(k1, x1, t) /\ x1.tcb = k1.tcb
        /\ x1.waitq = k1.waitq /\ x1.tick = k1.tick /\ InReady(x1, t) = {k.tcb[t].prio}
    BY <1>4, <1>5, ReadyAddOf
  <2> HIDE DEF x1
  <2>2. "RDY" \in TaskState /\ "RDY" \notin Suspended /\ "RDY" \notin Pending
    BY States
  <2>3. /\ But(x2, t) /\ Near(x1, x2, t) /\ x2.tcb[t] = TcbState(x1.tcb[t], "RDY")
        /\ x2.ready = x1.ready /\ x2.waitq = x1.waitq /\ x2.tick = x1.tick
    BY <2>1, <2>2, SetState
  <2>4. k2 = x3
    BY <1>6 DEF Unpend, x1, k1, PutState, PutBlkState
  <2> HIDE DEF x2
  <2>5. /\ But(k2, t) /\ Near(x2, k2, t) /\ k2.tcb[t] = TcbBlkState(x2.tcb[t], b)
        /\ k2.ready = x2.ready /\ k2.waitq = x2.waitq /\ k2.tick = x2.tick
    BY <2>3, <2>4, SetBlkState DEF x3
  <2>6. k2.tcb[t] = Woken(k.tcb[t], b)
    BY <1>1, <1>4, <1>6, <2>1, <2>3, <2>5 DEF Woken, TcbState, TcbBlkState, Tcb
  <2>7. k2.tcb[t].state = "RDY" /\ k2.tcb[t].prio = k.tcb[t].prio
    BY <1>1, <1>6, <2>6 DEF Woken, Tcb
  <2>8. InReady(k2, t) = {k.tcb[t].prio} /\ InWait(k2, t) = {}
    BY <1>4, <2>1, <2>3, <2>5 DEF InReady, InWait
  <2>9. ReadyAs(k2, t) /\ WaitAs(k2, t)
    BY <2>2, <2>7, <2>8 DEF ReadyAs, WaitAs
  <2>10. Near(k, k2, t)
    BY <1>4, <2>1, <2>3, <2>5, NearNear
  <2> QED
    BY <1>3, <1>4, <2>1, <2>3, <2>5, <2>6, <2>9, <2>10
<1>7. CASE k.tcb[t].state # "PEND"
  <2> DEFINE x2 == PutState(k1, t, "SUSPENDED")
             x3 == PutBlkState(x2, t, b)
  <2>1. k.tcb[t].state = "PEND_SUSPENDED" /\ k.tcb[t].suspend > 0
    BY <1>1, <1>7, States, TcbFields
  <2>2. "SUSPENDED" \in TaskState /\ "SUSPENDED" # "RDY" /\ "SUSPENDED" \notin Pending
    BY States
  <2>3. /\ But(x2, t) /\ Near(k1, x2, t) /\ x2.tcb[t] = TcbState(k1.tcb[t], "SUSPENDED")
        /\ x2.ready = k1.ready /\ x2.waitq = k1.waitq /\ x2.tick = k1.tick
    BY <1>4, <2>1, <2>2, SetState
  <2>4. k2 = x3
    BY <1>7, <2>1 DEF Unpend, k1, PutState, PutBlkState
  <2> HIDE DEF x2
  <2>5. /\ But(k2, t) /\ Near(x2, k2, t) /\ k2.tcb[t] = TcbBlkState(x2.tcb[t], b)
        /\ k2.ready = x2.ready /\ k2.waitq = x2.waitq /\ k2.tick = x2.tick
    BY <2>3, <2>4, SetBlkState DEF x3
  <2>6. k2.tcb[t] = Woken(k.tcb[t], b)
    BY <1>1, <1>4, <1>7, <2>3, <2>5 DEF Woken, TcbState, TcbBlkState, Tcb
  <2>7. k2.tcb[t].state = "SUSPENDED"
    BY <1>1, <1>7, <2>6 DEF Woken, Tcb
  <2>8. InReady(k2, t) = {} /\ InWait(k2, t) = {}
    BY <1>4, <1>5, <2>3, <2>5 DEF InReady, InWait
  <2>9. ReadyAs(k2, t) /\ WaitAs(k2, t)
    BY <2>2, <2>7, <2>8 DEF ReadyAs, WaitAs
  <2>10. Near(k, k2, t)
    BY <1>4, <2>3, <2>5, NearNear
  <2> QED
    BY <1>3, <1>4, <2>3, <2>5, <2>6, <2>9, <2>10
<1> QED
  BY <1>6, <1>7

-----------------------------------------------------------------------------
(***************************************************************************)
(* What the helpers never do to a task they were not called for: nobody    *)
(* starts to wait or to sleep, nobody is deleted, a ready task stays so,   *)
(* and a task leaves its wait with a reason.  Without inheritance a        *)
(* priority that was not changed by a call stays the base priority.        *)
(***************************************************************************)
Softer(a, b) ==
    /\ b.state \in Pending => a.state \in Pending /\ b.blk_obj = a.blk_obj
    /\ b.state \in Sleeping => a.state \in Sleeping
    /\ b.state = "DELETED" <=> a.state = "DELETED"
    /\ a.state = "RDY" => b.state = "RDY"
    /\ b.state \in {"RDY", "SUSPENDED"} /\ b.blk_state = "STALE"
           => a.state \in {"RDY", "SUSPENDED"} /\ a.blk_state = "STALE"

Flat(k) == \A u \in AllTask : k.tcb[u].prio = k.tcb[u].b_prio

Onward(k, k2) ==
    /\ k2.live = k.live /\ k2.count = k.count
    /\ Range(k2.tick) \subseteq Range(k.tick)
    /\ \A u \in AllTask : Softer(k.tcb[u], k2.tcb[u])
    /\ ~INHERIT /\ Flat(k) => Flat(k2)

LEMMA SofterSofter ==
    ASSUME NEW a, NEW b, NEW c, Softer(a, b), Softer(b, c)
    PROVE  Softer(a, c)
BY DEF Softer

LEMMA OnwardOnward ==
    ASSUME NEW a, NEW b, NEW c, Onward(a, b), Onward(b, c)
    PROVE  Onward(a, c)
<1>1. \A u \in AllTask : Softer(a.tcb[u], c.tcb[u])
  BY SofterSofter DEF Onward
<1> QED
  BY <1>1 DEF Onward

LEMMA SofterSame ==
    ASSUME NEW a
    PROVE  Softer(a, a)
BY DEF Softer

LEMMA OnwardSame ==
    ASSUME NEW k, NEW k2, k2.tcb = k.tcb, k2.live = k.live, k2.count = k.count,
           Range(k2.tick) \subseteq Range(k.tick)
    PROVE  Onward(k, k2)
BY SofterSame DEF Onward, Flat

(* One task has changed. *)
LEMMA OnwardNear ==
    ASSUME NEW k, NEW k2, NEW t, Near(k, k2, t), Softer(k.tcb[t], k2.tcb[t]),
           k2.tcb[t].prio = k.tcb[t].prio, k2.tcb[t].b_prio = k.tcb[t].b_prio,
           Range(k2.tick) \subseteq Range(k.tick)
    PROVE  Onward(k, k2)
<1>1. \A u \in AllTask : Softer(k.tcb[u], k2.tcb[u])
  BY SofterSame DEF Near
<1>2. \A u \in AllTask : k2.tcb[u].prio = k.tcb[u].prio /\ k2.tcb[u].b_prio = k.tcb[u].b_prio
  BY DEF Near
<1> QED
  BY <1>1, <1>2 DEF Onward, Flat, Near

LEMMA SofterWoken ==
    ASSUME NEW r \in Tcb, r.state \in Pending, NEW b \in BlkState \ {"STALE"},
           NEW o \in Obj \cup {NULL}, NEW r2, r2 = TcbBlkObj(Woken(r, b), o)
    PROVE  /\ Softer(r, r2) /\ r2.prio = r.prio /\ r2.b_prio = r.b_prio
           /\ r2.state \in {"RDY", "SUSPENDED"}
<1>1. /\ r2.state \in {"RDY", "SUSPENDED"} /\ r2.blk_state = b
      /\ r2.prio = r.prio /\ r2.b_prio = r.b_prio
  BY DEF TcbBlkObj, Woken, Tcb
<1> QED
  BY <1>1, States DEF Softer

(***************************************************************************)
(* What the helpers that hand over no mutex leave alone: the mutexes, the  *)
(* lists of those that a task holds, and what a task that no longer waits  *)
(* is told; nobody who waited for a mutex is told that it got it.  Tied:   *)
(* of all tasks but h.                                                     *)
(***************************************************************************)
SameClaims(a, b) ==
    /\ b.mutex_list = a.mutex_list
    /\ b.state \in {"RDY", "SUSPENDED"} =>
           IF a.state \in {"RDY", "SUSPENDED"} THEN b.blk_state = a.blk_state
           ELSE a.state \in Pending /\ a.blk_obj \in Mutex => b.blk_state # "FINISH"

Tied(k, k2, h) ==
    /\ k2.mtx = k.mtx /\ k2.live = k.live
    /\ \A u \in AllTask \ {h} : Softer(k.tcb[u], k2.tcb[u]) /\ SameClaims(k.tcb[u], k2.tcb[u])

LEMMA ClaimsClaims ==
    ASSUME NEW a, NEW b \in Tcb, NEW c, Softer(a, b), SameClaims(a, b),
           Softer(b, c), SameClaims(b, c)
    PROVE  SameClaims(a, c)
<1>1. b.state \in TaskState
  BY TcbFields
<1>2. CASE b.state \in {"RDY", "SUSPENDED"}
  BY <1>2 DEF SameClaims
<1>3. CASE b.state \in Pending
  BY <1>3, States DEF SameClaims, Softer
<1>4. CASE b.state \in Sleeping \cup {"DELETED"}
  BY <1>4, States DEF SameClaims, Softer
<1> QED
  BY <1>1, <1>2, <1>3, <1>4, States

LEMMA TiedTied ==
    ASSUME NEW a, NEW b \in KState, NEW c, NEW h, Tied(a, b, h), Tied(b, c, h)
    PROVE  Tied(a, c, h)
<1>1. ASSUME NEW u \in AllTask \ {h}
      PROVE  Softer(a.tcb[u], c.tcb[u]) /\ SameClaims(a.tcb[u], c.tcb[u])
  <2>1. /\ Softer(a.tcb[u], b.tcb[u]) /\ SameClaims(a.tcb[u], b.tcb[u])
        /\ Softer(b.tcb[u], c.tcb[u]) /\ SameClaims(b.tcb[u], c.tcb[u])
    BY DEF Tied
  <2>2. b.tcb[u] \in Tcb
    BY Fields
  <2> QED
    BY <2>1, <2>2, SofterSofter, ClaimsClaims
<1> QED
  BY <1>1 DEF Tied

LEMMA TiedSame ==
    ASSUME NEW k, NEW k2, k2.tcb = k.tcb, k2.mtx = k.mtx, k2.live = k.live, NEW h
    PROVE  Tied(k, k2, h)
BY SofterSame DEF Tied, SameClaims

(* One task has changed: the others have not, and it may be like them. *)
LEMMA TiedNear ==
    ASSUME NEW k, NEW k2, NEW t, Near(k, k2, t)
    PROVE  /\ Tied(k, k2, t)
           /\ Softer(k.tcb[t], k2.tcb[t]) /\ SameClaims(k.tcb[t], k2.tcb[t])
                  => \A h : Tied(k, k2, h)
<1>1. \A u \in AllTask \ {t} : Softer(k.tcb[u], k2.tcb[u]) /\ SameClaims(k.tcb[u], k2.tcb[u])
  BY SofterSame DEF Near, SameClaims
<1> QED
  BY <1>1 DEF Tied, Near

(* A waiter is woken or sent away: pend_task_wakeup and pend_task_rm. *)
WakeAs(k, t, b) == PutBlkObj(TickRm(Unpend(k, t, b), t), t, NULL)

LEMMA WakeAsOf ==
    ASSUME NEW k, Good(k), NEW t \in Task, k.tcb[t].state \in Pending,
           NEW b \in BlkState \ {"STALE"}, NEW k2, k2 = WakeAs(k, t, b)
    PROVE  /\ Good(k2) /\ Near(k, k2, t) /\ Onward(k, k2)
           /\ k2.tcb[t] = TcbBlkObj(Woken(k.tcb[t], b), NULL)
           /\ k2.tcb[t].prio = k.tcb[t].prio /\ k2.tcb[t].b_prio = k.tcb[t].b_prio
           /\ k2.tcb[t].state \in {"RDY", "SUSPENDED"}
           /\ LET o == k.tcb[t].blk_obj
              IN  t \in Range(k.waitq[o]) /\ Len(k2.waitq[o]) = Len(k.waitq[o]) - 1
<1> DEFINE o == k.tcb[t].blk_obj
           x1 == Unpend(k, t, b)
           x2 == TickRm(x1, t)
<1>1. But(k, t) /\ ReadyAs(k, t) /\ WaitAs(k, t) /\ k.tcb[t] \in Tcb
  BY TakeUp
<1>2. /\ But(x1, t) /\ Near(k, x1, t) /\ x1.tcb[t] = Woken(k.tcb[t], b)
      /\ ReadyAs(x1, t) /\ WaitAs(x1, t) /\ x1.tick = k.tick
      /\ t \in Range(k.waitq[o]) /\ Len(x1.waitq[o]) = Len(k.waitq[o]) - 1
  BY <1>1, UnpendOf
<1> HIDE DEF x1, o
<1>3. /\ But(x2, t) /\ Near(x1, x2, t) /\ x2.tcb = x1.tcb
      /\ x2.ready = x1.ready /\ x2.waitq = x1.waitq
      /\ Range(x2.tick) \subseteq Range(x1.tick) /\ t \notin TickTasks(x2)
  BY <1>2, TickRmOf
<1>4. k2 = PutBlkObj(x2, t, NULL)
  BY DEF WakeAs, x1, x2
<1> HIDE DEF x2
<1>5. x2.tcb[t] = Woken(k.tcb[t], b)
  BY <1>2, <1>3
<1>6. x2.tcb[t].state \notin Pending
  BY <1>1, <1>5, States DEF Woken, Tcb
<1>7. /\ But(k2, t) /\ Near(x2, k2, t) /\ k2.tcb[t] = TcbBlkObj(x2.tcb[t], NULL)
      /\ k2.ready = x2.ready /\ k2.waitq = x2.waitq /\ k2.tick = x2.tick
  BY <1>3, <1>4, <1>6, SetBlkObj
<1>8. k2.tcb[t] = TcbBlkObj(Woken(k.tcb[t], b), NULL)
  BY <1>5, <1>7
<1>9. /\ Softer(k.tcb[t], k2.tcb[t]) /\ k2.tcb[t].prio = k.tcb[t].prio
      /\ k2.tcb[t].b_prio = k.tcb[t].b_prio /\ k2.tcb[t].state \in {"RDY", "SUSPENDED"}
  BY <1>1, <1>8, SofterWoken
<1>10. Near(k, k2, t)
  BY <1>2, <1>3, <1>7, NearNear
<1>11. Onward(k, k2)
  <2>1. Range(k2.tick) \subseteq Range(k.tick)
    BY <1>2, <1>3, <1>7
  <2> QED
    BY <1>9, <1>10, <2>1, OnwardNear
<1>12. Good(k2)
  <2>1. k2.tcb[t].state = x1.tcb[t].state /\ k2.tcb[t].prio = x1.tcb[t].prio
    BY <1>1, <1>2, <1>8 DEF TcbBlkObj, Woken, Tcb
  <2>2. x1.tcb[t].state \notin Pending \cup Sleeping /\ t \notin TickTasks(k2)
    BY <1>3, <1>7, <1>9, <2>1, States DEF TickTasks
  <2>3. ReadyAs(k2, t)
    BY <1>2, <1>3, <1>7, <2>1 DEF ReadyAs, InReady
  <2>4. InWait(k2, t) = {}
    BY <1>2, <1>3, <1>7, <2>2 DEF WaitAs, InWait
  <2>5. WaitAs(k2, t) /\ TickAs(k2, t)
    BY <2>1, <2>2, <2>4 DEF WaitAs, TickAs
  <2> QED
    BY <1>7, <2>3, <2>4, <2>5, PutDown
<1> QED
  BY <1>2, <1>3, <1>7, <1>8, <1>9, <1>10, <1>11, <1>12 DEF o

(* Who is woken without the mutex it waited for is not told otherwise. *)
LEMMA WokenClaims ==
    ASSUME NEW r \in Tcb, r.state \in Pending, NEW b \in BlkState, NEW o, NEW r2,
           r2 = TcbBlkObj(Woken(r, b), o), b # "FINISH" \/ r.blk_obj \in Sem
    PROVE  SameClaims(r, r2)
<1>1. r2.mutex_list = r.mutex_list /\ r2.blk_state = b
  BY DEF TcbBlkObj, Woken, Tcb
<1>2. r.state \notin {"RDY", "SUSPENDED"}
  BY States
<1> QED
  BY <1>1, <1>2, Kinds DEF SameClaims

LEMMA GoodState ==
    ASSUME NEW k, Good(k)
    PROVE  k \in KState
BY DEF Good, But

(* Tasks that do not wait for o are as they were, and no priority changes. *)
Rouses(k, k2, o) ==
    /\ k2.kerr = k.kerr
    /\ \A u \in AllTask :
           /\ k2.tcb[u].prio = k.tcb[u].prio /\ k2.tcb[u].b_prio = k.tcb[u].b_prio
           /\ k.tcb[u].state \notin Pending \/ k.tcb[u].blk_obj # o => k2.tcb[u] = k.tcb[u]

LEMMA RousesRouses ==
    ASSUME NEW a, NEW b, NEW c, NEW o, Rouses(a, b, o), Rouses(b, c, o)
    PROVE  Rouses(a, c, o)
<1>1. c.kerr = a.kerr
  BY DEF Rouses
<1>2. ASSUME NEW u \in AllTask
      PROVE  /\ c.tcb[u].prio = a.tcb[u].prio /\ c.tcb[u].b_prio = a.tcb[u].b_prio
             /\ a.tcb[u].state \notin Pending \/ a.tcb[u].blk_obj # o => c.tcb[u] = a.tcb[u]
  <2>1. /\ b.tcb[u].prio = a.tcb[u].prio /\ b.tcb[u].b_prio = a.tcb[u].b_prio
        /\ a.tcb[u].state \notin Pending \/ a.tcb[u].blk_obj # o => b.tcb[u] = a.tcb[u]
    BY DEF Rouses
  <2>2. /\ c.tcb[u].prio = b.tcb[u].prio /\ c.tcb[u].b_prio = b.tcb[u].b_prio
        /\ b.tcb[u].state \notin Pending \/ b.tcb[u].blk_obj # o => c.tcb[u] = b.tcb[u]
    BY DEF Rouses
  <2> QED
    BY <2>1, <2>2
<1> QED
  BY <1>1, <1>2 DEF Rouses

(* The first waiter of an object. *)
LEMMA FirstWaiter ==
    ASSUME NEW k, Good(k), NEW o \in Obj, k.waitq[o] # <<>>, NEW t, t = Head(k.waitq[o])
    PROVE  /\ t \in Task /\ t \in Range(k.waitq[o])
           /\ k.tcb[t].state \in Pending /\ k.tcb[t].blk_obj = o
<1>1. k \in KState /\ WaitPart(k, NULL)
  BY DEF Good, But
<1>2. k.waitq[o] \in Seq(Task)
  BY <1>1, Fields
<1>3. t = k.waitq[o][1] /\ 1 \in DOMAIN k.waitq[o] /\ t \in Task
  BY <1>2
<1>4. t \in Range(k.waitq[o])
  BY <1>3 DEF Range
<1>5. t \in Task \ {NULL}
  BY <1>3, Kinds
<1> QED
  BY <1>1, <1>3, <1>4, <1>5 DEF WaitPart

WakeFirstAs(k, o, b) == IF k.waitq[o] = <<>> THEN k ELSE WakeAs(k, Head(k.waitq[o]), b)

LEMMA WakeFirstOf ==
    ASSUME NEW k, Good(k), NEW o \in Obj, NEW b \in BlkState \ {"STALE"},
           NEW k2, k2 = WakeFirstAs(k, o, b)
    PROVE  /\ Good(k2) /\ Onward(k, k2) /\ k2.mtx = k.mtx /\ Rouses(k, k2, o)
           /\ b # "FINISH" \/ o \in Sem => Tied(k, k2, NULL)
           /\ \A n \in Nat : Len(k.waitq[o]) <= n + 1 => Len(k2.waitq[o]) <= n
<1>1. k.waitq[o] \in Seq(Task)
  BY GoodState, Fields
<1>2. CASE k.waitq[o] = <<>>
  <2>1. k2 = k
    BY <1>2 DEF WakeFirstAs
  <2>2. Tied(k, k2, NULL)
    BY <2>1, TiedSame
  <2>3. Rouses(k, k2, o)
    BY <2>1 DEF Rouses
  <2> QED
    BY <1>2, <2>1, <2>2, <2>3, OnwardSame
<1>3. CASE k.waitq[o] # <<>>
  <2> DEFINE t == Head(k.waitq[o])
  <2>1. t \in Task /\ k.tcb[t].state \in Pending /\ k.tcb[t].blk_obj = o
    BY <1>3, FirstWaiter
  <2>2. k2 = WakeAs(k, t, b)
    BY <1>3 DEF WakeFirstAs
  <2> HIDE DEF t
  <2>3. /\ Good(k2) /\ Near(k, k2, t) /\ Onward(k, k2)
        /\ Len(k2.waitq[o]) = Len(k.waitq[o]) - 1
    BY <2>1, <2>2, WakeAsOf
  <2>6. k2.tcb[t] = TcbBlkObj(Woken(k.tcb[t], b), NULL)
    BY <2>1, <2>2, WakeAsOf
  <2>4. Len(k.waitq[o]) \in Nat
    BY <1>1
  <2>5. ASSUME b # "FINISH" \/ o \in Sem PROVE Tied(k, k2, NULL)
    <3>1. k.tcb[t] \in Tcb
      BY <2>1, GoodState, Kinds, Fields
    <3>2. SameClaims(k.tcb[t], k2.tcb[t])
      BY <2>1, <2>5, <2>6, <3>1, WokenClaims
    <3>3. Softer(k.tcb[t], k2.tcb[t])
      BY <2>1, <2>3, Kinds DEF Onward
    <3> QED
      BY <2>3, <3>2, <3>3, TiedNear
  <2>7. k2.tcb[t].prio = k.tcb[t].prio /\ k2.tcb[t].b_prio = k.tcb[t].b_prio
    BY <2>1, <2>2, WakeAsOf
  <2>8. Rouses(k, k2, o)
    BY <2>1, <2>3, <2>7 DEF Rouses, Near
  <2> QED
    BY <2>3, <2>4, <2>5, <2>8 DEF Near
<1> QED
  BY <1>2, <1>3

(* All of them. *)
WakeRounds(k, o, b) ==
    LET round[i \in 0..Len(k.waitq[o])] ==
            IF i = 0 THEN k ELSE WakeFirstAs(round[i-1], o, b)
    IN  round

WakeAllAs(k, o, b) == WakeRounds(k, o, b)[Len(k.waitq[o])]

LEMMA WakeAllAsOf ==
    ASSUME NEW k, Good(k), NEW o \in Obj, NEW b \in BlkState \ {"STALE"},
           NEW k2, k2 = WakeAllAs(k, o, b)
    PROVE  /\ Good(k2) /\ Onward(k, k2) /\ k2.mtx = k.mtx /\ k2.waitq[o] = <<>>
           /\ Rouses(k, k2, o)
           /\ b # "FINISH" \/ o \in Sem => Tied(k, k2, NULL)
<1> DEFINE n == Len(k.waitq[o])
           r == WakeRounds(k, o, b)
           D == {x \in KState : Good(x)}
           F == [x \in D |-> WakeFirstAs(x, o, b)]
<1>1. k \in D /\ n \in Nat /\ k.waitq[o] \in Seq(Task)
  BY GoodState, Fields
<1>2. F \in [D -> D]
  <2>1. \A x \in D : WakeFirstAs(x, o, b) \in D
    BY WakeFirstOf, GoodState
  <2> QED
    BY <2>1
<1>3. \A x \in D : F[x] = WakeFirstAs(x, o, b)
  OBVIOUS
<1>0. n = Len(k.waitq[o])
  OBVIOUS
<1> HIDE DEF D, F, n, r
<1>4. PICK g \in [0..n -> D] : Loop(g, F, k, n)
  <2>1. k \in D
    BY <1>1
  <2>2. n \in Nat
    BY <1>1
  <2> QED
    BY <1>2, <2>1, <2>2, LoopExists
<1>5. g = [i \in 0..n |-> IF i = 0 THEN k ELSE WakeFirstAs(g[i-1], o, b)]
  <2>1. \A i \in 1..n : g[i] = WakeFirstAs(g[i-1], o, b)
    <3> SUFFICES ASSUME NEW i \in 1..n PROVE g[i] = WakeFirstAs(g[i-1], o, b)
      OBVIOUS
    <3>1. i - 1 \in 0..n
      BY <1>1
    <3>2. g[i] = F[g[i - 1]]
      BY <1>4 DEF Loop
    <3> QED
      BY <1>3, <1>4, <3>1, <3>2
  <2>2. \A i \in 0..n : i # 0 => i \in 1..n
    OBVIOUS
  <2>3. g[0] = k
    BY <1>4 DEF Loop
  <2> QED
    BY <1>4, <2>1, <2>2, <2>3
<1>6. r = [i \in 0..n |-> IF i = 0 THEN k ELSE WakeFirstAs(r[i-1], o, b)]
  BY <1>0, <1>5 DEF WakeRounds, r
<1>61. r[0] = k /\ \A i \in 1..n : r[i] = WakeFirstAs(r[i-1], o, b)
  <2>1. \A i \in 1..n : i \in 0..n /\ i # 0
    OBVIOUS
  <2>2. 0 \in 0..n
    BY <1>1
  <2> QED
    BY <1>6, <2>1, <2>2
<1> DEFINE Stays(x) == b # "FINISH" \/ o \in Sem => Tied(k, x, NULL)
           S == {i \in 0..n : /\ Good(r[i]) /\ Onward(k, r[i]) /\ r[i].mtx = k.mtx
                              /\ Rouses(k, r[i], o) /\ Stays(r[i]) /\ Len(r[i].waitq[o]) <= n - i}
<1>7. 0 \in S
  <2>1. r[0] = k /\ 0 \in 0..n
    BY <1>1, <1>61
  <2>2. Tied(k, k, NULL) /\ Rouses(k, k, o)
    BY TiedSame DEF Rouses
  <2> QED
    BY <1>0, <1>1, <2>1, <2>2, OnwardSame
<1>8. ASSUME NEW i \in 1..n, i - 1 \in S PROVE i \in S
  <2>1. r[i] = WakeFirstAs(r[i-1], o, b) /\ i \in 0..n
    BY <1>1, <1>61
  <2>2. /\ Good(r[i-1]) /\ Onward(k, r[i-1]) /\ r[i-1].mtx = k.mtx /\ Stays(r[i-1])
        /\ Len(r[i-1].waitq[o]) <= n - (i-1) /\ Rouses(k, r[i-1], o)
    BY <1>8
  <2>3. n - i \in Nat /\ n - (i - 1) = (n - i) + 1
    BY <1>1
  <2>4. /\ Good(r[i]) /\ Onward(r[i-1], r[i]) /\ r[i].mtx = r[i-1].mtx
        /\ Rouses(r[i-1], r[i], o)
        /\ b # "FINISH" \/ o \in Sem => Tied(r[i-1], r[i], NULL)
        /\ \A m \in Nat : Len(r[i-1].waitq[o]) <= m + 1 => Len(r[i].waitq[o]) <= m
    BY <2>1, <2>2, WakeFirstOf
  <2>6. Len(r[i].waitq[o]) <= n - i
    BY <2>2, <2>3, <2>4
  <2>5. Onward(k, r[i])
    BY <2>2, <2>4, OnwardOnward
  <2>7. Stays(r[i])
    <3>1. r[i-1] \in KState
      BY <2>2, GoodState
    <3> QED
      BY <2>2, <2>4, <3>1, TiedTied
  <2>8. Rouses(k, r[i], o)
    BY <2>2, <2>4, RousesRouses
  <2> HIDE DEF Stays
  <2> QED
    BY <2>1, <2>2, <2>4, <2>5, <2>6, <2>7, <2>8
<1> HIDE DEF S
<1>9. n \in S
  <2>1. \A i \in 1..n : i - 1 \in S => i \in S
    BY <1>8
  <2>2. n \in Nat /\ n \in 0..n
    BY <1>1
  <2> QED
    BY <1>7, <2>1, <2>2, UpTo
<1>10. /\ Good(r[n]) /\ Onward(k, r[n]) /\ r[n].mtx = k.mtx /\ Stays(r[n])
       /\ Rouses(k, r[n], o)
       /\ Len(r[n].waitq[o]) <= n - n
  BY <1>9 DEF S
<1>11. r[n].waitq[o] \in Seq(Task)
  BY <1>10, GoodState, Fields
<1>12. k2 = r[n]
  BY DEF WakeAllAs, n, r
<1> QED
  BY <1>1, <1>10, <1>11, <1>12

LEMMA WakeupAllOf ==
    ASSUME NEW k, Good(k), NEW o \in Obj, NEW k2, k2 = WakeupAll(k, o)
    PROVE  /\ Good(k2) /\ Onward(k, k2) /\ k2.mtx = k.mtx /\ k2.waitq[o] = <<>>
           /\ Rouses(k, k2, o)
           /\ o \in Sem => Tied(k, k2, NULL)
<1>1. "FINISH" \in BlkState \ {"STALE"}
  BY DEF BlkState
<1>2. WakeupAll(k, o) = WakeAllAs(k, o, "FINISH")
  BY DEF WakeupAll, WakeAllAs, WakeRounds, WakeupRounds, WakeupFirst, PendTaskWakeup,
         WakeFirstAs, WakeAs, PutBlkObj
<1> QED
  BY <1>1, <1>2, WakeAllAsOf

LEMMA PendRmAllOf ==
    ASSUME NEW k, Good(k), NEW o \in Obj, NEW k2, k2 = PendRmAll(k, o)
    PROVE  /\ Good(k2) /\ Onward(k, k2) /\ k2.mtx = k.mtx /\ k2.waitq[o] = <<>>
           /\ Rouses(k, k2, o)
           /\ Tied(k, k2, NULL)
<1>1. "DEL" \in BlkState \ {"STALE"} /\ "DEL" # "FINISH"
  BY DEF BlkState
<1>2. PendRmAll(k, o) = WakeAllAs(k, o, "DEL")
  BY DEF PendRmAll, WakeAllAs, WakeRounds, PendRmRounds, PendRmFirst, PendTaskRm,
         WakeFirstAs, WakeAs, PutBlkObj
<1> QED
  BY <1>1, <1>2, WakeAllAsOf

-----------------------------------------------------------------------------
(* Nothing that the lists or Onward speak of has changed. *)
Alike(k, k2) ==
    /\ k2 \in KState
    /\ k2.ready = k.ready /\ k2.tick = k.tick /\ k2.waitq = k.waitq
    /\ k2.live = k.live /\ k2.count = k.count
    /\ \A u \in AllTask :
           /\ k2.tcb[u].state = k.tcb[u].state /\ k2.tcb[u].blk_obj = k.tcb[u].blk_obj
           /\ k2.tcb[u].blk_state = k.tcb[u].blk_state
           /\ k2.tcb[u].prio = k.tcb[u].prio /\ k2.tcb[u].b_prio = k.tcb[u].b_prio

(* The lists are good when they and what they are about are the same. *)
LEMMA GoodSame ==
    ASSUME NEW k, Good(k), NEW k2 \in KState,
           k2.ready = k.ready, k2.tick = k.tick, k2.waitq = k.waitq,
           \A u \in AllTask : /\ k2.tcb[u].state = k.tcb[u].state
                              /\ k2.tcb[u].blk_obj = k.tcb[u].blk_obj
                              /\ k2.tcb[u].prio = k.tcb[u].prio
    PROVE  Good(k2)
<1>1. ReadyPart(k, NULL) /\ WaitPart(k, NULL) /\ TickPart(k, NULL)
  BY DEF Good, But
<1>2. \A u \in Task : u \in AllTask
  BY Kinds
<1>3. PrioOf(k2) = PrioOf(k)
  BY <1>2 DEF PrioOf
<1>4. TickTasks(k2) = TickTasks(k)
  BY DEF TickTasks
<1>5. ReadyPart(k2, NULL)
  BY <1>1 DEF ReadyPart
<1>6. WaitPart(k2, NULL)
  BY <1>1, <1>2, <1>3 DEF WaitPart
<1>7. TickPart(k2, NULL)
  BY <1>1, <1>2, <1>4 DEF TickPart
<1> QED
  BY <1>5, <1>6, <1>7 DEF Good, But

LEMMA AlikeOf ==
    ASSUME NEW k, Good(k), NEW k2, Alike(k, k2)
    PROVE  Good(k2) /\ Onward(k, k2)
<1>1. Good(k2)
  BY GoodSame DEF Alike
<1>2. Onward(k, k2)
  BY DEF Alike, Onward, Softer, Flat
<1> QED
  BY <1>1, <1>2

LEMMA WithMtx ==
    ASSUME NEW k \in KState, NEW f \in [Mutex -> MutexRecord]
    PROVE  LET k2 == [k EXCEPT !.mtx = f]
           IN  k2 \in KState /\ k2.mtx = f /\ k2.tcb = k.tcb /\ Alike(k, k2)
BY DEF KState, Alike

(* A new head of t's list of mutexes. *)
LEMMA WithMutexList ==
    ASSUME NEW k \in KState, NEW t \in Task, NEW m \in Mutex \cup {NULL}
    PROVE  LET k2 == [k EXCEPT !.tcb[t].mutex_list = m]
           IN  /\ k2 \in KState /\ k2.mtx = k.mtx /\ Alike(k, k2)
               /\ k2.tcb[t].mutex_list = m
               /\ \A u \in AllTask \ {t} : k2.tcb[u] = k.tcb[u]
<1> DEFINE r == [k.tcb[t] EXCEPT !.mutex_list = m]
           k2 == [k EXCEPT !.tcb[t].mutex_list = m]
<1>1. k.tcb[t] \in Tcb /\ t \in AllTask
  BY Kinds, Fields
<1>2. /\ r \in Tcb /\ r.state = k.tcb[t].state /\ r.blk_obj = k.tcb[t].blk_obj
      /\ r.blk_state = k.tcb[t].blk_state /\ r.prio = k.tcb[t].prio /\ r.b_prio = k.tcb[t].b_prio
      /\ r.mutex_list = m
  BY <1>1 DEF Tcb
<1>3. k2 = [k EXCEPT !.tcb[t] = r]
  OBVIOUS
<1> HIDE DEF r, k2
<1>4. /\ k2 \in KState
      /\ k2.tcb[t] = r /\ \A u \in AllTask \ {t} : k2.tcb[u] = k.tcb[u]
      /\ k2.ready = k.ready /\ k2.tick = k.tick /\ k2.waitq = k.waitq
      /\ k2.live = k.live /\ k2.mtx = k.mtx /\ k2.count = k.count
  BY <1>1, <1>2, <1>3, WithTcb
<1>5. Alike(k, k2)
  BY <1>2, <1>4 DEF Alike
<1> QED
  BY <1>2, <1>4, <1>5 DEF k2

LEMMA AlikeAlike ==
    ASSUME NEW a, NEW b, NEW c, Alike(a, b), Alike(b, c)
    PROVE  Alike(a, c)
BY DEF Alike

LEMMA MutexFields ==
    ASSUME NEW k \in KState, NEW m \in Mutex
    PROVE  /\ k.mtx[m] \in MutexRecord /\ k.mtx[m].task \in Task \cup {NULL}
           /\ k.mtx[m].next \in Mutex \cup {NULL} /\ k.mtx[m].nested \in 0..MaxNested
<1>1. k.mtx[m] \in MutexRecord
  BY Fields
<1> QED
  BY <1>1 DEF MutexRecord

LEMMA PushMutexOf ==
    ASSUME NEW k, Good(k), NEW t \in Task, NEW m \in Mutex, NEW k2, k2 = PushMutex(k, t, m)
    PROVE  Good(k2) /\ Alike(k, k2)
<1>0. k \in KState
  BY GoodState
<1>1. CASE ~INHERIT
  <2>1. k2 = k
    BY <1>1 DEF PushMutex
  <2> QED
    BY <1>0, <2>1 DEF Alike
<1>2. CASE INHERIT
  <2> DEFINE r == [k.mtx[m] EXCEPT !.next = k.tcb[t].mutex_list]
             f == [k.mtx EXCEPT ![m] = r]
             x == [k EXCEPT !.mtx = f]
  <2>1. k.tcb[t].mutex_list \in Mutex \cup {NULL}
    BY <1>0, Kinds, Fields, TcbFields
  <2>2. r \in MutexRecord
    BY <1>0, <2>1, MutexFields DEF MutexRecord
  <2>3. f \in [Mutex -> MutexRecord]
    BY <1>0, <2>2, Fields
  <2>4. k2 = [x EXCEPT !.tcb[t].mutex_list = m]
    BY <1>2 DEF PushMutex
  <2> HIDE DEF f
  <2>5. x \in KState /\ Alike(k, x)
    BY <1>0, <2>3, WithMtx
  <2> HIDE DEF x
  <2>6. Alike(x, k2)
    BY <2>4, <2>5, WithMutexList
  <2> QED
    BY <2>5, <2>6, AlikeAlike, AlikeOf
<1> QED
  BY <1>1, <1>2

LEMMA UnlinkMutexOf ==
    ASSUME NEW k, Good(k), NEW t \in Task, NEW m \in Mutex, NEW k2, k2 = UnlinkMutex(k, t, m)
    PROVE  Good(k2) /\ Alike(k, k2)
<1>0. k \in KState /\ k.mtx[m].next \in Mutex \cup {NULL}
  BY GoodState, MutexFields
<1>1. CASE k.tcb[t].mutex_list = m
  <2>1. k2 = [k EXCEPT !.tcb[t].mutex_list = k.mtx[m].next]
    BY <1>1 DEF UnlinkMutex
  <2>2. Alike(k, k2)
    BY <1>0, <2>1, WithMutexList
  <2> QED
    BY <2>2, AlikeOf
<1>2. CASE k.tcb[t].mutex_list # m
  <2> DEFINE f == [x \in Mutex |->
              IF x \in Held(k, t) /\ k.mtx[x].next = m
              THEN [k.mtx[x] EXCEPT !.next = k.mtx[m].next] ELSE k.mtx[x]]
  <2>1. ASSUME NEW x \in Mutex PROVE [k.mtx[x] EXCEPT !.next = k.mtx[m].next] \in MutexRecord
    BY <1>0, MutexFields DEF MutexRecord
  <2>2. f \in [Mutex -> MutexRecord]
    BY <1>0, <2>1, MutexFields
  <2>3. k2 = [k EXCEPT !.mtx = f]
    BY <1>2 DEF UnlinkMutex
  <2> HIDE DEF f
  <2>4. Alike(k, k2)
    BY <1>0, <2>2, <2>3, WithMtx
  <2> QED
    BY <2>4, AlikeOf
<1> QED
  BY <1>1, <1>2

-----------------------------------------------------------------------------
(* Following the links of a task's list stays within the mutexes. *)
LEMMA LinksOf ==
    ASSUME NEW k \in KState, NEW t \in Task
    PROVE  LET node == Links(k, t)
           IN  /\ node \in [0..Cardinality(Mutex) -> Mutex \cup {NULL}]
               /\ node[0] = k.tcb[t].mutex_list
               /\ \A i \in 1..Cardinality(Mutex) :
                      node[i] = IF node[i-1] = NULL THEN NULL ELSE k.mtx[node[i-1]].next
<1> DEFINE n == Cardinality(Mutex)
           D == Mutex \cup {NULL}
           F == [x \in D |-> IF x = NULL THEN NULL ELSE k.mtx[x].next]
           h == k.tcb[t].mutex_list
           r == Links(k, t)
<1>1. n \in Nat
  BY RhinoAssumption, FS_CardinalityType
<1>2. h \in D
  BY Kinds, Fields, TcbFields
<1>3. F \in [D -> D]
  BY MutexFields
<1>4. \A x \in D : F[x] = IF x = NULL THEN NULL ELSE k.mtx[x].next
  OBVIOUS
<1>5. r = CHOOSE node : node = [i \in 0..n |-> IF i = 0 THEN h ELSE
                          IF node[i-1] = NULL THEN NULL ELSE k.mtx[node[i-1]].next]
  BY DEF Links
<1> HIDE DEF n, D, F, h, r
<1>6. PICK g \in [0..n -> D] : Loop(g, F, h, n)
  BY <1>1, <1>2, <1>3, LoopExists
<1>7. g = [i \in 0..n |-> IF i = 0 THEN h ELSE
             IF g[i-1] = NULL THEN NULL ELSE k.mtx[g[i-1]].next]
  <2>1. ASSUME NEW i \in 1..n
        PROVE  g[i] = IF g[i-1] = NULL THEN NULL ELSE k.mtx[g[i-1]].next
    <3>1. i - 1 \in 0..n
      BY <1>1
    <3>2. g[i] = F[g[i - 1]]
      BY <1>6 DEF Loop
    <3> QED
      BY <1>4, <1>6, <3>1, <3>2
  <2>2. \A i \in 0..n : i # 0 => i \in 1..n
    OBVIOUS
  <2>3. g[0] = h
    BY <1>6 DEF Loop
  <2> QED
    BY <1>6, <2>1, <2>2, <2>3
<1>8. r = [i \in 0..n |-> IF i = 0 THEN h ELSE
                          IF r[i-1] = NULL THEN NULL ELSE k.mtx[r[i-1]].next]
  BY <1>5, <1>7
<1> DEFINE S == {i \in 0..n : r[i] \in D}
<1>9. 0 \in S
  BY <1>1, <1>2, <1>8
<1>10. ASSUME NEW i \in 1..n, i - 1 \in S PROVE i \in S
  <2>1. i \in 0..n /\ i # 0 /\ r[i-1] \in D
    BY <1>10
  <2>2. r[i] = IF r[i-1] = NULL THEN NULL ELSE k.mtx[r[i-1]].next
    BY <1>8, <2>1
  <2> QED
    BY <2>1, <2>2, MutexFields DEF D
<1> HIDE DEF S
<1>11. \A i \in 0..n : i \in S
  <2>1. \A i \in 1..n : i - 1 \in S => i \in S
    BY <1>10
  <2> QED
    BY <1>1, <1>9, <2>1, UpTo
<1>12. \A i \in 0..n : r[i] \in D
  BY <1>11 DEF S
<1>13. r \in [0..n -> D]
  BY <1>8, <1>12
<1>14. r[0] = h
  BY <1>1, <1>8
<1>15. \A i \in 1..n : r[i] = IF r[i-1] = NULL THEN NULL ELSE k.mtx[r[i-1]].next
  <2> SUFFICES ASSUME NEW i \in 1..n
               PROVE  r[i] = IF r[i-1] = NULL THEN NULL ELSE k.mtx[r[i-1]].next
    OBVIOUS
  <2>1. i \in 0..n /\ i # 0
    OBVIOUS
  <2> QED
    BY <1>8, <2>1
<1> QED
  BY <1>13, <1>14, <1>15 DEF n, D, h, r

LEMMA PrioBounds ==
    ASSUME NEW k, Good(k), NEW t \in Task
    PROVE  /\ MutexPriLook(k, t) \in Prio
           /\ \A p \in Prio : MutexPriLimit(k, t, p) \in Prio
           /\ k.tcb[t].b_prio \in Prio
<1>1. k \in KState /\ Prio \subseteq Nat
  BY GoodState, Kinds
<1>2. k.tcb[t].b_prio \in Prio
  BY <1>1, Kinds, Fields, TcbFields
<1>3. Held(k, t) \subseteq Mutex
  <2>1. Links(k, t) \in [0..Cardinality(Mutex) -> Mutex \cup {NULL}]
    BY <1>1, LinksOf
  <2> QED
    BY <2>1 DEF Held, Range
<1>4. HeadPrios(k, t) \subseteq Prio
  <2> SUFFICES ASSUME NEW m \in Held(k, t), k.waitq[m] # <<>>
               PROVE  k.tcb[Head(k.waitq[m])].prio \in Prio
    BY DEF HeadPrios
  <2>1. m \in Obj
    BY <1>3, Kinds
  <2>2. Head(k.waitq[m]) \in Task
    BY <2>1, FirstWaiter
  <2> QED
    BY <1>1, <2>2, Kinds, Fields, TcbFields
<1>5. \A p \in Prio : Min({p} \cup HeadPrios(k, t)) \in Prio
  <2> SUFFICES ASSUME NEW p \in Prio PROVE Min({p} \cup HeadPrios(k, t)) \in Prio
    OBVIOUS
  <2>1. {p} \cup HeadPrios(k, t) \in SUBSET Nat /\ {p} \cup HeadPrios(k, t) # {}
    BY <1>1, <1>4
  <2>2. Min({p} \cup HeadPrios(k, t)) \in {p} \cup HeadPrios(k, t)
    BY <2>1, LeastOf
  <2> QED
    BY <1>4, <2>2
<1> QED
  BY <1>2, <1>5 DEF MutexPriLook, MutexPriLimit

-----------------------------------------------------------------------------
(* Only priorities have changed, and the places in the lists with them. *)
Reprio(k, k2) ==
    /\ k2.live = k.live /\ k2.count = k.count /\ k2.tick = k.tick /\ k2.mtx = k.mtx
    /\ \A u \in AllTask : k2.tcb[u] = TcbPrio(k.tcb[u], k2.tcb[u].prio)

LEMMA TcbPrioFields ==
    ASSUME NEW r \in Tcb, NEW p
    PROVE  LET r2 == TcbPrio(r, p)
           IN  /\ r2.prio = p /\ r2.state = r.state /\ r2.b_prio = r.b_prio
               /\ r2.blk_state = r.blk_state /\ r2.blk_obj = r.blk_obj
               /\ r2.mutex_list = r.mutex_list /\ r2.suspend = r.suspend
               /\ \A q : TcbPrio(r2, q) = TcbPrio(r, q)
               /\ TcbPrio(r, r.prio) = r
BY DEF Tcb, TcbPrio

LEMMA ReprioSame ==
    ASSUME NEW k \in KState
    PROVE  Reprio(k, k)
<1>1. \A u \in AllTask : k.tcb[u] \in Tcb
  BY Fields
<1> QED
  BY <1>1, TcbPrioFields DEF Reprio

LEMMA ReprioReprio ==
    ASSUME NEW a \in KState, NEW b, NEW c, Reprio(a, b), Reprio(b, c)
    PROVE  Reprio(a, c)
<1>1. \A u \in AllTask : a.tcb[u] \in Tcb
  BY Fields
<1>2. ASSUME NEW u \in AllTask PROVE c.tcb[u] = TcbPrio(a.tcb[u], c.tcb[u].prio)
  <2>1. b.tcb[u] = TcbPrio(a.tcb[u], b.tcb[u].prio) /\ c.tcb[u] = TcbPrio(b.tcb[u], c.tcb[u].prio)
    BY DEF Reprio
  <2>2. TcbPrio(TcbPrio(a.tcb[u], b.tcb[u].prio), c.tcb[u].prio) = TcbPrio(a.tcb[u], c.tcb[u].prio)
    BY <1>1, TcbPrioFields
  <2> QED
    BY <2>1, <2>2
<1> QED
  BY <1>2 DEF Reprio

LEMMA ReprioNear ==
    ASSUME NEW k \in KState, NEW k2, NEW t \in Task, Near(k, k2, t), k2.tick = k.tick,
           NEW p, k2.tcb[t] = TcbPrio(k.tcb[t], p)
    PROVE  Reprio(k, k2)
<1>1. \A u \in AllTask : k.tcb[u] \in Tcb
  BY Fields
<1>2. ASSUME NEW u \in AllTask PROVE k2.tcb[u] = TcbPrio(k.tcb[u], k2.tcb[u].prio)
  <2>1. CASE u = t
    BY <1>1, <2>1, TcbPrioFields
  <2>2. CASE u # t
    <3>1. k2.tcb[u] = k.tcb[u]
      BY <2>2 DEF Near
    <3> QED
      BY <1>1, <3>1, TcbPrioFields
  <2> QED
    BY <2>1, <2>2
<1> QED
  BY <1>2 DEF Near, Reprio

(* t's priority is set, in the list t is on too. *)
PriSet(k, t, p) ==
    IF k.tcb[t].state = "RDY"
    THEN LET k1 == PutPrio(ReadyRm(k, t), t, p)
         IN  IF t = active THEN ReadyAddHead(k1, t) ELSE ReadyAdd(k1, t)
    ELSE IF k.tcb[t].state \in Pending THEN PendListReorder(PutPrio(k, t, p), t)
    ELSE PutPrio(k, t, p)

LEMMA PriSetOf ==
    ASSUME NEW k, Good(k), NEW t \in Task, NEW p \in Prio, NEW k2, k2 = PriSet(k, t, p)
    PROVE  /\ Good(k2) /\ Reprio(k, k2)
           /\ Near(k, k2, t) /\ k2.tcb[t] = TcbPrio(k.tcb[t], p)
<1>1. But(k, t) /\ ReadyAs(k, t) /\ WaitAs(k, t) /\ TickAs(k, t) /\ k.tcb[t] \in Tcb
  BY TakeUp
<1>2. k \in KState
  BY GoodState
<1>3. CASE k.tcb[t].state = "RDY"
  <2> DEFINE x1 == ReadyRm(k, t)
             x2 == PutPrio(x1, t, p)
  <2>1. InReady(k, t) \subseteq {k.tcb[t].prio}
    BY <1>1 DEF ReadyAs
  <2>2. /\ But(x1, t) /\ Near(k, x1, t) /\ x1.tcb = k.tcb
        /\ x1.waitq = k.waitq /\ x1.tick = k.tick /\ InReady(x1, t) = {}
    BY <1>1, <2>1, ReadyRmOf
  <2> HIDE DEF x1
  <2>3. /\ But(x2, t) /\ Near(x1, x2, t) /\ x2.tcb[t] = TcbPrio(x1.tcb[t], p)
        /\ x2.ready = x1.ready /\ x2.waitq = x1.waitq /\ x2.tick = x1.tick
    BY <2>2, SetPrio
  <2> HIDE DEF x2
  <2>4. InReady(x2, t) = {}
    BY <2>2, <2>3 DEF InReady
  <2>5. k2 = ReadyAddHead(x2, t) \/ k2 = ReadyAdd(x2, t)
    BY <1>3 DEF PriSet, x1, x2
  <2>6. /\ But(k2, t) /\ Near(x2, k2, t) /\ k2.tcb = x2.tcb
        /\ k2.waitq = x2.waitq /\ k2.tick = x2.tick /\ InReady(k2, t) = {x2.tcb[t].prio}
    BY <2>3, <2>4, <2>5, ReadyAddOf, ReadyAddHeadOf
  <2>7. k2.tcb[t] = TcbPrio(k.tcb[t], p)
    BY <2>2, <2>3, <2>6
  <2>8. k2.tcb[t].state = "RDY" /\ k2.tcb[t].prio = p /\ x2.tcb[t].prio = p
    BY <1>1, <1>3, <2>6, <2>7, TcbPrioFields
  <2>9. ReadyAs(k2, t)
    BY <2>6, <2>8 DEF ReadyAs
  <2>10. InWait(k2, t) = {}
    BY <1>1, <1>3, <2>2, <2>3, <2>6, States DEF WaitAs, InWait
  <2>11. WaitAs(k2, t)
    BY <2>8, <2>10, States DEF WaitAs
  <2>12. TickAs(k2, t)
    BY <1>1, <1>3, <2>2, <2>3, <2>6, <2>8 DEF TickAs, TickTasks
  <2>13. Good(k2)
    BY <2>6, <2>9, <2>10, <2>11, <2>12, PutDown
  <2>14. Near(k, k2, t) /\ k2.tick = k.tick
    BY <2>2, <2>3, <2>6, NearNear
  <2>15. Reprio(k, k2)
    BY <1>2, <2>7, <2>14, ReprioNear
  <2> QED
    BY <2>7, <2>13, <2>14, <2>15
<1>4. CASE k.tcb[t].state \in Pending
  <2> DEFINE x1 == PutPrio(k, t, p)
             x2 == PendListRm(x1, t)
             o  == k.tcb[t].blk_obj
  <2>1. o \in Obj
    BY <1>1, <1>4, TcbFields
  <2>2. /\ But(x1, t) /\ Near(k, x1, t) /\ x1.tcb[t] = TcbPrio(k.tcb[t], p)
        /\ x1.ready = k.ready /\ x1.waitq = k.waitq /\ x1.tick = k.tick
    BY <1>1, SetPrio
  <2> HIDE DEF x1, o
  <2>3. x1.tcb[t].blk_obj = o /\ x1.tcb[t].state = k.tcb[t].state /\ x1.tcb[t].prio = p
    BY <1>1, <2>2, TcbPrioFields DEF o
  <2>4. InWait(x1, t) = {o}
    BY <1>1, <1>4, <2>2 DEF WaitAs, InWait, o
  <2>5. /\ But(x2, t) /\ Near(x1, x2, t) /\ x2.tcb = x1.tcb
        /\ x2.ready = x1.ready /\ x2.tick = x1.tick /\ InWait(x2, t) = {}
    BY <2>1, <2>2, <2>3, <2>4, PendListRmOf
  <2>6. k2 = PendListAdd(x2, o, t)
    BY <1>4, <2>3, States DEF PriSet, PendListReorder, x1, x2
  <2> HIDE DEF x2
  <2>7. /\ But(k2, t) /\ Near(x2, k2, t) /\ k2.tcb = x2.tcb
        /\ k2.ready = x2.ready /\ k2.tick = x2.tick /\ InWait(k2, t) = {o}
        /\ Ordered(k2.waitq[o], PrioOf(k2))
    BY <2>1, <2>5, <2>6, PendListAddOf
  <2>8. k2.tcb[t] = TcbPrio(k.tcb[t], p)
    BY <2>2, <2>5, <2>7
  <2>9. k2.tcb[t].state = k.tcb[t].state /\ k2.tcb[t].blk_obj = o
    BY <2>3, <2>5, <2>7
  <2>10. InReady(k2, t) = {}
    BY <1>1, <1>4, <2>2, <2>5, <2>7, States DEF ReadyAs, InReady
  <2>11. ReadyAs(k2, t)
    BY <1>4, <2>9, <2>10, States DEF ReadyAs
  <2>12. WaitAs(k2, t)
    BY <1>4, <2>7, <2>9 DEF WaitAs
  <2>13. TickAs(k2, t)
    BY <1>1, <2>2, <2>5, <2>7, <2>9 DEF TickAs, TickTasks
  <2>14. Good(k2)
    BY <2>7, <2>11, <2>12, <2>13, PutDown
  <2>15. Near(k, k2, t) /\ k2.tick = k.tick
    BY <2>2, <2>5, <2>7, NearNear
  <2>16. Reprio(k, k2)
    BY <1>2, <2>8, <2>15, ReprioNear
  <2> QED
    BY <2>8, <2>14, <2>15, <2>16
<1>5. CASE k.tcb[t].state # "RDY" /\ k.tcb[t].state \notin Pending
  <2>1. k2 = PutPrio(k, t, p)
    BY <1>5 DEF PriSet
  <2>2. /\ But(k2, t) /\ Near(k, k2, t) /\ k2.tcb[t] = TcbPrio(k.tcb[t], p)
        /\ k2.ready = k.ready /\ k2.waitq = k.waitq /\ k2.tick = k.tick
    BY <1>1, <2>1, SetPrio
  <2>3. k2.tcb[t].state = k.tcb[t].state
    BY <1>1, <2>2, TcbPrioFields
  <2>4. InReady(k2, t) = {} /\ InWait(k2, t) = {}
    BY <1>1, <1>5, <2>2 DEF ReadyAs, WaitAs, InReady, InWait
  <2>5. ReadyAs(k2, t) /\ WaitAs(k2, t)
    BY <1>5, <2>3, <2>4 DEF ReadyAs, WaitAs
  <2>6. TickAs(k2, t)
    BY <1>1, <2>2, <2>3 DEF TickAs, TickTasks
  <2>7. Good(k2)
    BY <2>2, <2>4, <2>5, <2>6, PutDown
  <2>8. Reprio(k, k2)
    BY <1>2, <2>2, ReprioNear
  <2> QED
    BY <2>2, <2>7, <2>8
<1> QED
  BY <1>3, <1>4, <1>5

-----------------------------------------------------------------------------
(* The loop of task_pri_change. *)

(* A mutex without an owner ends the loop; what the code read at the null  *)
(* pointer is kept as some value.                                          *)
Looks == {MutexPriLook(k, NULL) : k \in KState}

PriLoop ==
    {s \in [k : KState, task : Task \cup {NULL}, pri : Prio \cup Looks] :
        Good(s.k) /\ (s.task # NULL => s.pri \in Prio)}

LEMMA PriLoopIs ==
    ASSUME NEW k, NEW t, NEW p
    PROVE  LET s == [k |-> k, task |-> t, pri |-> p]
           IN  /\ s.k = k /\ s.task = t /\ s.pri = p
               /\ Good(k) /\ t \in Task /\ p \in Prio => s \in PriLoop
               /\ Good(k) /\ t = NULL /\ p \in Prio \cup Looks => s \in PriLoop
BY GoodState, Kinds DEF PriLoop

LEMMA NextInChainOf ==
    ASSUME NEW k, Good(k), NEW o \in Mutex, NEW p \in Prio, NEW q,
           NEW s, s = NextInChain(k, o, p, q)
    PROVE  s \in PriLoop /\ s.k = k
<1> DEFINE owner == k.mtx[o].task
           look  == MutexPriLook(k, owner)
<1>1. k \in KState /\ owner \in Task \cup {NULL}
  BY GoodState, MutexFields
<1>2. \/ s = [k |-> k, task |-> owner, pri |-> p]
      \/ s = [k |-> k, task |-> owner, pri |-> look]
      \/ s = [k |-> k, task |-> NULL, pri |-> p]
  BY DEF NextInChain
<1>3. owner \in Task => look \in Prio
  BY PrioBounds
<1>4. owner = NULL => look \in Looks
  BY <1>1 DEF Looks
<1> HIDE DEF owner, look
<1> QED
  BY <1>1, <1>2, <1>3, <1>4, PriLoopIs

LEMMA ErrorOf ==
    ASSUME NEW k, Good(k), NEW e \in KernelError, NEW k2, k2 = [k EXCEPT !.kerr = e]
    PROVE  Good(k2) /\ Alike(k, k2) /\ k2.mtx = k.mtx /\ k2.tcb = k.tcb
<1>1. k \in KState
  BY GoodState
<1>2. k2 \in KState /\ Alike(k, k2) /\ k2.mtx = k.mtx /\ k2.tcb = k.tcb
  BY <1>1 DEF KState, Alike
<1> QED
  BY <1>2, AlikeOf

LEMMA ReprioError ==
    ASSUME NEW k, Good(k), NEW e \in KernelError, NEW k2, k2 = [k EXCEPT !.kerr = e]
    PROVE  Good(k2) /\ Reprio(k, k2)
<1>1. Good(k2) /\ Alike(k, k2) /\ k2.mtx = k.mtx /\ k2.tcb = k.tcb
  BY ErrorOf
<1>2. Reprio(k, k)
  BY GoodState, ReprioSame
<1> QED
  BY <1>1, <1>2 DEF Reprio, Alike

LEMMA PriStepOf ==
    ASSUME NEW s \in PriLoop, NEW s2, s2 = PriStep(s)
    PROVE  s2 \in PriLoop /\ Reprio(s.k, s2.k)
<1> DEFINE k == s.k
           t == s.task
           p == s.pri
           state == k.tcb[t].state
<1>1. /\ Good(k) /\ t \in Task \cup {NULL} /\ (t # NULL => p \in Prio)
      /\ p \in Prio \cup Looks /\ s = [k |-> k, task |-> t, pri |-> p]
  BY DEF PriLoop
<1>2. k \in KState /\ Reprio(k, k)
  BY <1>1, GoodState, ReprioSame
<1>3. CASE t = NULL
  <2>1. s2 = s
    BY <1>3 DEF PriStep
  <2> QED
    BY <1>2, <2>1
<1>4. CASE t # NULL
  <2>1. t \in Task /\ p \in Prio
    BY <1>1, <1>4
  <2>2. k.tcb[t] \in Tcb /\ k.tcb[t].state \in TaskState
    BY <1>2, <2>1, Kinds, Fields, TcbFields
  <2>3. CASE k.tcb[t].prio = p
    <3>1. s2 = [k |-> k, task |-> NULL, pri |-> p]
      BY <1>1, <1>4, <2>3 DEF PriStep
    <3> HIDE DEF k, t, p
    <3>2. s2 \in PriLoop /\ s2.k = k
      BY <1>1, <3>1, PriLoopIs
    <3> QED
      BY <1>2, <3>2 DEF k
  <2>4. CASE k.tcb[t].prio # p
    <3> DEFINE x == PriSet(k, t, p)
    <3>1. Good(x) /\ Reprio(k, x)
      BY <1>1, <2>1, PriSetOf
    <3>2. CASE state = "RDY"
      <4>1. s2 = [k |-> x, task |-> NULL, pri |-> p]
        BY <1>1, <1>4, <2>4, <3>2, States DEF PriStep, PriSet, PutPrio
      <4> HIDE DEF k, t, p, x
      <4>2. s2 \in PriLoop /\ s2.k = x
        BY <1>1, <3>1, <4>1, PriLoopIs
      <4> QED
        BY <3>1, <4>2 DEF k
    <3>3. CASE state \in Sleeping \cup {"SUSPENDED"}
      <4>1. s2 = [k |-> x, task |-> NULL, pri |-> p]
        BY <1>1, <1>4, <2>4, <3>3, States DEF PriStep, PriSet, PutPrio
      <4> HIDE DEF k, t, p, x
      <4>2. s2 \in PriLoop /\ s2.k = x
        BY <1>1, <3>1, <4>1, PriLoopIs
      <4> QED
        BY <3>1, <4>2 DEF k
    <3>4. CASE state \in Pending
      <4> DEFINE o == k.tcb[t].blk_obj
      <4>1. s2 = IF o \in Mutex \cap k.live THEN NextInChain(x, o, p, k.tcb[t].prio)
                 ELSE [k |-> x, task |-> NULL, pri |-> p]
        <5>1. state # "RDY" /\ state \notin Sleeping \cup {"SUSPENDED"}
          BY <3>4, States
        <5>2. x = PendListReorder([k EXCEPT !.tcb[t].prio = p], t)
          BY <3>4, <5>1 DEF PriSet, PutPrio
        <5> HIDE DEF x
        <5>3. s2 = LET z == PendListReorder([k EXCEPT !.tcb[t].prio = p], t)
                   IN  IF o \in Mutex \cap k.live THEN NextInChain(z, o, p, k.tcb[t].prio)
                       ELSE [[s EXCEPT !.task = NULL] EXCEPT !.k = z]
          BY <1>4, <2>4, <3>4, <5>1 DEF PriStep
        <5> QED
          BY <1>1, <5>2, <5>3
      <4> HIDE DEF k, t, p, x, o
      <4>2. s2 \in PriLoop /\ s2.k = x
        <5>1. CASE o \in Mutex \cap k.live
          BY <2>1, <3>1, <4>1, <5>1, NextInChainOf
        <5>2. CASE o \notin Mutex \cap k.live
          BY <1>1, <3>1, <4>1, <5>2, PriLoopIs
        <5> QED
          BY <5>1, <5>2
      <4> QED
        BY <3>1, <4>2 DEF k
    <3>5. CASE state = "DELETED"
      <4> DEFINE y == [k EXCEPT !.kerr = "INV_TASK_STATE"]
      <4>1. s2 = [k |-> y, task |-> NULL, pri |-> p]
        BY <1>1, <1>4, <2>4, <3>5, States DEF PriStep
      <4>2. Good(y) /\ Reprio(k, y)
        BY <1>1, ReprioError DEF KernelError
      <4> HIDE DEF k, t, p, y
      <4>3. s2 \in PriLoop /\ s2.k = y
        BY <1>1, <4>1, <4>2, PriLoopIs
      <4> QED
        BY <4>2, <4>3 DEF k
    <3> QED
      BY <2>2, <3>2, <3>3, <3>4, <3>5, States
  <2> QED
    BY <2>3, <2>4
<1> QED
  BY <1>3, <1>4

LEMMA PriRoundsOf ==
    ASSUME NEW k, Good(k), NEW t \in Task \cup {NULL}, NEW p \in Prio \cup Looks,
           t # NULL => p \in Prio
    PROVE  LET r == PriRounds(k, t, p)
           IN  /\ PriFuel \in Nat
               /\ r[0] = [k |-> k, task |-> t, pri |-> p] /\ r[0] \in PriLoop
               /\ \A i \in 1..PriFuel : r[i] = PriStep(r[i-1])
<1> DEFINE n == PriFuel
           x == [k |-> k, task |-> t, pri |-> p]
           F == [s \in PriLoop |-> PriStep(s)]
           r == PriRounds(k, t, p)
<1>1. n \in Nat
  <2>1. Cardinality(Task) \in Nat /\ IdlePri \in Nat
    BY RhinoAssumption, FS_CardinalityType
  <2> QED
    BY <2>1 DEF PriFuel
<1>2. x \in PriLoop /\ x.k = k
  BY PriLoopIs
<1>3. F \in [PriLoop -> PriLoop] /\ \A s \in PriLoop : F[s] = PriStep(s)
  BY PriStepOf
<1>4. r = CHOOSE round : round = [i \in 0..n |-> IF i = 0 THEN x ELSE PriStep(round[i-1])]
  BY DEF PriRounds
<1> HIDE DEF n, x, F, r
<1>6. PICK g \in [0..n -> PriLoop] : Loop(g, F, x, n)
  BY <1>1, <1>2, <1>3, LoopExists
<1>7. g = [i \in 0..n |-> IF i = 0 THEN x ELSE PriStep(g[i-1])]
  <2>1. ASSUME NEW i \in 1..n PROVE g[i] = PriStep(g[i-1])
    <3>1. i - 1 \in 0..n
      BY <1>1
    <3>2. g[i] = F[g[i - 1]]
      BY <1>6 DEF Loop
    <3> QED
      BY <1>3, <1>6, <3>1, <3>2
  <2>2. \A i \in 0..n : i # 0 => i \in 1..n
    OBVIOUS
  <2>3. g[0] = x
    BY <1>6 DEF Loop
  <2> QED
    BY <1>6, <2>1, <2>2, <2>3
<1>8. r = [i \in 0..n |-> IF i = 0 THEN x ELSE PriStep(r[i-1])]
  BY <1>4, <1>7
<1>9. 0 \in 0..n /\ \A i \in 1..n : i \in 0..n /\ i # 0
  BY <1>1
<1>10. r[0] = x /\ \A i \in 1..n : r[i] = PriStep(r[i-1])
  BY <1>8, <1>9
<1> QED
  BY <1>1, <1>2, <1>10 DEF n, x, r

LEMMA TaskPriChangeOf ==
    ASSUME NEW k, Good(k), NEW t \in Task \cup {NULL}, NEW p \in Prio \cup Looks,
           t # NULL => p \in Prio, NEW k2, k2 = TaskPriChange(k, t, p)
    PROVE  Good(k2) /\ Reprio(k, k2)
<1> DEFINE n == PriFuel
           x == [k |-> k, task |-> t, pri |-> p]
           r == PriRounds(k, t, p)
<1>1. n \in Nat /\ r[0] = x /\ \A i \in 1..n : r[i] = PriStep(r[i-1])
  BY PriRoundsOf
<1>2. x \in PriLoop /\ x.k = k
  BY PriLoopIs
<1>5. k2 = IF r[n].task = NULL THEN r[n].k ELSE [r[n].k EXCEPT !.kerr = "ENDLESS"]
  BY DEF TaskPriChange
<1> HIDE DEF n, x, r
<1> DEFINE S == {i \in 0..n : r[i] \in PriLoop /\ Reprio(k, r[i].k)}
<1>9. 0 \in S
  <2>1. r[0] = x /\ 0 \in 0..n
    BY <1>1
  <2>2. Reprio(k, k)
    BY GoodState, ReprioSame
  <2> QED
    BY <1>2, <2>1, <2>2
<1>10. ASSUME NEW i \in 1..n, i - 1 \in S PROVE i \in S
  <2>1. i \in 0..n /\ i # 0 /\ r[i-1] \in PriLoop /\ Reprio(k, r[i-1].k)
    BY <1>10
  <2>2. r[i] = PriStep(r[i-1])
    BY <1>1
  <2>3. r[i] \in PriLoop /\ Reprio(r[i-1].k, r[i].k)
    BY <2>1, <2>2, PriStepOf
  <2>4. Reprio(k, r[i].k)
    BY <2>1, <2>3, ReprioReprio, GoodState
  <2> QED
    BY <2>1, <2>3, <2>4
<1> HIDE DEF S
<1>11. n \in S
  <2>1. \A i \in 1..n : i - 1 \in S => i \in S
    BY <1>10
  <2>2. n \in 0..n
    BY <1>1
  <2> QED
    BY <1>1, <1>9, <2>1, <2>2, UpTo
<1>12. Good(r[n].k) /\ Reprio(k, r[n].k)
  BY <1>11 DEF S, PriLoop
<1>13. CASE r[n].task = NULL
  BY <1>5, <1>12, <1>13
<1>14. CASE r[n].task # NULL
  <2> DEFINE y == r[n].k
  <2>1. k2 = [y EXCEPT !.kerr = "ENDLESS"] /\ Good(y) /\ Reprio(k, y)
    BY <1>5, <1>12, <1>14
  <2> HIDE DEF y
  <2>2. Good(k2) /\ Reprio(y, k2)
    BY <2>1, ReprioError DEF KernelError
  <2> QED
    BY <2>1, <2>2, ReprioReprio, GoodState
<1> QED
  BY <1>13, <1>14

LEMMA ReprioOnward ==
    ASSUME NEW k \in KState, NEW k2, Reprio(k, k2), INHERIT \/ ~Flat(k)
    PROVE  Onward(k, k2)
<1>1. \A u \in AllTask : k.tcb[u] \in Tcb
  BY Fields
<1>2. ASSUME NEW u \in AllTask PROVE Softer(k.tcb[u], k2.tcb[u])
  <2>1. k2.tcb[u] = TcbPrio(k.tcb[u], k2.tcb[u].prio)
    BY DEF Reprio
  <2>2. /\ k2.tcb[u].state = k.tcb[u].state /\ k2.tcb[u].blk_state = k.tcb[u].blk_state
        /\ k2.tcb[u].blk_obj = k.tcb[u].blk_obj
    BY <1>1, <2>1, TcbPrioFields
  <2> QED
    BY <2>2 DEF Softer
<1> QED
  BY <1>2 DEF Reprio, Onward

LEMMA ReprioTied ==
    ASSUME NEW k \in KState, NEW k2, Reprio(k, k2)
    PROVE  Tied(k, k2, NULL)
<1>1. \A u \in AllTask : k.tcb[u] \in Tcb
  BY Fields
<1>2. ASSUME NEW u \in AllTask
      PROVE  Softer(k.tcb[u], k2.tcb[u]) /\ SameClaims(k.tcb[u], k2.tcb[u])
  <2>1. k2.tcb[u] = TcbPrio(k.tcb[u], k2.tcb[u].prio)
    BY DEF Reprio
  <2>2. /\ k2.tcb[u].state = k.tcb[u].state /\ k2.tcb[u].blk_state = k.tcb[u].blk_state
        /\ k2.tcb[u].blk_obj = k.tcb[u].blk_obj /\ k2.tcb[u].mutex_list = k.tcb[u].mutex_list
    BY <1>1, <2>1, TcbPrioFields
  <2> QED
    BY <2>2, States DEF Softer, SameClaims
<1> QED
  BY <1>2 DEF Reprio, Tied

(* Nobody starts or ends waiting. *)
Placed(k, k2) ==
    \A u \in AllTask : k2.tcb[u].state = k.tcb[u].state /\ k2.tcb[u].blk_obj = k.tcb[u].blk_obj

LEMMA ReprioPlaced ==
    ASSUME NEW k \in KState, NEW k2, Reprio(k, k2)
    PROVE  Placed(k, k2)
<1> SUFFICES ASSUME NEW u \in AllTask
             PROVE  /\ k2.tcb[u].state = k.tcb[u].state
                    /\ k2.tcb[u].blk_obj = k.tcb[u].blk_obj
  BY DEF Placed
<1>1. k.tcb[u] \in Tcb /\ k2.tcb[u] = TcbPrio(k.tcb[u], k2.tcb[u].prio)
  BY Fields DEF Reprio
<1> QED
  BY <1>1, TcbPrioFields

LEMMA PlacedWaits ==
    ASSUME NEW k, Good(k), NEW k2, Good(k2), Placed(k, k2), NEW o \in Obj, k.waitq[o] # <<>>
    PROVE  k2.waitq[o] # <<>>
<1> DEFINE t == Head(k.waitq[o])
<1>1. /\ t \in Task /\ k.tcb[t].state \in Pending /\ k.tcb[t].blk_obj = o
  BY FirstWaiter
<1> HIDE DEF t
<1>2. k2.tcb[t].state \in Pending /\ k2.tcb[t].blk_obj = o
  BY <1>1, Kinds DEF Placed
<1>3. WaitPart(k2, NULL)
  BY DEF Good, But
<1>4. t \in Range(k2.waitq[o])
  BY <1>1, <1>2, <1>3, Kinds DEF WaitPart
<1> QED
  BY <1>4 DEF Range

(* Owner t gives up m; without inheritance there may be nothing to do. *)
Given(k, t, m) == IF INHERIT /\ m # NULL /\ m \in Held(k, t) THEN UnlinkMutex(k, t, m) ELSE k

LEMMA MutexReleaseOf ==
    ASSUME NEW k, Good(k), NEW t \in Task \cup {NULL}, NEW m \in Mutex \cup {NULL},
           t = NULL => INHERIT /\ m = NULL, NEW k2, k2 = MutexRelease(k, t, m)
    PROVE  /\ Good(k2) /\ Onward(k, k2) /\ k2.tick = k.tick
           /\ Placed(k, k2) /\ (~INHERIT /\ Flat(k) => k2 = k)
           /\ Tied(Given(k, t, m), k2, NULL)
<1> DEFINE k1 == IF INHERIT /\ m # NULL /\ m \in Held(k, t)
                 THEN UnlinkMutex(k, t, m) ELSE k
           p == MutexPriLook(k1, t)
<1>1. /\ Good(k1) /\ Onward(k, k1) /\ k1.tick = k.tick
      /\ Placed(k, k1) /\ (~INHERIT => k1 = k)
  <2>1. CASE INHERIT /\ m # NULL /\ m \in Held(k, t)
    <3>1. t \in Task /\ m \in Mutex /\ k1 = UnlinkMutex(k, t, m)
      BY <2>1
    <3> HIDE DEF k1
    <3>2. Good(k1) /\ Alike(k, k1)
      BY <3>1, UnlinkMutexOf
    <3>3. k1.tick = k.tick /\ Placed(k, k1)
      BY <3>2 DEF Alike, Placed
    <3> QED
      BY <2>1, <3>2, <3>3, AlikeOf
  <2>2. CASE ~(INHERIT /\ m # NULL /\ m \in Held(k, t))
    <3>1. k1 = k
      BY <2>2
    <3> QED
      BY <3>1, OnwardSame DEF Placed
  <2> QED
    BY <2>1, <2>2
<1>2. k2 = IF p # k1.tcb[t].prio THEN TaskPriChange(k1, t, p) ELSE k1
  BY DEF MutexRelease
<1>8. Given(k, t, m) = k1
  BY DEF Given
<1> HIDE DEF k1
<1>3. k1 \in KState
  BY <1>1, GoodState
<1>4. /\ p \in Prio \cup Looks /\ (t # NULL => p \in Prio)
  <2>1. CASE t = NULL
    BY <1>3, <2>1 DEF Looks
  <2>2. CASE t # NULL
    BY <1>1, <2>2, PrioBounds
  <2> QED
    BY <2>1, <2>2
<1>5. ~INHERIT /\ Flat(k1) => p = k1.tcb[t].prio
  BY Kinds DEF MutexPriLook, Flat
<1> HIDE DEF p
<1>6. CASE p = k1.tcb[t].prio
  <2>1. Tied(k1, k2, NULL)
    BY <1>2, <1>6, TiedSame
  <2> QED
    BY <1>1, <1>2, <1>6, <1>8, <2>1, OnwardSame
<1>7. CASE p # k1.tcb[t].prio
  <2>1. Good(k2) /\ Reprio(k1, k2)
    BY <1>1, <1>2, <1>4, <1>7, TaskPriChangeOf
  <2>2. Onward(k1, k2)
    BY <1>3, <1>5, <1>7, <2>1, ReprioOnward
  <2>3. k2.tick = k1.tick
    BY <2>1 DEF Reprio
  <2>4. Placed(k, k2)
    BY <1>1, <1>3, <2>1, ReprioPlaced DEF Placed
  <2>5. ~(~INHERIT /\ Flat(k))
    BY <1>1, <1>5, <1>7
  <2>6. Tied(k1, k2, NULL)
    BY <1>3, <2>1, ReprioTied
  <2> QED
    BY <1>1, <1>8, <2>1, <2>2, <2>3, <2>4, <2>5, <2>6, OnwardOnward
<1> QED
  BY <1>6, <1>7

LEMMA MutexTaskPriResetOf ==
    ASSUME NEW k, Good(k), NEW t \in Task, NEW k2, k2 = MutexTaskPriReset(k, t)
    PROVE  Good(k2) /\ Onward(k, k2) /\ k2.tick = k.tick /\ Tied(k, k2, NULL)
<1> DEFINE o == k.tcb[t].blk_obj
           owner == k.mtx[o].task
<1>1. CASE INHERIT /\ o \in Mutex \cap k.live /\ k.tcb[owner].prio = k.tcb[t].prio
  <2>1. k2 = MutexRelease(k, owner, NULL)
    BY <1>1 DEF MutexTaskPriReset
  <2>2. owner \in Task \cup {NULL}
    BY <1>1, GoodState, MutexFields
  <2> HIDE DEF owner
  <2>3. Given(k, owner, NULL) = k
    BY DEF Given
  <2> QED
    BY <1>1, <2>1, <2>2, <2>3, MutexReleaseOf
<1>2. CASE ~(INHERIT /\ o \in Mutex \cap k.live /\ k.tcb[owner].prio = k.tcb[t].prio)
  <2>1. k2 = k
    BY <1>2 DEF MutexTaskPriReset
  <2> QED
    BY <2>1, OnwardSame, TiedSame
<1> QED
  BY <1>1, <1>2

(* The owner of m changes. *)
LEMMA WithOwner ==
    ASSUME NEW k, Good(k), NEW m \in Mutex, NEW u \in Task \cup {NULL},
           NEW k2, k2 = [k EXCEPT !.mtx[m].task = u]
    PROVE  Good(k2) /\ Alike(k, k2)
<1> DEFINE f == [k.mtx EXCEPT ![m].task = u]
<1>1. k \in KState /\ k.mtx \in [Mutex -> MutexRecord]
  BY GoodState, Fields
<1>2. [k.mtx[m] EXCEPT !.task = u] \in MutexRecord
  BY <1>1, MutexFields DEF MutexRecord
<1>3. f \in [Mutex -> MutexRecord]
  BY <1>1, <1>2
<1>4. k2 = [k EXCEPT !.mtx = f]
  OBVIOUS
<1> HIDE DEF f
<1>5. Alike(k, k2)
  BY <1>1, <1>3, <1>4, WithMtx
<1> QED
  BY <1>5, AlikeOf

LEMMA WithNested ==
    ASSUME NEW k, Good(k), NEW m \in Mutex, NEW n \in 0..MaxNested,
           NEW k2, k2 = [k EXCEPT !.mtx[m].nested = n]
    PROVE  Good(k2) /\ Alike(k, k2)
<1> DEFINE f == [k.mtx EXCEPT ![m].nested = n]
<1>1. k \in KState /\ k.mtx \in [Mutex -> MutexRecord]
  BY GoodState, Fields
<1>2. [k.mtx[m] EXCEPT !.nested = n] \in MutexRecord
  BY <1>1, MutexFields DEF MutexRecord
<1>3. f \in [Mutex -> MutexRecord]
  BY <1>1, <1>2
<1>4. k2 = [k EXCEPT !.mtx = f]
  OBVIOUS
<1> HIDE DEF f
<1>5. Alike(k, k2)
  BY <1>1, <1>3, <1>4, WithMtx
<1> QED
  BY <1>5, AlikeOf

LEMMA WakeupOf ==
    ASSUME NEW k, Good(k), NEW o \in Obj, k.waitq[o] # <<>>,
           NEW k2, k2 = PendTaskWakeup(k, Head(k.waitq[o]))
    PROVE  Good(k2) /\ Onward(k, k2) /\ Head(k.waitq[o]) \in Task
<1> DEFINE t == Head(k.waitq[o])
<1>1. "FINISH" \in BlkState \ {"STALE"}
  BY DEF BlkState
<1>2. t \in Task /\ k.tcb[t].state \in Pending
  BY FirstWaiter
<1>3. k2 = WakeAs(k, t, "FINISH")
  BY DEF PendTaskWakeup, WakeAs, PutBlkObj
<1> HIDE DEF t
<1>4. Good(k2) /\ Onward(k, k2)
  BY <1>1, <1>2, <1>3, WakeAsOf
<1> QED
  BY <1>2, <1>4 DEF t

LEMMA HandOverOf ==
    ASSUME NEW k, Good(k), NEW m \in Mutex, k.waitq[m] # <<>>, NEW k2, k2 = HandOver(k, m)
    PROVE  Good(k2) /\ Onward(k, k2)
<1> DEFINE t == Head(k.waitq[m])
           x1 == PendTaskWakeup(k, t)
           x2 == [x1 EXCEPT !.mtx[m].task = t]
<1>1. Good(x1) /\ Onward(k, x1) /\ t \in Task
  BY WakeupOf, Kinds
<1>2. k2 = PushMutex(x2, t, m)
  BY DEF HandOver
<1> HIDE DEF t, x1
<1>3. Good(x2) /\ Alike(x1, x2)
  BY <1>1, WithOwner
<1> HIDE DEF x2
<1>4. Good(k2) /\ Alike(x2, k2)
  BY <1>1, <1>2, <1>3, PushMutexOf
<1>5. Onward(x1, x2) /\ Onward(x2, k2)
  BY <1>1, <1>3, <1>4, AlikeOf
<1>6. Onward(k, k2)
  BY <1>1, <1>5, OnwardOnward
<1> QED
  BY <1>4, <1>6

-----------------------------------------------------------------------------
(* task_mutex_free: the mutexes of a task are handed over one by one. *)
LEMMA FreeOneOf ==
    ASSUME NEW k, Good(k), NEW m \in Mutex, NEW k2, k2 = FreeOne(k, m)
    PROVE  Good(k2) /\ Onward(k, k2)
<1>1. CASE k.waitq[m] # <<>>
  <2>1. k2 = HandOver(k, m)
    BY <1>1 DEF FreeOne
  <2> QED
    BY <1>1, <2>1, HandOverOf
<1>2. CASE k.waitq[m] = <<>>
  <2>1. k2 = [k EXCEPT !.mtx[m].task = NULL]
    BY <1>2 DEF FreeOne
  <2>2. Good(k2) /\ Alike(k, k2)
    BY <2>1, WithOwner
  <2> QED
    BY <2>2, AlikeOf
<1> QED
  BY <1>1, <1>2

FreeLoop == {s \in [k : KState, mutex : Mutex \cup {NULL}] : Good(s.k)}

LEMMA FreeStepOf ==
    ASSUME NEW s \in FreeLoop, NEW s2, s2 = FreeStep(s)
    PROVE  s2 \in FreeLoop /\ Onward(s.k, s2.k)
<1>1. s.k \in KState /\ Good(s.k) /\ s.mutex \in Mutex \cup {NULL}
  BY DEF FreeLoop
<1>2. CASE s.mutex = NULL
  <2>1. s2 = s
    BY <1>2 DEF FreeStep
  <2> QED
    BY <2>1, OnwardSame
<1>3. CASE s.mutex # NULL
  <2> DEFINE x == FreeOne(s.k, s.mutex)
             m == s.k.mtx[s.mutex].next
  <2>1. s2 = [k |-> x, mutex |-> m]
    BY <1>3 DEF FreeStep
  <2>2. Good(x) /\ Onward(s.k, x)
    BY <1>1, <1>3, FreeOneOf
  <2>3. m \in Mutex \cup {NULL}
    BY <1>1, <1>3, MutexFields
  <2> HIDE DEF x, m
  <2>4. x \in KState
    BY <2>2, GoodState
  <2> QED
    BY <2>1, <2>2, <2>3, <2>4 DEF FreeLoop
<1> QED
  BY <1>2, <1>3

LEMMA FreeRoundsOf ==
    ASSUME NEW k, Good(k), NEW t \in Task
    PROVE  LET r == FreeRounds(k, t)
           IN  /\ r[0] = [k |-> k, mutex |-> k.tcb[t].mutex_list] /\ r[0] \in FreeLoop
               /\ \A i \in 1..Cardinality(Mutex) : r[i] = FreeStep(r[i-1])
<1> DEFINE n == Cardinality(Mutex)
           x == [k |-> k, mutex |-> k.tcb[t].mutex_list]
           F == [s \in FreeLoop |-> FreeStep(s)]
           r == FreeRounds(k, t)
<1>1. n \in Nat
  BY RhinoAssumption, FS_CardinalityType
<1>2. x \in FreeLoop /\ x.k = k
  <2>1. k \in KState
    BY GoodState
  <2>2. k.tcb[t].mutex_list \in Mutex \cup {NULL}
    BY <2>1, Kinds, Fields, TcbFields
  <2> QED
    BY <2>1, <2>2 DEF FreeLoop
<1>3. F \in [FreeLoop -> FreeLoop] /\ \A s \in FreeLoop : F[s] = FreeStep(s)
  BY FreeStepOf
<1>4. r = CHOOSE round : round = [i \in 0..n |-> IF i = 0 THEN x ELSE FreeStep(round[i-1])]
  BY DEF FreeRounds
<1> HIDE DEF n, x, F, r
<1>5. PICK g \in [0..n -> FreeLoop] : Loop(g, F, x, n)
  BY <1>1, <1>2, <1>3, LoopExists
<1>6. g = [i \in 0..n |-> IF i = 0 THEN x ELSE FreeStep(g[i-1])]
  <2>1. ASSUME NEW i \in 1..n PROVE g[i] = FreeStep(g[i-1])
    <3>1. i - 1 \in 0..n
      BY <1>1
    <3>2. g[i] = F[g[i - 1]]
      BY <1>5 DEF Loop
    <3> QED
      BY <1>3, <1>5, <3>1, <3>2
  <2>2. \A i \in 0..n : i # 0 => i \in 1..n
    OBVIOUS
  <2>3. g[0] = x
    BY <1>5 DEF Loop
  <2> QED
    BY <1>5, <2>1, <2>2, <2>3
<1>7. r = [i \in 0..n |-> IF i = 0 THEN x ELSE FreeStep(r[i-1])]
  BY <1>4, <1>6
<1>8. r[0] = x /\ \A i \in 1..n : r[i] = FreeStep(r[i-1])
  <2>1. 0 \in 0..n /\ \A i \in 1..n : i \in 0..n /\ i # 0
    BY <1>1
  <2> QED
    BY <1>7, <2>1
<1> QED
  BY <1>2, <1>8 DEF r, x, n

LEMMA TaskMutexFreeOf ==
    ASSUME NEW k, Good(k), NEW t \in Task, NEW k2, k2 = TaskMutexFree(k, t)
    PROVE  Good(k2) /\ Onward(k, k2)
<1> DEFINE n == Cardinality(Mutex)
           r == FreeRounds(k, t)
<1>1. n \in Nat
  BY RhinoAssumption, FS_CardinalityType
<1>2. /\ r[0].k = k /\ r[0] \in FreeLoop
      /\ \A i \in 1..n : r[i] = FreeStep(r[i-1])
  <2>1. /\ r[0] = [k |-> k, mutex |-> k.tcb[t].mutex_list] /\ r[0] \in FreeLoop
        /\ \A i \in 1..n : r[i] = FreeStep(r[i-1])
    BY FreeRoundsOf
  <2> HIDE DEF r
  <2> QED
    BY <2>1
<1>3. k2 = r[n].k
  BY DEF TaskMutexFree
<1> HIDE DEF n, r
<1> DEFINE S == {i \in 0..n : r[i] \in FreeLoop /\ Onward(k, r[i].k)}
<1>4. 0 \in S
  <2>1. r[0].k = k /\ 0 \in 0..n
    BY <1>1, <1>2
  <2>2. Onward(k, k)
    BY OnwardSame
  <2> QED
    BY <1>2, <2>1, <2>2
<1>5. ASSUME NEW i \in 1..n, i - 1 \in S PROVE i \in S
  <2>1. i \in 0..n /\ i # 0 /\ r[i-1] \in FreeLoop /\ Onward(k, r[i-1].k)
    BY <1>5
  <2>2. r[i] = FreeStep(r[i-1])
    BY <1>2
  <2>3. r[i] \in FreeLoop /\ Onward(r[i-1].k, r[i].k)
    BY <2>1, <2>2, FreeStepOf
  <2>4. Onward(k, r[i].k)
    BY <2>1, <2>3, OnwardOnward
  <2> QED
    BY <2>1, <2>3, <2>4
<1> HIDE DEF S
<1>6. n \in S
  <2>1. \A i \in 1..n : i - 1 \in S => i \in S
    BY <1>5
  <2>2. n \in 0..n
    BY <1>1
  <2> QED
    BY <1>1, <1>4, <2>1, <2>2, UpTo
<1> QED
  BY <1>3, <1>6 DEF S, FreeLoop

-----------------------------------------------------------------------------
(* A task that is on no list is made ready, or is put down as it is. *)
OffLists(k, t) == InReady(k, t) = {} /\ InWait(k, t) = {} /\ t \notin TickTasks(k)

LEMMA Readied ==
    ASSUME NEW k, NEW t \in Task, But(k, t), OffLists(k, t), k.tcb[t].state = "RDY",
           NEW k2, k2 = ReadyAdd(k, t)
    PROVE  Good(k2) /\ Near(k, k2, t) /\ k2.tcb = k.tcb /\ k2.tick = k.tick
<1>1. InReady(k, t) = {} /\ InWait(k, t) = {} /\ t \notin TickTasks(k)
  BY DEF OffLists
<1>2. /\ But(k2, t) /\ Near(k, k2, t) /\ k2.tcb = k.tcb
      /\ k2.waitq = k.waitq /\ k2.tick = k.tick /\ InReady(k2, t) = {k.tcb[t].prio}
  BY <1>1, ReadyAddOf
<1>3. InWait(k2, t) = {} /\ t \notin TickTasks(k2)
  BY <1>1, <1>2 DEF InWait, TickTasks
<1>4. ReadyAs(k2, t) /\ WaitAs(k2, t) /\ TickAs(k2, t)
  BY <1>2, <1>3, States DEF ReadyAs, WaitAs, TickAs
<1>5. Good(k2)
  BY <1>2, <1>3, <1>4, PutDown
<1> QED
  BY <1>2, <1>5

LEMMA LaidOff ==
    ASSUME NEW k, NEW t \in Task, But(k, t), OffLists(k, t),
           k.tcb[t].state \in {"SUSPENDED", "DELETED"}
    PROVE  Good(k)
<1>1. InReady(k, t) = {} /\ InWait(k, t) = {} /\ t \notin TickTasks(k)
  BY DEF OffLists
<1>2. ReadyAs(k, t) /\ WaitAs(k, t) /\ TickAs(k, t)
  BY <1>1, States DEF ReadyAs, WaitAs, TickAs
<1> QED
  BY <1>1, <1>2, PutDown

LEMMA OffSame ==
    ASSUME NEW k, NEW k2, NEW t, OffLists(k, t), k2.ready = k.ready,
           k2.waitq = k.waitq, k2.tick = k.tick
    PROVE  OffLists(k2, t)
BY DEF OffLists, InReady, InWait, TickTasks

(* What t waited for is forgotten. *)
LEMMA ClearBlkObj ==
    ASSUME NEW k, Good(k), NEW t \in Task, k.tcb[t].state \notin Pending,
           NEW k2, k2 = PutBlkObj(k, t, NULL)
    PROVE  Good(k2) /\ Onward(k, k2) /\ k2.tick = k.tick /\ Tied(k, k2, NULL)
<1>1. But(k, t) /\ ReadyAs(k, t) /\ WaitAs(k, t) /\ TickAs(k, t) /\ k.tcb[t] \in Tcb
  BY TakeUp
<1>2. /\ But(k2, t) /\ Near(k, k2, t) /\ k2.tcb[t] = TcbBlkObj(k.tcb[t], NULL)
      /\ k2.ready = k.ready /\ k2.waitq = k.waitq /\ k2.tick = k.tick
  BY <1>1, SetBlkObj
<1>3. /\ k2.tcb[t].state = k.tcb[t].state /\ k2.tcb[t].prio = k.tcb[t].prio
      /\ k2.tcb[t].b_prio = k.tcb[t].b_prio /\ k2.tcb[t].blk_state = k.tcb[t].blk_state
  BY <1>1, <1>2 DEF TcbBlkObj, Tcb
<1>4. InWait(k2, t) = {}
  BY <1>1, <1>2 DEF WaitAs, InWait
<1>5. ReadyAs(k2, t) /\ WaitAs(k2, t) /\ TickAs(k2, t)
  <2>1. ReadyAs(k2, t)
    BY <1>1, <1>2, <1>3 DEF ReadyAs, InReady
  <2>2. WaitAs(k2, t)
    BY <1>3, <1>4 DEF WaitAs
  <2>3. TickAs(k2, t)
    BY <1>1, <1>2, <1>3 DEF TickAs, TickTasks
  <2> QED
    BY <2>1, <2>2, <2>3
<1>6. Good(k2)
  BY <1>2, <1>4, <1>5, PutDown
<1>7. Softer(k.tcb[t], k2.tcb[t])
  BY <1>3 DEF Softer
<1>8. Onward(k, k2)
  BY <1>2, <1>3, <1>7, OnwardNear
<1>9. Tied(k, k2, NULL)
  <2>1. k2.tcb[t].mutex_list = k.tcb[t].mutex_list
    BY <1>1, <1>2 DEF TcbBlkObj, Tcb
  <2>2. SameClaims(k.tcb[t], k2.tcb[t])
    BY <1>3, <2>1 DEF SameClaims
  <2> QED
    BY <1>2, <1>7, <2>2, TiedNear
<1> QED
  BY <1>2, <1>6, <1>8, <1>9

(* t leaves the list its state puts it on, and the tick list. *)
TakeOff(k, t) ==
    IF k.tcb[t].state = "RDY" THEN ReadyRm(k, t)
    ELSE IF k.tcb[t].state \in Pending THEN PendListRm(TickRm(k, t), t)
    ELSE IF k.tcb[t].state \in Sleeping THEN TickRm(k, t)
    ELSE k

LEMMA TakenOff ==
    ASSUME NEW k, Good(k), NEW t \in Task, NEW k2, k2 = TakeOff(k, t)
    PROVE  /\ But(k2, t) /\ Near(k, k2, t) /\ k2.tcb = k.tcb
           /\ OffLists(k2, t) /\ Range(k2.tick) \subseteq Range(k.tick)
<1>1. But(k, t) /\ ReadyAs(k, t) /\ WaitAs(k, t) /\ TickAs(k, t) /\ k.tcb[t] \in Tcb
  BY TakeUp
<1>2. CASE k.tcb[t].state = "RDY"
  <2>1. k2 = ReadyRm(k, t)
    BY <1>2 DEF TakeOff
  <2>2. InReady(k, t) \subseteq {k.tcb[t].prio} /\ InWait(k, t) = {} /\ t \notin TickTasks(k)
    BY <1>1, <1>2, States DEF ReadyAs, WaitAs, TickAs
  <2>3. /\ But(k2, t) /\ Near(k, k2, t) /\ k2.tcb = k.tcb
        /\ k2.waitq = k.waitq /\ k2.tick = k.tick /\ InReady(k2, t) = {}
    BY <1>1, <2>1, <2>2, ReadyRmOf
  <2>4. OffLists(k2, t)
    BY <2>2, <2>3 DEF OffLists, InWait, TickTasks
  <2> QED
    BY <2>3, <2>4
<1>3. CASE k.tcb[t].state \in Pending
  <2> DEFINE x == TickRm(k, t)
             o == k.tcb[t].blk_obj
  <2>1. k2 = PendListRm(x, t)
    BY <1>3, States DEF TakeOff
  <2>2. /\ But(x, t) /\ Near(k, x, t) /\ x.tcb = k.tcb
        /\ x.ready = k.ready /\ x.waitq = k.waitq
        /\ Range(x.tick) \subseteq Range(k.tick) /\ t \notin TickTasks(x)
    BY <1>1, TickRmOf
  <2>3. InReady(k, t) = {} /\ InWait(k, t) = {o} /\ o \in Obj
    BY <1>1, <1>3, States, TcbFields DEF ReadyAs, WaitAs
  <2> HIDE DEF x
  <2>4. x.tcb[t].blk_obj \in Obj /\ InWait(x, t) \subseteq {x.tcb[t].blk_obj}
    BY <2>2, <2>3 DEF InWait
  <2>5. /\ But(k2, t) /\ Near(x, k2, t) /\ k2.tcb = x.tcb
        /\ k2.ready = x.ready /\ k2.tick = x.tick /\ InWait(k2, t) = {}
    BY <2>1, <2>2, <2>4, PendListRmOf
  <2>6. OffLists(k2, t)
    BY <2>2, <2>3, <2>5 DEF OffLists, InReady, TickTasks
  <2>7. Near(k, k2, t)
    BY <2>2, <2>5, NearNear
  <2> QED
    BY <2>2, <2>5, <2>6, <2>7
<1>4. CASE k.tcb[t].state \in Sleeping
  <2>1. k2 = TickRm(k, t)
    BY <1>4, States DEF TakeOff
  <2>2. /\ But(k2, t) /\ Near(k, k2, t) /\ k2.tcb = k.tcb
        /\ k2.ready = k.ready /\ k2.waitq = k.waitq
        /\ Range(k2.tick) \subseteq Range(k.tick) /\ t \notin TickTasks(k2)
    BY <1>1, <2>1, TickRmOf
  <2>3. InReady(k, t) = {} /\ InWait(k, t) = {}
    BY <1>1, <1>4, States DEF ReadyAs, WaitAs
  <2>4. OffLists(k2, t)
    BY <2>2, <2>3 DEF OffLists, InReady, InWait
  <2> QED
    BY <2>2, <2>4
<1>5. CASE k.tcb[t].state # "RDY" /\ k.tcb[t].state \notin Pending \cup Sleeping
  <2>1. k2 = k
    BY <1>5 DEF TakeOff
  <2>2. OffLists(k, t)
    BY <1>1, <1>5 DEF ReadyAs, WaitAs, TickAs, OffLists
  <2> QED
    BY <1>1, <2>1, <2>2 DEF Near
<1> QED
  BY <1>2, <1>3, <1>4, <1>5

(* t is off its blocked list; what it waited for is still recorded. *)
Off(k, x, t) ==
    /\ Good(x) /\ Near(k, x, t) /\ x.tcb[t].state \notin Pending
    /\ x.tcb[t].prio = k.tcb[t].prio /\ x.tcb[t].b_prio = k.tcb[t].b_prio
    /\ x.tcb[t].mutex_list = k.tcb[t].mutex_list
    /\ k.tcb[t].state \in Pending => x.tcb[t].blk_obj = k.tcb[t].blk_obj

(* t is off its lists, and the owner of what it waited for has been told. *)
Departs(k, k2, t) ==
    \E x : /\ Off(k, x, t)
           /\ IF k.tcb[t].state \in Pending
              THEN \/ k2 = MutexTaskPriReset(x, t)
                   \/ k2 = PutBlkObj(MutexTaskPriReset(x, t), t, NULL)
              ELSE k2 = x

(* A task is deleted: to the others it is as if helpers had run. *)
Parted(k, k2, t) ==
    /\ k2.live = k.live /\ k2.count = k.count
    /\ Range(k2.tick) \subseteq Range(k.tick)
    /\ \A u \in AllTask \ {t} : Softer(k.tcb[u], k2.tcb[u])
    /\ k2.tcb[t].state = "DELETED"
    /\ ~INHERIT /\ Flat(k) => Flat(k2)

LEMMA TaskRemoveOf ==
    ASSUME NEW k, Good(k), NEW t \in Task, k.tcb[t].state # "DELETED",
           NEW k2, k2 = TaskRemove(k, t)
    PROVE  Good(k2) /\ Parted(k, k2, t) /\ Tied(k, k2, t) /\ Departs(k, k2, t)
<1> DEFINE x1 == TakeOff(k, t)
           x2 == PutState(x1, t, "DELETED")
<1>1. /\ But(x1, t) /\ Near(k, x1, t) /\ x1.tcb = k.tcb
      /\ OffLists(x1, t) /\ Range(x1.tick) \subseteq Range(k.tick)
  BY TakenOff
<1>2. k.tcb[t] \in Tcb /\ k.tcb[t].state \in TaskState
  BY TakeUp, TcbFields
<1>3. k2 = IF k.tcb[t].state \in Pending THEN MutexTaskPriReset(x2, t) ELSE x2
  BY <1>2, States DEF TaskRemove, TakeOff, PutState
<1> HIDE DEF x1
<1>4. "DELETED" \in TaskState /\ "DELETED" \notin Suspended /\ "DELETED" \notin Pending
  BY States
<1>5. /\ But(x2, t) /\ Near(x1, x2, t) /\ x2.tcb[t] = TcbState(x1.tcb[t], "DELETED")
      /\ x2.ready = x1.ready /\ x2.waitq = x1.waitq /\ x2.tick = x1.tick
  BY <1>1, <1>4, SetState
<1> HIDE DEF x2
<1>6. /\ x2.tcb[t].state = "DELETED" /\ x2.tcb[t].prio = k.tcb[t].prio
      /\ x2.tcb[t].b_prio = k.tcb[t].b_prio /\ x2.tcb[t].blk_obj = k.tcb[t].blk_obj
      /\ x2.tcb[t].mutex_list = k.tcb[t].mutex_list
  BY <1>1, <1>2, <1>5 DEF TcbState, Tcb
<1>7. OffLists(x2, t)
  BY <1>1, <1>5, OffSame
<1>8. Good(x2)
  BY <1>5, <1>6, <1>7, LaidOff
<1>9. Near(k, x2, t)
  BY <1>1, <1>5, NearNear
<1>10. Parted(k, x2, t)
  <2>1. \A u \in AllTask \ {t} : Softer(k.tcb[u], x2.tcb[u])
    BY <1>9, SofterSame DEF Near
  <2>2. Flat(k) => Flat(x2)
    BY <1>6, <1>9 DEF Flat, Near
  <2> QED
    BY <1>1, <1>5, <1>6, <1>9, <2>1, <2>2 DEF Parted, Near
<1>11. Good(k2) /\ Onward(x2, k2) /\ Tied(x2, k2, NULL)
  <2>1. CASE k2 = x2
    BY <1>8, <2>1, OnwardSame, TiedSame
  <2>2. CASE k2 = MutexTaskPriReset(x2, t)
    BY <1>8, <2>2, MutexTaskPriResetOf
  <2> QED
    BY <1>3, <2>1, <2>2
<1>12. Parted(k, k2, t)
  <2>1. \A u \in AllTask \ {t} : Softer(k.tcb[u], k2.tcb[u])
    BY <1>10, <1>11, SofterSofter DEF Parted, Onward
  <2>2. k2.tcb[t].state = "DELETED"
    BY <1>6, <1>11, Kinds DEF Onward, Softer
  <2> QED
    BY <1>10, <1>11, <2>1, <2>2 DEF Parted, Onward
<1>13. Tied(k, k2, t)
  <2>1. Tied(k, x2, t)
    BY <1>9, TiedNear
  <2>2. Tied(x2, k2, t)
    BY <1>11, Kinds DEF Tied
  <2>3. x2 \in KState
    BY <1>8, GoodState
  <2> QED
    BY <2>1, <2>2, <2>3, TiedTied
<1>14. Off(k, x2, t)
  BY <1>4, <1>6, <1>8, <1>9 DEF Off
<1> QED
  BY <1>3, <1>11, <1>12, <1>13, <1>14 DEF Departs

-----------------------------------------------------------------------------
(* A wait is broken off by another task. *)
LEMMA WaitAbortedOf ==
    ASSUME NEW k, Good(k), NEW t \in Task, k.tcb[t].state # "DELETED",
           NEW k2, k2 = WaitAborted(k, t)
    PROVE  Good(k2) /\ Onward(k, k2) /\ Tied(k, k2, NULL) /\ Departs(k, k2, t)
<1> DEFINE x1 == TakeOff(k, t)
           x2 == IF k.tcb[t].state = "SUSPENDED" THEN x1 ELSE PutBlkState(x1, t, "ABORT")
           x3 == PutState(x2, t, "RDY")
           x4 == ReadyAdd(x3, t)
           x5 == MutexTaskPriReset(x4, t)
           x6 == PutBlkObj(x5, t, NULL)
<1>1. /\ But(x1, t) /\ Near(k, x1, t) /\ x1.tcb = k.tcb
      /\ OffLists(x1, t) /\ Range(x1.tick) \subseteq Range(k.tick)
  BY TakenOff
<1>2. k.tcb[t] \in Tcb /\ k.tcb[t].state \in TaskState
  BY TakeUp, TcbFields
<1>3. CASE k.tcb[t].state = "RDY"
  <2>1. k2 = k
    BY <1>3, States DEF WaitAborted
  <2>2. Off(k, k, t) /\ k.tcb[t].state \notin Pending
    BY <1>3, States DEF Off, Near
  <2> QED
    BY <2>1, <2>2, OnwardSame, TiedSame DEF Departs
<1>4. CASE k.tcb[t].state # "RDY"
  <2>1. k2 = IF k.tcb[t].state \in Pending THEN x6 ELSE x4
    <3>1. k.tcb[t].state = "SUSPENDED" => k2 = x4
      BY States DEF WaitAborted, TakeOff, PutState
    <3>2. k.tcb[t].state \in Sleeping => k2 = x4
      BY States DEF WaitAborted, TakeOff, PutState, PutBlkState
    <3>3. k.tcb[t].state \in Pending => k2 = x6
      BY States DEF WaitAborted, TakeOff, PutState, PutBlkState, PutBlkObj
    <3> HIDE DEF x6, x4
    <3> QED
      BY <1>2, <1>4, <3>1, <3>2, <3>3, States
  <2> HIDE DEF x1
  <2>2. /\ But(x2, t) /\ Near(x1, x2, t)
        /\ x2.ready = x1.ready /\ x2.waitq = x1.waitq /\ x2.tick = x1.tick
        /\ x2.tcb[t] = x1.tcb[t] \/ x2.tcb[t] = TcbBlkState(x1.tcb[t], "ABORT")
        /\ k.tcb[t].state # "SUSPENDED" => x2.tcb[t] = TcbBlkState(x1.tcb[t], "ABORT")
        /\ k.tcb[t].state = "SUSPENDED" => x2.tcb[t] = x1.tcb[t]
    <3>1. CASE k.tcb[t].state = "SUSPENDED"
      BY <1>1, <3>1 DEF Near
    <3>2. CASE k.tcb[t].state # "SUSPENDED"
      <4>1. x2 = PutBlkState(x1, t, "ABORT") /\ "ABORT" \in BlkState
        BY <3>2 DEF BlkState
      <4> HIDE DEF x2
      <4> QED
        BY <1>1, <3>2, <4>1, SetBlkState
    <3> QED
      BY <3>1, <3>2
  <2> HIDE DEF x2
  <2>3. "RDY" \in TaskState /\ "RDY" \notin Suspended /\ "RDY" \notin Pending
    BY States
  <2>4. /\ But(x3, t) /\ Near(x2, x3, t) /\ x3.tcb[t] = TcbState(x2.tcb[t], "RDY")
        /\ x3.ready = x2.ready /\ x3.waitq = x2.waitq /\ x3.tick = x2.tick
    BY <2>2, <2>3, SetState
  <2> HIDE DEF x3
  <2>5. /\ x3.tcb[t].state = "RDY" /\ x3.tcb[t].prio = k.tcb[t].prio
        /\ x3.tcb[t].b_prio = k.tcb[t].b_prio
        /\ k.tcb[t].state # "SUSPENDED" => x3.tcb[t].blk_state = "ABORT"
        /\ x3.tcb[t].blk_state \in {k.tcb[t].blk_state, "ABORT"}
    BY <1>1, <1>2, <2>2, <2>4 DEF TcbState, TcbBlkState, Tcb
  <2>14. /\ k.tcb[t].state = "SUSPENDED" => x3.tcb[t].blk_state = k.tcb[t].blk_state
         /\ x3.tcb[t].mutex_list = k.tcb[t].mutex_list
         /\ x3.tcb[t].blk_obj = k.tcb[t].blk_obj
    <3>1. x2.tcb[t] = x1.tcb[t] \/ x2.tcb[t] = TcbBlkState(x1.tcb[t], "ABORT")
      BY <2>2
    <3>2. k.tcb[t].state = "SUSPENDED" => x2.tcb[t] = x1.tcb[t]
      BY <2>2
    <3> QED
      BY <1>1, <1>2, <2>4, <3>1, <3>2 DEF TcbState, TcbBlkState, Tcb
  <2>6. OffLists(x3, t)
    BY <1>1, <2>2, <2>4, OffSame
  <2>7. Good(x4) /\ Near(x3, x4, t) /\ x4.tcb = x3.tcb /\ x4.tick = x3.tick
    BY <2>4, <2>5, <2>6, Readied
  <2> HIDE DEF x4
  <2>8. Near(k, x4, t)
    BY <1>1, <2>2, <2>4, <2>7, NearNear
  <2>9. Onward(k, x4)
    <3>1. Softer(k.tcb[t], x4.tcb[t])
      BY <1>2, <1>4, <2>5, <2>7, States DEF Softer
    <3>2. Range(x4.tick) \subseteq Range(k.tick)
      BY <1>1, <2>2, <2>4, <2>7
    <3> QED
      BY <2>5, <2>7, <2>8, <3>1, <3>2, OnwardNear
  <2>15. Tied(k, x4, NULL)
    <3>1. SameClaims(k.tcb[t], x4.tcb[t])
      BY <1>4, <2>5, <2>7, <2>14 DEF SameClaims
    <3>2. Softer(k.tcb[t], x4.tcb[t])
      BY <1>2, <1>4, <2>5, <2>7, States DEF Softer
    <3> QED
      BY <2>8, <3>1, <3>2, TiedNear
  <2>17. Off(k, x4, t)
    BY <2>3, <2>5, <2>7, <2>8, <2>14 DEF Off
  <2>10. Good(x5) /\ Onward(x4, x5) /\ Tied(x4, x5, NULL)
    BY <2>7, MutexTaskPriResetOf
  <2>18. Departs(k, k2, t)
    BY <2>1, <2>17 DEF Departs
  <2> HIDE DEF x5
  <2>11. x5.tcb[t].state \notin Pending
    BY <2>5, <2>7, <2>10, States, Kinds DEF Onward, Softer
  <2>12. Good(x6) /\ Onward(x5, x6) /\ Tied(x5, x6, NULL)
    BY <2>10, <2>11, ClearBlkObj
  <2> HIDE DEF x6
  <2>13. Onward(k, x6)
    BY <2>9, <2>10, <2>12, OnwardOnward
  <2>16. Tied(k, x6, NULL)
    <3>1. x4 \in KState /\ x5 \in KState
      BY <2>7, <2>10, GoodState
    <3>2. Tied(k, x5, NULL)
      BY <2>10, <2>15, <3>1, TiedTied
    <3> QED
      BY <2>12, <3>1, <3>2, TiedTied
  <2> QED
    BY <2>1, <2>7, <2>9, <2>12, <2>13, <2>15, <2>16, <2>18
<1> QED
  BY <1>3, <1>4

-----------------------------------------------------------------------------
(* The tick interrupt. *)
LEMMA ExpireOf ==
    ASSUME NEW k, Good(k), NEW t \in TickTasks(k), NEW k2, k2 = Expire(k, t)
    PROVE  /\ Good(k2) /\ Onward(k, k2) /\ Len(k2.tick) = Len(k.tick) - 1
           /\ Tied(k, k2, NULL) /\ t \in Task /\ Departs(k, k2, t)
<1> DEFINE x1 == TickRm(k, t)
<1>0. t \in Task
  <2>1. k.tick \in Seq(Entry)
    BY GoodState, Fields
  <2>2. \A e \in Range(k.tick) : e \in Entry
    BY <2>1 DEF Range
  <2> QED
    BY <2>2 DEF TickTasks, Entry
<1>1. But(k, t) /\ ReadyAs(k, t) /\ WaitAs(k, t) /\ TickAs(k, t) /\ k.tcb[t] \in Tcb
  BY <1>0, TakeUp
<1>2. k.tcb[t].state \in Pending \cup Sleeping
  BY <1>1 DEF TickAs
<1>3. /\ But(x1, t) /\ Near(k, x1, t) /\ x1.tcb = k.tcb
      /\ x1.ready = k.ready /\ x1.waitq = k.waitq
      /\ Range(x1.tick) \subseteq Range(k.tick) /\ t \notin TickTasks(x1)
      /\ Len(x1.tick) = Len(k.tick) - 1
  BY <1>0, <1>1, TickRmOf
<1>4. ReadyAs(x1, t) /\ WaitAs(x1, t)
  BY <1>1, <1>3 DEF ReadyAs, WaitAs, InReady, InWait
<1>5. CASE k.tcb[t].state \in Sleeping
  <2> DEFINE s == IF k.tcb[t].state = "SLEEP" THEN "RDY" ELSE "SUSPENDED"
             x2 == PutBlkState(x1, t, "FINISH")
             x3 == PutState(x2, t, s)
  <2>1. k2 = IF k.tcb[t].state = "SLEEP" THEN ReadyAdd(x3, t) ELSE x3
    <3> HIDE DEF x1
    <3>1. k.tcb[t].state = "SLEEP" => k2 = ReadyAdd(PutState(x2, t, "RDY"), t)
      BY States DEF Expire, PutState, PutBlkState, x1
    <3>2. k.tcb[t].state = "SLEEP_SUSPENDED" => k2 = PutState(x2, t, "SUSPENDED")
      BY States DEF Expire, PutState, PutBlkState, x1
    <3> HIDE DEF x2
    <3> QED
      BY <1>5, <3>1, <3>2, States
  <2> HIDE DEF x1
  <2>2. OffLists(x1, t)
    BY <1>3, <1>4, <1>5, States DEF OffLists, ReadyAs, WaitAs
  <2>3. "FINISH" \in BlkState
    BY DEF BlkState
  <2>4. /\ But(x2, t) /\ Near(x1, x2, t) /\ x2.tcb[t] = TcbBlkState(x1.tcb[t], "FINISH")
        /\ x2.ready = x1.ready /\ x2.waitq = x1.waitq /\ x2.tick = x1.tick
    BY <1>0, <1>3, <2>3, SetBlkState
  <2> HIDE DEF x2
  <2>5. /\ x2.tcb[t].suspend = k.tcb[t].suspend /\ x2.tcb[t].prio = k.tcb[t].prio
        /\ x2.tcb[t].b_prio = k.tcb[t].b_prio /\ x2.tcb[t].blk_state = "FINISH"
        /\ x2.tcb[t] \in Tcb /\ x2.tcb[t].mutex_list = k.tcb[t].mutex_list
    <3>1. x2.tcb[t] \in Tcb
      BY <1>0, <2>4, Kinds, Fields DEF But
    <3> QED
      BY <1>1, <1>3, <2>4, <3>1 DEF TcbBlkState, Tcb
  <2>6. s \in TaskState /\ (s \in Suspended => x2.tcb[t].suspend > 0) /\ s \notin Pending
    BY <1>1, <1>5, <2>5, States, TcbFields
  <2>7. s \in {"RDY", "SUSPENDED"} /\ (s = "RDY" <=> k.tcb[t].state = "SLEEP")
    OBVIOUS
  <2> HIDE DEF s
  <2>8. /\ But(x3, t) /\ Near(x2, x3, t) /\ x3.tcb[t] = TcbState(x2.tcb[t], s)
        /\ x3.ready = x2.ready /\ x3.waitq = x2.waitq /\ x3.tick = x2.tick
    BY <1>0, <2>4, <2>6, SetState
  <2> HIDE DEF x3
  <2>9. /\ x3.tcb[t].state = s /\ x3.tcb[t].prio = k.tcb[t].prio
        /\ x3.tcb[t].b_prio = k.tcb[t].b_prio /\ x3.tcb[t].blk_state = "FINISH"
        /\ x3.tcb[t].mutex_list = k.tcb[t].mutex_list
    BY <2>5, <2>8 DEF TcbState, Tcb
  <2>10. OffLists(x3, t)
    BY <2>2, <2>4, <2>8, OffSame
  <2>11. Good(k2) /\ Near(x3, k2, t) /\ k2.tcb = x3.tcb /\ k2.tick = x3.tick
    <3>1. CASE s = "RDY"
      BY <1>0, <2>1, <2>7, <2>8, <2>9, <2>10, <3>1, Readied
    <3>2. CASE s = "SUSPENDED"
      <4>1. Good(x3)
        BY <1>0, <2>8, <2>9, <2>10, <3>2, LaidOff
      <4>2. k2 = x3
        BY <2>1, <2>7, <3>2
      <4> QED
        BY <4>1, <4>2 DEF Near
    <3> QED
      BY <2>7, <3>1, <3>2
  <2>12. Near(k, k2, t)
    BY <1>3, <2>4, <2>8, <2>11, NearNear
  <2>13. Softer(k.tcb[t], k2.tcb[t])
    BY <1>5, <2>7, <2>9, <2>11, States DEF Softer
  <2>14. k2.tick = x1.tick
    BY <2>4, <2>8, <2>11
  <2>15. Onward(k, k2)
    BY <1>3, <2>9, <2>11, <2>12, <2>13, <2>14, OnwardNear
  <2>16. Tied(k, k2, NULL)
    <3>1. SameClaims(k.tcb[t], k2.tcb[t])
      BY <1>5, <2>9, <2>11, States DEF SameClaims
    <3> QED
      BY <2>12, <2>13, <3>1, TiedNear
  <2>17. Off(k, k2, t) /\ k.tcb[t].state \notin Pending
    BY <1>5, <2>7, <2>9, <2>11, <2>12, States DEF Off
  <2> QED
    BY <1>0, <1>3, <2>11, <2>14, <2>15, <2>16, <2>17 DEF Departs
<1>6. CASE k.tcb[t].state \in Pending
  <2> DEFINE x2 == Unpend(x1, t, "TIMEOUT")
             x3 == MutexTaskPriReset(x2, t)
  <2>1. k2 = PutBlkObj(x3, t, NULL)
    BY <1>6, States DEF Expire, PutBlkObj
  <2>2. "TIMEOUT" \in BlkState /\ "TIMEOUT" # "STALE" /\ x1.tcb[t].state \in Pending
    BY <1>3, <1>6 DEF BlkState
  <2> HIDE DEF x1
  <2>3. /\ But(x2, t) /\ Near(x1, x2, t) /\ x2.tcb[t] = Woken(x1.tcb[t], "TIMEOUT")
        /\ ReadyAs(x2, t) /\ WaitAs(x2, t) /\ x2.tick = x1.tick
    BY <1>0, <1>3, <1>4, <2>2, UnpendOf
  <2> HIDE DEF x2
  <2>4. /\ x2.tcb[t].state \in {"RDY", "SUSPENDED"} /\ x2.tcb[t].blk_state = "TIMEOUT"
        /\ x2.tcb[t].prio = k.tcb[t].prio /\ x2.tcb[t].b_prio = k.tcb[t].b_prio
        /\ x2.tcb[t].mutex_list = k.tcb[t].mutex_list
        /\ x2.tcb[t].blk_obj = k.tcb[t].blk_obj
    BY <1>1, <1>3, <2>3 DEF Woken, Tcb
  <2>5. Good(x2)
    <3>1. InWait(x2, t) = {}
      BY <2>3, <2>4, States DEF WaitAs
    <3>2. TickAs(x2, t)
      BY <1>3, <2>3, <2>4, States DEF TickAs, TickTasks
    <3> QED
      BY <1>0, <2>3, <3>1, <3>2, PutDown
  <2>6. Onward(k, x2)
    <3>1. Near(k, x2, t)
      BY <1>3, <2>3, NearNear
    <3>2. Softer(k.tcb[t], x2.tcb[t])
      BY <1>6, <2>2, <2>4, States DEF Softer
    <3> QED
      BY <1>3, <2>3, <2>4, <3>1, <3>2, OnwardNear
  <2>11. Tied(k, x2, NULL)
    <3>1. Near(k, x2, t)
      BY <1>3, <2>3, NearNear
    <3>2. Softer(k.tcb[t], x2.tcb[t])
      BY <1>6, <2>2, <2>4, States DEF Softer
    <3>3. SameClaims(k.tcb[t], x2.tcb[t])
      BY <1>6, <2>4, States DEF SameClaims
    <3> QED
      BY <3>1, <3>2, <3>3, TiedNear
  <2>13. Off(k, x2, t)
    <3>1. Near(k, x2, t)
      BY <1>3, <2>3, NearNear
    <3> QED
      BY <2>4, <2>5, <3>1, States DEF Off
  <2>14. Departs(k, k2, t)
    BY <1>6, <2>1, <2>13 DEF Departs
  <2>7. Good(x3) /\ Onward(x2, x3) /\ x3.tick = x2.tick /\ Tied(x2, x3, NULL)
    BY <1>0, <2>5, MutexTaskPriResetOf
  <2> HIDE DEF x3
  <2>8. x3.tcb[t].state \notin Pending
    BY <1>0, <2>4, <2>7, States, Kinds DEF Onward, Softer
  <2>9. Good(k2) /\ Onward(x3, k2) /\ k2.tick = x3.tick /\ Tied(x3, k2, NULL)
    BY <1>0, <2>1, <2>7, <2>8, ClearBlkObj
  <2>10. Onward(k, k2)
    BY <2>6, <2>7, <2>9, OnwardOnward
  <2>12. Tied(k, k2, NULL)
    <3>1. x2 \in KState /\ x3 \in KState
      BY <2>5, <2>7, GoodState
    <3>2. Tied(k, x3, NULL)
      BY <2>7, <2>11, <3>1, TiedTied
    <3> QED
      BY <2>9, <3>1, <3>2, TiedTied
  <2> QED
    BY <1>0, <1>3, <2>3, <2>7, <2>9, <2>10, <2>12, <2>14
<1> QED
  BY <1>2, <1>5, <1>6

(* Everybody on the tick list has time left. *)
Timed(k) == \A e \in Range(k.tick) : e.left > 0

(* A tick passes: Onward, but for the times on the list. *)
Later(k, k2) ==
    /\ k2.live = k.live /\ k2.count = k.count
    /\ \A u \in AllTask : Softer(k.tcb[u], k2.tcb[u])
    /\ ~INHERIT /\ Flat(k) => Flat(k2)

LEMMA AgedOf ==
    ASSUME NEW k, Good(k), Timed(k), NEW k2, k2 = Aged(k)
    PROVE  /\ Good(k2) /\ Later(k, k2) /\ Len(k2.tick) = Len(k.tick)
           /\ Tied(k, k2, NULL)
<1> DEFINE q == k.tick
           l == [i \in DOMAIN q |-> [task |-> q[i].task, left |-> q[i].left - 1]]
<1>1. k \in KState /\ ReadyPart(k, NULL) /\ WaitPart(k, NULL) /\ TickPart(k, NULL)
  BY DEF Good, But
<1>2. /\ q \in Seq(Entry) /\ IsInjective(q) /\ Ordered(q, LeftOf)
      /\ \A e, f \in Range(q) : e.task = f.task => e = f
  BY <1>1, Fields DEF TickPart
<1>3. \A i \in DOMAIN q : q[i] \in Entry /\ q[i].left > 0 /\ q[i] \in Range(q)
  BY <1>2 DEF Timed, Range
<1>4. k2 = [k EXCEPT !.tick = l]
  BY DEF Aged
<1>5. DOMAIN l = DOMAIN q /\ DOMAIN q = 1..Len(q) /\ Len(q) \in Nat
  BY <1>2
<1>6. \A i \in DOMAIN q : l[i] \in Entry /\ l[i].task = q[i].task /\ l[i].left = q[i].left - 1
  BY <1>3 DEF Entry
<1> HIDE DEF l
<1>7. l \in Seq(Entry) /\ Len(l) = Len(q)
  <2>1. l \in [1..Len(q) -> Entry]
    <3>1. l = [i \in DOMAIN q |-> l[i]]
      BY DEF l
    <3> QED
      BY <1>5, <1>6, <3>1
  <2> QED
    BY <1>5, <2>1
<1>8. /\ k2 \in KState /\ k2.tick = l
      /\ k2.tcb = k.tcb /\ k2.waitq = k.waitq /\ k2.ready = k.ready
      /\ k2.live = k.live /\ k2.mtx = k.mtx /\ k2.count = k.count /\ k2.kerr = k.kerr
  BY <1>1, <1>4, <1>7, WithTick
<1>9. TickTasks(k2) = TickTasks(k)
  BY <1>5, <1>6, <1>8 DEF TickTasks, Range
<1>10. TickPart(k2, NULL)
  <2>1. \A i, j \in DOMAIN q : l[i].task = l[j].task => i = j
    BY <1>2, <1>3, <1>6 DEF IsInjective
  <2>2. IsInjective(l)
    BY <1>5, <2>1 DEF IsInjective
  <2>3. \A e, f \in Range(l) : e.task = f.task => e = f
    BY <1>5, <2>1 DEF Range
  <2>4. Ordered(l, LeftOf)
    <3>1. \A i \in DOMAIN q : LeftOf[l[i]] = q[i].left - 1 /\ LeftOf[q[i]] = q[i].left /\ q[i].left \in Nat
      BY <1>3, <1>6 DEF LeftOf, Entry
    <3> SUFFICES ASSUME NEW i \in DOMAIN q, NEW j \in DOMAIN q, i < j
                 PROVE  LeftOf[l[i]] <= LeftOf[l[j]]
      BY <1>5 DEF Ordered
    <3>2. LeftOf[q[i]] <= LeftOf[q[j]]
      BY <1>2 DEF Ordered
    <3> QED
      BY <3>1, <3>2
  <2> QED
    BY <1>1, <1>8, <1>9, <2>2, <2>3, <2>4 DEF TickPart
<1>11. ReadyPart(k2, NULL)
  BY <1>1, <1>8, ReadySame
<1>12. WaitPart(k2, NULL)
  BY <1>1, <1>8, WaitSame
<1>13. Later(k, k2)
  BY <1>8, SofterSame DEF Later, Flat
<1>14. Tied(k, k2, NULL)
  BY <1>8, TiedSame
<1> QED
  BY <1>7, <1>8, <1>10, <1>11, <1>12, <1>13, <1>14 DEF Good, But

LEMMA ExpireFirstOf ==
    ASSUME NEW k, Good(k), NEW k2, k2 = ExpireFirst(k)
    PROVE  /\ Good(k2) /\ Onward(k, k2) /\ Tied(k, k2, NULL)
           /\ Timed(k) => Timed(k2)
           /\ ~Timed(k2) => Len(k.tick) \in Nat \ {0} /\ Len(k2.tick) = Len(k.tick) - 1
<1>1. k \in KState /\ TickPart(k, NULL)
  BY DEF Good, But
<1>2. k.tick \in Seq(Entry) /\ Ordered(k.tick, LeftOf)
  BY <1>1, Fields DEF TickPart
<1>3. CASE k.tick # <<>> /\ Head(k.tick).left = 0
  <2> DEFINE t == Head(k.tick).task
  <2>1. Head(k.tick) \in Range(k.tick) /\ Len(k.tick) \in Nat \ {0}
    <3>1. Head(k.tick) = k.tick[1] /\ 1 \in DOMAIN k.tick /\ Len(k.tick) \in Nat \ {0}
      BY <1>2, <1>3
    <3> QED
      BY <3>1 DEF Range
  <2>2. t \in TickTasks(k)
    BY <2>1 DEF TickTasks
  <2>3. k2 = Expire(k, t)
    BY <1>3 DEF ExpireFirst
  <2> HIDE DEF t
  <2>4. Good(k2) /\ Onward(k, k2) /\ Tied(k, k2, NULL) /\ Len(k2.tick) = Len(k.tick) - 1
    BY <2>2, <2>3, ExpireOf
  <2>5. Timed(k) => Timed(k2)
    BY <2>4 DEF Timed, Onward
  <2> QED
    BY <2>1, <2>4, <2>5
<1>4. CASE ~(k.tick # <<>> /\ Head(k.tick).left = 0)
  <2>1. k2 = k
    BY <1>4 DEF ExpireFirst
  <2>2. Timed(k)
    <3> SUFFICES ASSUME NEW i \in DOMAIN k.tick PROVE k.tick[i].left > 0
      BY DEF Timed, Range
    <3>1. /\ 1 \in DOMAIN k.tick /\ Head(k.tick) = k.tick[1] /\ k.tick # <<>>
          /\ i \in Nat /\ (i = 1 \/ 1 < i)
      BY <1>2
    <3>2. /\ k.tick[1] \in Entry /\ k.tick[i] \in Entry
      BY <1>2, <3>1
    <3>3. /\ k.tick[1].left \in Nat \ {0} /\ k.tick[i].left \in Nat
          /\ LeftOf[k.tick[1]] = k.tick[1].left /\ LeftOf[k.tick[i]] = k.tick[i].left
      BY <1>4, <3>1, <3>2 DEF Entry, LeftOf
    <3>4. 1 < i => LeftOf[k.tick[1]] <= LeftOf[k.tick[i]]
      BY <1>2, <3>1 DEF Ordered
    <3> QED
      BY <3>1, <3>3, <3>4
  <2>3. Onward(k, k) /\ Tied(k, k, NULL)
    BY OnwardSame, TiedSame
  <2> QED
    BY <2>1, <2>2, <2>3
<1> QED
  BY <1>3, <1>4

(* tick_list_update wakes everybody whose time is over, and nobody else is *)
(* lost.                                                                   *)
LEMMA TickRoundsOf ==
    ASSUME NEW k, Good(k), Timed(k)
    PROVE  LET r == TickRounds(k)
           IN  /\ Len(k.tick) \in Nat /\ r[0] = Aged(k)
               /\ \A i \in 1..Len(k.tick) : r[i] = ExpireFirst(r[i-1])
<1> DEFINE n == Len(k.tick)
           x == Aged(k)
           D == {s \in KState : Good(s)}
           F == [s \in D |-> ExpireFirst(s)]
           r == TickRounds(k)
<1>1. Good(x) /\ Later(k, x) /\ Len(x.tick) = n /\ Tied(k, x, NULL)
  BY AgedOf
<1>2. x \in D /\ n \in Nat
  <2>1. x \in KState
    BY <1>1, GoodState
  <2>2. k.tick \in Seq(Entry)
    BY GoodState, Fields
  <2> QED
    BY <1>1, <2>1, <2>2
<1>3. F \in [D -> D] /\ \A s \in D : F[s] = ExpireFirst(s)
  <2>1. \A s \in D : ExpireFirst(s) \in D
    BY ExpireFirstOf, GoodState
  <2> QED
    BY <2>1
<1>4. r = CHOOSE round : round = [i \in 0..n |-> IF i = 0 THEN x ELSE ExpireFirst(round[i-1])]
  BY DEF TickRounds
<1> HIDE DEF n, x, D, F, r
<1>5. PICK g \in [0..n -> D] : Loop(g, F, x, n)
  BY <1>2, <1>3, LoopExists
<1>6. g = [i \in 0..n |-> IF i = 0 THEN x ELSE ExpireFirst(g[i-1])]
  <2>1. ASSUME NEW i \in 1..n PROVE g[i] = ExpireFirst(g[i-1])
    <3>1. i - 1 \in 0..n
      BY <1>2
    <3>2. g[i] = F[g[i - 1]]
      BY <1>5 DEF Loop
    <3> QED
      BY <1>3, <1>5, <3>1, <3>2
  <2>2. \A i \in 0..n : i # 0 => i \in 1..n
    OBVIOUS
  <2>3. g[0] = x
    BY <1>5 DEF Loop
  <2> QED
    BY <1>5, <2>1, <2>2, <2>3
<1>7. r = [i \in 0..n |-> IF i = 0 THEN x ELSE ExpireFirst(r[i-1])]
  BY <1>4, <1>6
<1>8. n \in Nat /\ r[0] = x /\ \A i \in 1..n : r[i] = ExpireFirst(r[i-1])
  BY <1>2, <1>7
<1> QED
  BY <1>8 DEF n, x, r

LEMMA TickListUpdateOf ==
    ASSUME NEW k, Good(k), Timed(k), NEW k2, k2 = TickListUpdate(k)
    PROVE  Good(k2) /\ Timed(k2) /\ Later(k, k2) /\ Tied(k, k2, NULL)
<1> DEFINE n == Len(k.tick)
           x == Aged(k)
           r == TickRounds(k)
<1>1. Good(x) /\ Later(k, x) /\ Len(x.tick) = n /\ Tied(k, x, NULL)
  BY AgedOf
<1>2. n \in Nat /\ r[0] = x /\ \A i \in 1..n : r[i] = ExpireFirst(r[i-1])
  BY TickRoundsOf
<1>5. k2 = r[n]
  BY DEF TickListUpdate
<1> HIDE DEF n, x, r
<1> DEFINE S == {i \in 0..n : /\ Good(r[i]) /\ Onward(x, r[i]) /\ Tied(x, r[i], NULL)
                              /\ Timed(r[i]) \/ Len(r[i].tick) = n - i}
<1>9. 0 \in S
  <2>1. r[0] = x /\ 0 \in 0..n
    BY <1>2
  <2>2. Onward(x, x) /\ Tied(x, x, NULL)
    BY OnwardSame, TiedSame
  <2>3. n - 0 = n
    BY <1>2
  <2> QED
    BY <1>1, <2>1, <2>2, <2>3
<1>10. ASSUME NEW i \in 1..n, i - 1 \in S PROVE i \in S
  <2>1. /\ i \in 0..n /\ i # 0 /\ Good(r[i-1]) /\ Onward(x, r[i-1]) /\ Tied(x, r[i-1], NULL)
        /\ Timed(r[i-1]) \/ Len(r[i-1].tick) = n - (i - 1)
    BY <1>10
  <2>2. r[i] = ExpireFirst(r[i-1])
    BY <1>2
  <2>3. /\ Good(r[i]) /\ Onward(r[i-1], r[i]) /\ Tied(r[i-1], r[i], NULL)
        /\ Timed(r[i-1]) => Timed(r[i])
        /\ ~Timed(r[i]) => Len(r[i].tick) = Len(r[i-1].tick) - 1
    BY <2>1, <2>2, ExpireFirstOf
  <2>4. Onward(x, r[i])
    BY <2>1, <2>3, OnwardOnward
  <2>5. (n - (i - 1)) - 1 = n - i
    BY <1>2, <2>1
  <2>6. Timed(r[i]) \/ Len(r[i].tick) = n - i
    BY <2>1, <2>3, <2>5
  <2>7. Tied(x, r[i], NULL)
    <3>1. r[i-1] \in KState
      BY <2>1, GoodState
    <3> QED
      BY <2>1, <2>3, <3>1, TiedTied
  <2> QED
    BY <2>1, <2>3, <2>4, <2>6, <2>7
<1> HIDE DEF S
<1>11. n \in S
  <2>1. \A i \in 1..n : i - 1 \in S => i \in S
    BY <1>10
  <2>2. n \in 0..n
    BY <1>2
  <2> QED
    BY <1>2, <1>9, <2>1, <2>2, UpTo
<1>12. Good(k2) /\ Onward(x, k2) /\ Tied(x, k2, NULL) /\ (Timed(k2) \/ Len(k2.tick) = n - n)
  BY <1>5, <1>11 DEF S
<1>13. Timed(k2)
  <2>1. k2.tick \in Seq(Entry)
    BY <1>12, GoodState, Fields
  <2>2. Len(k2.tick) = n - n => k2.tick = <<>>
    BY <1>2, <2>1
  <2>3. k2.tick = <<>> => Timed(k2)
    BY DEF Timed, Range
  <2> QED
    BY <1>12, <2>2, <2>3
<1>14. Later(k, k2)
  BY <1>1, <1>12, SofterSofter DEF Later, Onward
<1>15. Tied(k, k2, NULL)
  <2>1. x \in KState
    BY <1>1, GoodState
  <2> QED
    BY <1>1, <1>12, <2>1, TiedTied
<1> QED
  BY <1>12, <1>13, <1>14, <1>15

-----------------------------------------------------------------------------
(* Turns among tasks of one priority. *)
LEMMA Rotating ==
    ASSUME NEW S, NEW l \in Seq(S), l # <<>>
    PROVE  LET m == Append(Tail(l), Head(l))
           IN  /\ m \in Seq(S) /\ Range(m) = Range(l)
               /\ IsInjective(l) => IsInjective(m)
<1> DEFINE m == Append(Tail(l), Head(l))
           n == Len(l)
<1>1. n \in Nat \ {0} /\ DOMAIN l = 1..n
  OBVIOUS
<1>2. /\ m \in Seq(S) /\ Len(m) = n
      /\ m[n] = l[1] /\ \A j \in 1..(n - 1) : m[j] = l[j + 1]
  <2>1. /\ Tail(l) \in Seq(S) /\ Len(Tail(l)) = n - 1 /\ Head(l) = l[1] /\ Head(l) \in S
        /\ \A j \in 1..(n - 1) : Tail(l)[j] = l[j + 1]
    OBVIOUS
  <2> DEFINE a == Tail(l)
             b == Head(l)
  <2> HIDE DEF a, b, n
  <2>2. /\ Append(a, b) \in Seq(S) /\ Len(Append(a, b)) = Len(a) + 1
        /\ Append(a, b)[Len(a) + 1] = b /\ \A j \in 1..Len(a) : Append(a, b)[j] = a[j]
    <3>1. a \in Seq(S) /\ b \in S
      BY <2>1 DEF a, b
    <3> QED
      BY <3>1
  <2>3. m = Append(a, b)
    BY DEF a, b
  <2>4. Len(a) = n - 1 /\ b = l[1] /\ \A j \in 1..(n - 1) : a[j] = l[j + 1]
    BY <2>1 DEF a, b
  <2> HIDE DEF m
  <2> QED
    BY <1>1, <2>2, <2>3, <2>4
<1> HIDE DEF m
<1>3. DOMAIN m = 1..n
  BY <1>2
<1> HIDE DEF n
<1>4. \A j \in 1..n : \E x \in 1..n : m[j] = l[x] /\ x = (IF j = n THEN 1 ELSE j + 1)
  BY <1>1, <1>2
<1>5. \A x \in 1..n : \E j \in 1..n : m[j] = l[x]
  <2> SUFFICES ASSUME NEW x \in 1..n PROVE \E j \in 1..n : m[j] = l[x]
    OBVIOUS
  <2>1. CASE x = 1
    BY <1>1, <1>2, <2>1
  <2>2. CASE x # 1
    <3>1. x - 1 \in 1..(n - 1) /\ x - 1 \in 1..n /\ (x - 1) + 1 = x
      BY <1>1, <2>2
    <3> QED
      BY <1>2, <3>1
  <2> QED
    BY <2>1, <2>2
<1>6. Range(m) = Range(l)
  <2>1. \A y \in Range(m) : y \in Range(l)
    <3> SUFFICES ASSUME NEW j \in 1..n PROVE m[j] \in Range(l)
      BY <1>3 DEF Range
    <3>1. PICK x \in 1..n : m[j] = l[x]
      BY <1>4
    <3> QED
      BY <1>1, <3>1 DEF Range
  <2>2. \A y \in Range(l) : y \in Range(m)
    BY <1>1, <1>3, <1>5 DEF Range
  <2> QED
    BY <2>1, <2>2
<1>7. ASSUME IsInjective(l) PROVE IsInjective(m)
  <2> SUFFICES ASSUME NEW i \in 1..n, NEW j \in 1..n, m[i] = m[j] PROVE i = j
    BY <1>3 DEF IsInjective
  <2>1. PICK x \in 1..n : m[i] = l[x] /\ x = (IF i = n THEN 1 ELSE i + 1)
    BY <1>4
  <2>2. PICK y \in 1..n : m[j] = l[y] /\ y = (IF j = n THEN 1 ELSE j + 1)
    BY <1>4
  <2>3. x = y
    BY <1>1, <1>7, <2>1, <2>2 DEF IsInjective
  <2> QED
    BY <1>1, <2>1, <2>2, <2>3
<1> QED
  BY <1>2, <1>6, <1>7 DEF m

LEMMA HeadToTailOf ==
    ASSUME NEW k, Good(k), NEW t \in AllTask, k.ready[k.tcb[t].prio] # <<>>,
           NEW k2, k2 = HeadToTail(k, t)
    PROVE  /\ Good(k2) /\ Onward(k, k2) /\ k2.tcb = k.tcb /\ k2.tick = k.tick
           /\ k2.live = k.live /\ k2.mtx = k.mtx /\ k2.count = k.count
<1> DEFINE p == k.tcb[t].prio
           l == Append(Tail(k.ready[p]), Head(k.ready[p]))
<1>1. k \in KState /\ ReadyPart(k, NULL) /\ WaitPart(k, NULL) /\ TickPart(k, NULL)
  BY DEF Good, But
<1>2. p \in Prio
  BY <1>1, Fields, TcbFields
<1>3. k2 = [k EXCEPT !.ready[p] = l] /\ k.ready[p] # <<>>
  BY DEF HeadToTail
<1> HIDE DEF p
<1>4. k.ready[p] \in Seq(AllTask) /\ IsInjective(k.ready[p])
  BY <1>1, <1>2, Fields DEF ReadyPart
<1>5. l \in Seq(AllTask) /\ Range(l) = Range(k.ready[p]) /\ IsInjective(l)
  BY <1>3, <1>4, Rotating
<1> HIDE DEF l
<1>6. /\ k2 \in KState
      /\ k2.ready[p] = l /\ \A q \in Prio \ {p} : k2.ready[q] = k.ready[q]
      /\ k2.tcb = k.tcb /\ k2.tick = k.tick /\ k2.waitq = k.waitq
      /\ k2.live = k.live /\ k2.mtx = k.mtx /\ k2.count = k.count /\ k2.kerr = k.kerr
  BY <1>1, <1>2, <1>3, <1>5, WithReady
<1>7. ReadyPart(k2, NULL)
  <2> SUFFICES ASSUME NEW q \in Prio
               PROVE  IsInjective(k2.ready[q]) /\ Range(k2.ready[q]) = Range(k.ready[q])
    BY <1>1, <1>6 DEF ReadyPart
  <2>1. CASE q = p
    BY <1>5, <1>6, <2>1
  <2>2. CASE q # p
    BY <1>1, <1>6, <2>2 DEF ReadyPart
  <2> QED
    BY <2>1, <2>2
<1>8. WaitPart(k2, NULL)
  BY <1>1, <1>6, WaitSame
<1>9. TickPart(k2, NULL)
  BY <1>1, <1>6, TickSame
<1>10. Onward(k, k2)
  BY <1>6, OnwardSame
<1> QED
  BY <1>6, <1>7, <1>8, <1>9, <1>10 DEF Good, But

PutSlice(k, t, n) == [k EXCEPT !.tcb[t].slice = n]

LEMMA WithSlice ==
    ASSUME NEW k, Good(k), NEW t \in AllTask, NEW n \in 1..TimeSlice,
           NEW k2, k2 = PutSlice(k, t, n)
    PROVE  Good(k2) /\ Alike(k, k2) /\ Tied(k, k2, NULL)
<1> DEFINE r == [k.tcb[t] EXCEPT !.slice = n]
<1>1. k \in KState /\ k.tcb[t] \in Tcb
  BY GoodState, Fields
<1>2. /\ r \in Tcb /\ r.state = k.tcb[t].state /\ r.blk_obj = k.tcb[t].blk_obj
      /\ r.blk_state = k.tcb[t].blk_state /\ r.prio = k.tcb[t].prio /\ r.b_prio = k.tcb[t].b_prio
      /\ r.mutex_list = k.tcb[t].mutex_list
  BY <1>1 DEF Tcb
<1>3. k2 = [k EXCEPT !.tcb[t] = r]
  BY DEF PutSlice
<1> HIDE DEF r
<1>4. /\ k2 \in KState
      /\ k2.tcb[t] = r /\ \A u \in AllTask \ {t} : k2.tcb[u] = k.tcb[u]
      /\ k2.ready = k.ready /\ k2.tick = k.tick /\ k2.waitq = k.waitq
      /\ k2.live = k.live /\ k2.mtx = k.mtx /\ k2.count = k.count
  BY <1>1, <1>2, <1>3, WithTcb
<1>5. Alike(k, k2)
  BY <1>2, <1>4 DEF Alike
<1>6. Tied(k, k2, NULL)
  <2>1. ASSUME NEW u \in AllTask
        PROVE  Softer(k.tcb[u], k2.tcb[u]) /\ SameClaims(k.tcb[u], k2.tcb[u])
    <3>1. u = t \/ k2.tcb[u] = k.tcb[u]
      BY <1>4
    <3> QED
      BY <1>2, <1>4, <3>1 DEF Softer, SameClaims
  <2> QED
    BY <1>4, <2>1 DEF Tied
<1> QED
  BY <1>5, <1>6, AlikeOf

LEMMA TimeSliceUpdateOf ==
    ASSUME NEW k, Good(k), active \in AllTask, NEW k2, k2 = TimeSliceUpdate(k)
    PROVE  Good(k2) /\ Onward(k, k2) /\ Tied(k, k2, NULL)
<1> DEFINE l == k.ready[k.tcb[active].prio]
           left == k.tcb[active].slice - 1
<1>1. k \in KState /\ k.tcb[active] \in Tcb /\ k.tcb[active].slice \in 1..TimeSlice
  BY GoodState, Fields, TcbFields
<1>2. TimeSlice \in Nat \ {0}
  BY RhinoAssumption
<1>3. CASE Len(l) <= 1
  <2>1. k2 = k
    BY <1>3 DEF TimeSliceUpdate
  <2> QED
    BY <2>1, OnwardSame, TiedSame
<1>4. CASE ~(Len(l) <= 1) /\ left > 0
  <2>1. k2 = PutSlice(k, active, left)
    BY <1>4 DEF PutSlice, TimeSliceUpdate
  <2>2. left \in 1..TimeSlice
    BY <1>1, <1>2, <1>4
  <2> HIDE DEF left
  <2>3. Good(k2) /\ Alike(k, k2) /\ Tied(k, k2, NULL)
    BY <2>1, <2>2, WithSlice
  <2> QED
    BY <2>3, AlikeOf
<1>5. CASE ~(Len(l) <= 1) /\ ~(left > 0)
  <2> DEFINE x == HeadToTail(k, active)
  <2>1. k2 = PutSlice(x, active, TimeSlice)
    BY <1>5 DEF PutSlice, TimeSliceUpdate
  <2>2. l # <<>>
    BY <1>5
  <2>3. /\ Good(x) /\ Onward(k, x)
        /\ x.tcb = k.tcb /\ x.mtx = k.mtx /\ x.live = k.live
    BY <2>2, HeadToTailOf
  <2>4. TimeSlice \in 1..TimeSlice
    BY <1>2
  <2> HIDE DEF x
  <2>5. Good(k2) /\ Alike(x, k2) /\ Tied(x, k2, NULL)
    BY <2>1, <2>3, <2>4, WithSlice
  <2>6. Tied(k, k2, NULL)
    BY <2>3, <2>5 DEF Tied
  <2> QED
    BY <2>3, <2>5, <2>6, AlikeOf, OnwardOnward
<1> QED
  BY <1>3, <1>4, <1>5

-----------------------------------------------------------------------------
(***************************************************************************)
(* The inductive invariant.  Sound is about a kernel state k and the       *)
(* blocking calls c that are not over: the lists are good; who waits,      *)
(* waits for an object that exists, and for a semaphore only while it has  *)
(* no count; who waits or sleeps is in a call, and who is in a call was    *)
(* told why it was woken, if it was; the idle task is ready.  SoundBut     *)
(* says nothing of the waiters for x, which is being deleted.  Plain: the  *)
(* default build, and nobody changes priorities.                           *)
(***************************************************************************)
Plain == ~INHERIT /\ Changes = {}

WaitOk(k, u, x) ==
    k.tcb[u].state \in Pending /\ k.tcb[u].blk_obj # x =>
        /\ k.tcb[u].blk_obj \in k.live
        /\ k.tcb[u].blk_obj \in Sem => k.count[k.tcb[u].blk_obj] = 0

CallOk(k, c, u) ==
    IF c[u] = NULL THEN k.tcb[u].state \notin Pending \cup Sleeping
    ELSE /\ k.tcb[u].state # "DELETED"
         /\ k.tcb[u].state \in {"RDY", "SUSPENDED"} => k.tcb[u].blk_state # "STALE"

SoundBut(k, c, x) ==
    /\ Good(k) /\ Timed(k)
    /\ \A u \in Task : WaitOk(k, u, x) /\ CallOk(k, c, u)
    /\ k.tcb[Idle].state = "RDY"
    /\ Plain => Flat(k)

Sound(k, c) == SoundBut(k, c, NULL)

CallType == [Task -> Obj \cup {NULL, "sleep"}]

(* A change of a priority that was checked is one that some task may make. *)
ChangeInv ==
    /\ change \in [Task -> (Task \X Prio) \cup {NULL}]
    /\ \A t \in Task :
           change[t] # NULL => <<t, change[t][1], change[t][2]>> \in Changes

Inv ==
    /\ Sound(Kernel, call)
    /\ active \in AllTask /\ tcb[active].state = "RDY"
    /\ sched_lock \in 0..MaxLock
    /\ call \in CallType
    /\ Plain => RunsHighest

LEMMA SoundLater ==
    ASSUME NEW k, NEW c, NEW x, SoundBut(k, c, x), NEW k2, Good(k2), Timed(k2), Later(k, k2)
    PROVE  SoundBut(k2, c, x)
<1>1. \A u \in AllTask : Softer(k.tcb[u], k2.tcb[u])
  BY DEF Later
<1>2. ASSUME NEW u \in Task PROVE WaitOk(k2, u, x) /\ CallOk(k2, c, u)
  <2>1. Softer(k.tcb[u], k2.tcb[u]) /\ WaitOk(k, u, x) /\ CallOk(k, c, u)
    BY <1>1, Kinds DEF SoundBut
  <2>2. k2.live = k.live /\ k2.count = k.count
    BY DEF Later
  <2>3. WaitOk(k2, u, x)
    BY <2>1, <2>2 DEF WaitOk, Softer
  <2>4. CallOk(k2, c, u)
    BY <2>1 DEF CallOk, Softer
  <2> QED
    BY <2>3, <2>4
<1>3. k2.tcb[Idle].state = "RDY"
  BY <1>1, Kinds DEF SoundBut, Softer
<1>4. Plain => Flat(k2)
  BY DEF SoundBut, Later, Plain
<1> QED
  BY <1>2, <1>3, <1>4 DEF SoundBut

LEMMA SoundOnward ==
    ASSUME NEW k, NEW c, NEW x, SoundBut(k, c, x), NEW k2, Good(k2), Onward(k, k2)
    PROVE  SoundBut(k2, c, x)
<1>1. Later(k, k2)
  BY DEF Later, Onward
<1>2. Timed(k2)
  BY DEF Timed, Onward, SoundBut
<1> QED
  BY <1>1, <1>2, SoundLater

LEMMA SoundAlike ==
    ASSUME NEW k, NEW c, NEW x, SoundBut(k, c, x), NEW k2, Alike(k, k2)
    PROVE  SoundBut(k2, c, x)
<1>1. Good(k2) /\ Onward(k, k2)
  BY AlikeOf DEF SoundBut
<1> QED
  BY <1>1, SoundOnward

(* One task moves. *)
LEMMA SoundNear ==
    ASSUME NEW k, NEW c, Sound(k, c), NEW t \in Task, NEW k2, Good(k2), Near(k, k2, t),
           Timed(k2), NEW c2, \A u \in Task \ {t} : c2[u] = c[u],
           WaitOk(k2, t, NULL), CallOk(k2, c2, t),
           Plain => k2.tcb[t].prio = k2.tcb[t].b_prio
    PROVE  Sound(k2, c2)
<1>1. \A u \in AllTask \ {t} : k2.tcb[u] = k.tcb[u]
  BY DEF Near
<1>2. ASSUME NEW u \in Task, u # t PROVE WaitOk(k2, u, NULL) /\ CallOk(k2, c2, u)
  <2>1. k2.tcb[u] = k.tcb[u] /\ c2[u] = c[u] /\ WaitOk(k, u, NULL) /\ CallOk(k, c, u)
    BY <1>1, <1>2, Kinds DEF Sound, SoundBut
  <2>2. k2.live = k.live /\ k2.count = k.count
    BY DEF Near
  <2> QED
    BY <2>1, <2>2 DEF WaitOk, CallOk
<1>3. k2.tcb[Idle].state = "RDY"
  BY <1>1, Kinds DEF Sound, SoundBut
<1>4. Plain => Flat(k2)
  BY <1>1 DEF Sound, SoundBut, Flat
<1> QED
  BY <1>2, <1>3, <1>4 DEF Sound, SoundBut

(* The deleted object has no waiters left. *)
LEMMA SoundWithout ==
    ASSUME NEW k, NEW c, NEW x \in Obj, SoundBut(k, c, x), k.waitq[x] = <<>>
    PROVE  Sound(k, c)
<1>1. \A u \in Task : ~(k.tcb[u].state \in Pending /\ k.tcb[u].blk_obj = x)
  <2>1. WaitPart(k, NULL)
    BY DEF SoundBut, Good, But
  <2>2. Range(k.waitq[x]) = {}
    BY DEF Range
  <2> QED
    BY <2>1, <2>2, Kinds DEF WaitPart
<1>2. \A u \in Task : WaitOk(k, u, NULL)
  BY <1>1 DEF SoundBut, WaitOk
<1> QED
  BY <1>2 DEF Sound, SoundBut

(* Of the ready lists that are not empty there is a first one. *)
LEMMA PreferredOf ==
    ASSUME NEW k, Good(k), k.tcb[Idle].state = "RDY"
    PROVE  /\ Preferred(k) \in AllTask
           /\ k.tcb[Preferred(k)].state = "RDY"
           /\ \A t \in AllTask : k.tcb[t].state = "RDY" => k.tcb[Preferred(k)].prio <= k.tcb[t].prio
<1> DEFINE S == {p \in Prio : k.ready[p] # <<>>}
           h == HighestPri(k)
<1>1. k \in KState /\ ReadyPart(k, NULL)
  BY DEF Good, But
<1>2. k.ready \in [Prio -> Seq(AllTask)] /\ k.tcb[Idle].prio \in Prio
  BY <1>1, Fields, TcbFields, Kinds
<1>3. S # {}
  <2>1. Idle \in Range(k.ready[k.tcb[Idle].prio])
    BY <1>1, <1>2, Kinds DEF ReadyPart
  <2>2. k.ready[k.tcb[Idle].prio] # <<>>
    BY <2>1 DEF Range
  <2> QED
    BY <1>2, <2>2
<1>4. S \in SUBSET Nat /\ S \subseteq Prio
  BY Kinds
<1>5. \A p \in Prio : p \notin S => k.ready[p] = <<>>
  OBVIOUS
<1>6. \A p \in S : k.ready[p] # <<>>
  OBVIOUS
<1>7. h = CHOOSE p \in Prio : /\ k.ready[p] # <<>>
                              /\ \A q \in 0..(p-1) : k.ready[q] = <<>>
  BY DEF HighestPri
<1> HIDE DEF S, h
<1>8. Min(S) \in S /\ \A y \in S : Min(S) <= y
  BY <1>3, <1>4, LeastOf
<1>9. \A q \in 0..(Min(S)-1) : k.ready[q] = <<>>
  <2> SUFFICES ASSUME NEW q \in 0..(Min(S)-1) PROVE k.ready[q] = <<>>
    OBVIOUS
  <2>1. Min(S) \in 0..IdlePri /\ IdlePri \in Nat
    BY <1>4, <1>8, Kinds
  <2>2. q \in 0..IdlePri /\ ~(Min(S) <= q)
    BY <2>1
  <2>3. q \in Prio /\ q \notin S
    BY <1>8, <2>2, Kinds
  <2> QED
    BY <1>5, <2>3
<1>10. h \in Prio /\ k.ready[h] # <<>> /\ \A q \in 0..(h-1) : k.ready[q] = <<>>
  BY <1>4, <1>6, <1>7, <1>8, <1>9
<1>11. k.ready[h] \in Seq(AllTask)
  BY <1>2, <1>10
<1>12. Head(k.ready[h]) \in AllTask /\ Head(k.ready[h]) \in Range(k.ready[h])
  BY <1>10, <1>11 DEF Range
<1>13. Preferred(k) = Head(k.ready[h])
  BY DEF Preferred, h
<1>14. /\ Preferred(k) \in AllTask /\ k.tcb[Preferred(k)].state = "RDY"
       /\ k.tcb[Preferred(k)].prio = h
  BY <1>1, <1>10, <1>12, <1>13, Kinds DEF ReadyPart
<1>15. ASSUME NEW t \in AllTask, k.tcb[t].state = "RDY"
       PROVE  h <= k.tcb[t].prio
  <2>1. k.tcb[t].prio \in Prio
    BY <1>1, <1>15, Fields, TcbFields, Kinds
  <2>2. k.ready[k.tcb[t].prio] # <<>>
    <3>1. t \in Range(k.ready[k.tcb[t].prio])
      BY <1>1, <1>15, <2>1, Kinds DEF ReadyPart
    <3> QED
      BY <3>1 DEF Range
  <2>3. k.tcb[t].prio \notin 0..(h-1)
    BY <1>10, <2>2
  <2>4. h \in Nat /\ k.tcb[t].prio \in Nat
    BY <1>10, <2>1, Kinds
  <2> QED
    BY <2>3, <2>4
<1> QED
  BY <1>14, <1>15

LEMMA BecomeOf ==
    ASSUME NEW k \in KState, Become(k)
    PROVE  Kernel' = k
BY DEF KState, Become, Kernel

(* A call that ends with core_sched: it is enough that the lists are good. *)
LEMMA Scheduled ==
    ASSUME NEW k, NEW lock, Sound(k, call'), CoreSched(k, lock), lock \in 0..MaxLock,
           call' \in CallType, active \in AllTask, lock # 0 => k.tcb[active].state = "RDY"
    PROVE  Inv'
<1>1. Good(k) /\ k.tcb[Idle].state = "RDY" /\ k \in KState
  BY GoodState DEF Sound, SoundBut
<1>2. Kernel' = k /\ tcb' = k.tcb
  BY <1>1, BecomeOf DEF CoreSched, Become
<1>3. sched_lock' = lock /\ active' = IF lock = 0 THEN Preferred(k) ELSE active
  BY DEF CoreSched
<1>4. active' \in AllTask /\ tcb'[active'].state = "RDY"
  BY <1>1, <1>2, <1>3, PreferredOf
<1>5. Sound(Kernel', call')
  BY <1>2
<1>6. RunsHighest'
  <2>1. sched_lock' = 0 => active' = Preferred(Kernel')
    BY <1>2, <1>3
  <2> QED
    BY <2>1 DEF RunsHighest, Preferred, HighestPri, Kernel
<1> QED
  BY <1>3, <1>4, <1>5, <1>6 DEF Inv, Kernel

(* A call that ends without it: the running task goes on, and in the       *)
(* default build nothing is queued before it.                              *)
LEMMA Stays ==
    ASSUME Inv, NEW k, Sound(k, call'), Become(k), call' \in CallType,
           UNCHANGED <<active, sched_lock>>, k.tcb[active].state = "RDY",
           Plain => k.ready = ready
    PROVE  Inv'
<1>1. k \in KState
  BY GoodState DEF Sound, SoundBut
<1>2. Kernel' = k /\ tcb' = k.tcb /\ ready' = k.ready
  BY <1>1, BecomeOf DEF Become
<1>3. active' \in AllTask /\ tcb'[active'].state = "RDY" /\ sched_lock' \in 0..MaxLock
  BY <1>2 DEF Inv
<1>4. Sound(Kernel', call')
  BY <1>2
<1>5. Plain => RunsHighest'
  <2>1. ASSUME Plain PROVE sched_lock' = 0 => active' = Preferred(Kernel)'
    <3>1. ready' = ready
      BY <1>2, <2>1
    <3>2. sched_lock = 0 => active = Preferred(Kernel)
      BY <2>1 DEF Inv, RunsHighest
    <3> QED
      BY <3>1, <3>2 DEF Preferred, HighestPri, Kernel
  <2> QED
    BY <2>1 DEF RunsHighest
<1> QED
  BY <1>3, <1>4, <1>5 DEF Inv, Kernel

LEMMA KernelIs ==
    /\ Kernel.tcb = tcb /\ Kernel.ready = ready /\ Kernel.tick = tick
    /\ Kernel.waitq = waitq /\ Kernel.live = live /\ Kernel.mtx = mtx
    /\ Kernel.count = count /\ Kernel.kerr = kerr
BY DEF Kernel

LEMMA InvHas ==
    ASSUME Inv
    PROVE  /\ Sound(Kernel, call) /\ Good(Kernel) /\ Kernel \in KState
           /\ active \in AllTask /\ tcb[active].state = "RDY"
           /\ sched_lock \in 0..MaxLock /\ call \in CallType
BY GoodState DEF Inv, Sound, SoundBut

LEMMA Rescheduled ==
    ASSUME Inv, NEW k, Sound(k, call), sched_lock # 0 => k.tcb[active].state = "RDY",
           Resched(k)
    PROVE  Inv'
<1>1. Sound(k, call') /\ CoreSched(k, sched_lock) /\ call' \in CallType
  BY InvHas DEF Resched
<1> QED
  BY <1>1, InvHas, Scheduled

(* What an action computed moves on from Kernel: the running task, if it   *)
(* must go on, is ready still.                                             *)
LEMMA Resumed ==
    ASSUME Inv, NEW k, Good(k), Onward(Kernel, k), Resched(k)
    PROVE  Inv'
<1>1. Sound(k, call)
  BY InvHas, SoundOnward DEF Sound
<1>2. k.tcb[active].state = "RDY"
  BY InvHas, KernelIs DEF Onward, Softer
<1> QED
  BY <1>1, <1>2, Rescheduled

LEMMA Continued ==
    ASSUME Inv, NEW k, Good(k), Onward(Kernel, k), NoResched(k), Plain => k.ready = ready
    PROVE  Inv'
<1>1. Sound(k, call)
  BY InvHas, SoundOnward DEF Sound
<1>2. Sound(k, call') /\ Become(k) /\ UNCHANGED <<active, sched_lock>> /\ call' \in CallType
  BY <1>1, InvHas DEF NoResched
<1>3. k.tcb[active].state = "RDY"
  BY InvHas, KernelIs DEF Onward, Softer
<1> QED
  BY <1>2, <1>3, Stays

LEMMA ContinuedAlike ==
    ASSUME Inv, NEW k, Alike(Kernel, k), NoResched(k)
    PROVE  Inv'
<1>1. Good(k) /\ Onward(Kernel, k)
  BY InvHas, AlikeOf
<1>2. k.ready = ready
  BY KernelIs DEF Alike
<1> QED
  BY <1>1, <1>2, Continued

(* Only objects change, and they suit the tasks that wait. *)
LEMMA ObjectsSet ==
    ASSUME Inv, NEW k \in KState, k.tcb = tcb, k.ready = ready, k.tick = tick, k.waitq = waitq,
           \A u \in Task : WaitOk(k, u, NULL), NoResched(k)
    PROVE  Inv'
<1>1. Good(k)
  BY InvHas, KernelIs, GoodSame
<1>2. Sound(k, call)
  BY <1>1, InvHas, KernelIs DEF Sound, SoundBut, CallOk, Timed, Flat
<1>3. Sound(k, call') /\ Become(k) /\ UNCHANGED <<active, sched_lock>> /\ call' \in CallType
  BY <1>2, InvHas DEF NoResched
<1> QED
  BY <1>3, InvHas, Stays

(* Nobody waits for an object that is not live, for a semaphore with a     *)
(* count, or for an object whose list is empty.                            *)
LEMMA Unwaited ==
    ASSUME Inv, NEW o \in Obj,
           \/ o \notin live
           \/ o \in Sem /\ count[o] # 0
           \/ waitq[o] = <<>>
    PROVE  \A u \in Task : ~(tcb[u].state \in Pending /\ tcb[u].blk_obj = o)
<1> SUFFICES ASSUME NEW u \in Task, tcb[u].state \in Pending, tcb[u].blk_obj = o
             PROVE  FALSE
  OBVIOUS
<1>1. WaitOk(Kernel, u, NULL) /\ WaitPart(Kernel, NULL)
  BY InvHas DEF Sound, SoundBut, Good, But
<1>2. o # NULL /\ u # NULL
  BY Kinds
<1>3. o \in live /\ (o \in Sem => count[o] = 0)
  BY <1>1, <1>2, KernelIs DEF WaitOk
<1>4. u \in Range(waitq[o])
  BY <1>1, <1>2, KernelIs DEF WaitPart
<1>5. waitq[o] # <<>>
  BY <1>4 DEF Range
<1> QED
  BY <1>3, <1>5

LEMMA WaitKept ==
    ASSUME Inv, NEW o \in Obj, \A u \in Task : ~(tcb[u].state \in Pending /\ tcb[u].blk_obj = o),
           NEW k, k.tcb = tcb, live \ {o} \subseteq k.live,
           \A s \in Sem \ {o} : k.count[s] = count[s]
    PROVE  \A u \in Task : WaitOk(k, u, NULL)
<1> SUFFICES ASSUME NEW u \in Task PROVE WaitOk(k, u, NULL)
  OBVIOUS
<1>1. WaitOk(Kernel, u, NULL)
  BY InvHas DEF Sound, SoundBut
<1> QED
  BY <1>1, KernelIs DEF WaitOk

-----------------------------------------------------------------------------
(* Mutex actions. *)

LEMMA MutexCreateKeeps ==
    ASSUME Inv, NEW t \in Task, NEW m \in Mutex, MutexCreate(t, m)
    PROVE  Inv'
<1> DEFINE k == [Kernel EXCEPT !.live = @ \cup {m}, !.mtx[m] = FreeMutex]
<1>1. m \notin live /\ NoResched(k) /\ m \in Obj
  BY Kinds DEF MutexCreate
<1>2. FreeMutex \in MutexRecord
  BY KernelAssumption DEF FreeMutex, MutexRecord
<1>3. /\ k \in KState /\ k.tcb = tcb /\ k.ready = ready /\ k.tick = tick /\ k.waitq = waitq
      /\ k.live = live \cup {m} /\ k.count = count
  BY <1>1, <1>2, InvHas, KernelIs DEF KState
<1> HIDE DEF k
<1>4. \A u \in Task : ~(tcb[u].state \in Pending /\ tcb[u].blk_obj = m)
  BY <1>1, Unwaited
<1>5. \A u \in Task : WaitOk(k, u, NULL)
  BY <1>1, <1>3, <1>4, WaitKept
<1> QED
  BY <1>1, <1>3, <1>5, ObjectsSet

LEMMA MutexLockNestedKeeps ==
    ASSUME Inv, NEW t \in Task, NEW m \in Mutex, MutexLockNested(t, m)
    PROVE  Inv'
<1> DEFINE n == mtx[m].nested + 1
           k == [Kernel EXCEPT !.mtx[m].nested = n]
<1>1. NoResched([Kernel EXCEPT !.mtx[m].nested = @ + 1]) /\ mtx[m].nested < MaxNested
  BY DEF MutexLockNested
<1>2. NoResched(k)
  BY <1>1, KernelIs
<1>3. n \in 0..MaxNested
  BY <1>1, InvHas, KernelIs, MutexFields, KernelAssumption
<1> HIDE DEF n
<1>4. Alike(Kernel, k)
  BY <1>3, InvHas, WithNested
<1> HIDE DEF k
<1> QED
  BY <1>2, <1>4, ContinuedAlike

LEMMA MutexLockOverflowKeeps ==
    ASSUME Inv, NEW t \in Task, NEW m \in Mutex, MutexLockOverflow(t, m)
    PROVE  Inv'
<1> DEFINE k == [Kernel EXCEPT !.kerr = "MUTEX_NESTED_OVF"]
<1>1. NoResched(k)
  BY DEF MutexLockOverflow
<1>2. Alike(Kernel, k)
  BY InvHas, ErrorOf DEF KernelError
<1> HIDE DEF k
<1> QED
  BY <1>1, <1>2, ContinuedAlike

LEMMA MutexUnlockNestedKeeps ==
    ASSUME Inv, NEW t \in Task, NEW m \in Mutex, MutexUnlockNested(t, m)
    PROVE  Inv'
<1> DEFINE n == mtx[m].nested - 1
           k == [Kernel EXCEPT !.mtx[m].nested = n]
<1>1. NoResched([Kernel EXCEPT !.mtx[m].nested = @ - 1]) /\ mtx[m].nested > 1
  BY DEF MutexUnlockNested
<1>2. NoResched(k)
  BY <1>1, KernelIs
<1>3. n \in 0..MaxNested
  BY <1>1, InvHas, KernelIs, MutexFields, KernelAssumption
<1> HIDE DEF n
<1>4. Alike(Kernel, k)
  BY <1>3, InvHas, WithNested
<1> HIDE DEF k
<1> QED
  BY <1>2, <1>4, ContinuedAlike

LEMMA MutexLockFreeKeeps ==
    ASSUME Inv, NEW t \in Task, NEW m \in Mutex, MutexLockFree(t, m)
    PROVE  Inv'
<1> DEFINE x == [Kernel EXCEPT !.mtx[m].task = t]
           y == [x EXCEPT !.mtx[m].nested = 1]
           k == PushMutex(y, t, m)
<1>1. NoResched(k)
  <2>1. y = [Kernel EXCEPT !.mtx[m].task = t, !.mtx[m].nested = 1]
    OBVIOUS
  <2> QED
    BY <2>1 DEF MutexLockFree
<1>2. 1 \in 0..MaxNested
  BY KernelAssumption
<1>3. Good(x) /\ Alike(Kernel, x)
  BY InvHas, WithOwner
<1> HIDE DEF x
<1>4. Good(y) /\ Alike(x, y)
  BY <1>2, <1>3, WithNested
<1> HIDE DEF y
<1>5. Alike(y, k)
  BY <1>4, PushMutexOf
<1> HIDE DEF k
<1>6. Alike(Kernel, k)
  BY <1>3, <1>4, <1>5, AlikeAlike
<1> QED
  BY <1>1, <1>6, ContinuedAlike

(* The running task waits for o. *)
LEMMA Blocked ==
    ASSUME NEW k, NEW c, Sound(k, c), NEW t \in Task, k.tcb[t].state = "RDY",
           NEW o \in k.live, o \in Obj, o \in Sem => k.count[o] = 0, NEW n \in Timeouts,
           NEW k2, k2 = PendToBlkObj(k, o, t, n), NEW c2, c2[t] = o,
           \A u \in Task \ {t} : c2[u] = c[u]
    PROVE  /\ Sound(k2, c2) /\ Near(k, k2, t)
           /\ k2.tcb[t].state = "PEND" /\ k2.tcb[t].blk_obj = o
           /\ k2.tcb[t].mutex_list = k.tcb[t].mutex_list
           /\ k2.tcb[t].prio = k.tcb[t].prio /\ k2.tcb[t].b_prio = k.tcb[t].b_prio
<1> DEFINE x1 == PutBlkObj(k, t, o)
           x2 == IF n = WAIT_FOREVER THEN x1 ELSE TickInsert(x1, t, n)
           x3 == PutState(x2, t, "PEND")
           x4 == ReadyRm(x3, t)
<1>1. Good(k) /\ Timed(k)
  BY DEF Sound, SoundBut
<1>2. /\ But(k, t) /\ ReadyAs(k, t) /\ WaitAs(k, t) /\ TickAs(k, t) /\ k.tcb[t] \in Tcb
  BY <1>1, TakeUp
<1>3. k2 = PendListAdd(x4, o, t)
  BY DEF PendToBlkObj, PutBlkObj, PutState
<1>4. /\ But(x1, t) /\ Near(k, x1, t) /\ x1.tcb[t] = TcbBlkObj(k.tcb[t], o)
      /\ x1.ready = k.ready /\ x1.waitq = k.waitq /\ x1.tick = k.tick
  BY <1>2, States, SetBlkObj
<1> HIDE DEF x1
<1>5. t \notin TickTasks(x1)
  BY <1>2, <1>4, States DEF TickAs, TickTasks
<1>6. /\ But(x2, t) /\ Near(x1, x2, t) /\ x2.tcb = x1.tcb
      /\ x2.ready = x1.ready /\ x2.waitq = x1.waitq /\ Timed(x2)
  <2>1. CASE n = WAIT_FOREVER
    BY <1>1, <1>4, <2>1 DEF Near, Timed
  <2>2. CASE n # WAIT_FOREVER
    <3>1. n \in Nat /\ n > 0 /\ x2 = TickInsert(x1, t, n)
      BY <2>2, KernelAssumption
    <3> HIDE DEF x2
    <3>2. /\ But(x2, t) /\ Near(x1, x2, t) /\ x2.tcb = x1.tcb
          /\ x2.ready = x1.ready /\ x2.waitq = x1.waitq
          /\ Range(x2.tick) = Range(x1.tick) \cup {[task |-> t, left |-> n]}
      BY <1>4, <1>5, <3>1, TickInsertOf
    <3>3. Timed(x2)
      BY <1>1, <1>4, <3>1, <3>2 DEF Timed
    <3> QED
      BY <3>2, <3>3
  <2> QED
    BY <2>1, <2>2
<1> HIDE DEF x2
<1>7. x2.tcb[t].blk_obj = o /\ x2.tcb[t].prio = k.tcb[t].prio
      /\ x2.tcb[t].b_prio = k.tcb[t].b_prio /\ x2.tcb[t] \in Tcb
      /\ x2.tcb[t].mutex_list = k.tcb[t].mutex_list
  <2>1. x2 \in KState /\ t \in AllTask
    BY <1>6, Kinds DEF But
  <2>2. x2.tcb[t] \in Tcb
    BY <2>1, Fields
  <2> QED
    BY <1>2, <1>4, <1>6, <2>2 DEF TcbBlkObj, Tcb
<1>8. "PEND" \in TaskState /\ "PEND" \notin Suspended /\ "PEND" \in Pending
  BY States
<1>9. /\ But(x3, t) /\ Near(x2, x3, t) /\ x3.tcb[t] = TcbState(x2.tcb[t], "PEND")
      /\ x3.ready = x2.ready /\ x3.waitq = x2.waitq /\ x3.tick = x2.tick
  BY <1>6, <1>7, <1>8, SetState
<1> HIDE DEF x3
<1>10. /\ x3.tcb[t].state = "PEND" /\ x3.tcb[t].blk_obj = o
       /\ x3.tcb[t].prio = k.tcb[t].prio /\ x3.tcb[t].b_prio = k.tcb[t].b_prio
       /\ x3.tcb[t].mutex_list = k.tcb[t].mutex_list
  BY <1>7, <1>9 DEF TcbState, Tcb
<1>11. InReady(x3, t) \subseteq {x3.tcb[t].prio} /\ InWait(x3, t) = {}
  BY <1>2, <1>4, <1>6, <1>9, <1>10, States DEF InReady, InWait, ReadyAs, WaitAs
<1>12. /\ But(x4, t) /\ Near(x3, x4, t) /\ x4.tcb = x3.tcb
       /\ x4.waitq = x3.waitq /\ x4.tick = x3.tick /\ InReady(x4, t) = {}
  BY <1>9, <1>11, ReadyRmOf
<1> HIDE DEF x4
<1>13. InWait(x4, t) = {}
  BY <1>11, <1>12 DEF InWait
<1>14. /\ But(k2, t) /\ Near(x4, k2, t) /\ k2.tcb = x4.tcb
       /\ k2.ready = x4.ready /\ k2.tick = x4.tick /\ InWait(k2, t) = {o}
       /\ Ordered(k2.waitq[o], PrioOf(k2))
  BY <1>3, <1>12, <1>13, PendListAddOf
<1>15. k2.tcb[t].state = "PEND" /\ k2.tcb[t].blk_obj = o /\ k2.tcb[t].prio = k.tcb[t].prio
       /\ k2.tcb[t].b_prio = k.tcb[t].b_prio /\ k2.tcb[t].mutex_list = k.tcb[t].mutex_list
  BY <1>10, <1>12, <1>14
<1>16. ReadyAs(k2, t) /\ WaitAs(k2, t) /\ TickAs(k2, t)
  <2>1. InReady(k2, t) = {}
    BY <1>12, <1>14 DEF InReady
  <2> QED
    BY <1>14, <1>15, <2>1, States DEF ReadyAs, WaitAs, TickAs
<1>17. Good(k2)
  BY <1>14, <1>16, PutDown
<1>18. Near(k, k2, t)
  BY <1>4, <1>6, <1>9, <1>12, <1>14, NearNear
<1>19. Timed(k2)
  BY <1>6, <1>9, <1>12, <1>14 DEF Timed
<1>20. WaitOk(k2, t, NULL) /\ CallOk(k2, c2, t)
  <2>1. k2.live = k.live /\ k2.count = k.count /\ o # NULL
    BY <1>18, Kinds DEF Near
  <2> QED
    BY <1>15, <2>1, States DEF WaitOk, CallOk
<1>21. Plain => k2.tcb[t].prio = k2.tcb[t].b_prio
  BY <1>15, Kinds DEF Sound, SoundBut, Flat
<1>22. Sound(k2, c2)
  BY <1>17, <1>18, <1>19, <1>20, <1>21, SoundNear
<1> QED
  BY <1>15, <1>18, <1>22

CallSet(t, o) ==
    /\ call' \in CallType /\ call'[t] = o
    /\ \A u \in Task \ {t} : call'[u] = call[u]

LEMMA CallSetOf ==
    ASSUME Inv, NEW t \in Task, NEW o \in Obj \cup {NULL, "sleep"},
           call' = [call EXCEPT ![t] = o]
    PROVE  CallSet(t, o)
BY InvHas DEF CallType, CallSet

LEMMA BlockedKeeps ==
    ASSUME Inv, NEW k, Good(k), Onward(Kernel, k), NEW t \in Task, t = active,
           NEW o \in live, o \in Obj, o \in Sem => count[o] = 0, NEW n \in Timeouts,
           sched_lock = 0, CoreSched(PendToBlkObj(k, o, t, n), 0), CallSet(t, o)
    PROVE  Inv'
<1> DEFINE k2 == PendToBlkObj(k, o, t, n)
<1>1. Sound(k, call)
  BY InvHas, SoundOnward DEF Sound
<1>2. /\ k.tcb[t].state = "RDY" /\ o \in k.live /\ (o \in Sem => k.count[o] = 0)
  BY InvHas, KernelIs DEF Onward, Softer
<1>3. /\ call' \in CallType /\ call'[t] = o /\ \A u \in Task \ {t} : call'[u] = call[u]
  BY DEF CallSet
<1>4. CoreSched(k2, 0)
  OBVIOUS
<1>5. Sound(k2, call')
  BY <1>1, <1>2, <1>3, Blocked
<1> HIDE DEF k2
<1> QED
  BY <1>3, <1>4, <1>5, InvHas, Scheduled

LEMMA MutexLockPendKeeps ==
    ASSUME Inv, NEW t \in Task, NEW m \in Mutex, NEW n \in Timeouts, MutexLockPend(t, m, n)
    PROVE  Inv'
<1> DEFINE owner == mtx[m].task
           k == IF INHERIT /\ tcb[t].prio < tcb[owner].prio
                THEN TaskPriChange(Kernel, owner, tcb[t].prio) ELSE Kernel
<1>1. /\ t = active /\ m \in live /\ owner \notin {NULL, t} /\ sched_lock = 0
      /\ CoreSched(PendToBlkObj(k, m, t, n), 0) /\ call' = [call EXCEPT ![t] = m]
  BY DEF MutexLockPend, Runs
<1>2. owner \in Task /\ tcb[t].prio \in Prio /\ m \in Obj /\ m \notin Sem
  BY <1>1, InvHas, KernelIs, MutexFields, Fields, TcbFields, Kinds
<1>3. CallSet(t, m)
  BY <1>1, <1>2, CallSetOf
<1> HIDE DEF owner
<1>4. Good(k) /\ Onward(Kernel, k)
  <2>1. CASE INHERIT /\ tcb[t].prio < tcb[owner].prio
    <3>1. k = TaskPriChange(Kernel, owner, tcb[t].prio)
      BY <2>1
    <3> HIDE DEF k
    <3>2. Good(k) /\ Reprio(Kernel, k)
      BY <1>2, <3>1, InvHas, TaskPriChangeOf
    <3> QED
      BY <2>1, <3>2, InvHas, ReprioOnward
  <2>2. CASE ~(INHERIT /\ tcb[t].prio < tcb[owner].prio)
    <3>1. k = Kernel
      BY <2>2
    <3> QED
      BY <3>1, InvHas, OnwardSame
  <2> QED
    BY <2>1, <2>2
<1> HIDE DEF k
<1> QED
  BY <1>1, <1>2, <1>3, <1>4, BlockedKeeps

LEMMA MutexUnlockKeeps ==
    ASSUME Inv, NEW t \in Task, NEW m \in Mutex, MutexUnlock(t, m)
    PROVE  Inv'
<1> DEFINE down == [Kernel EXCEPT !.mtx[m].nested = 0]
           k == MutexRelease(down, t, m)
           free == [k EXCEPT !.mtx[m].task = NULL]
           given == HandOver(k, m)
           once == [given EXCEPT !.mtx[m].nested = 1]
<1>1. IF waitq[m] = <<>> THEN NoResched(free) ELSE Resched(once)
  BY DEF MutexUnlock
<1>2. 0 \in 0..MaxNested /\ 1 \in 0..MaxNested
  BY KernelAssumption
<1>3. Good(down) /\ Alike(Kernel, down)
  BY <1>2, InvHas, WithNested
<1>4. Onward(Kernel, down) /\ down.waitq = waitq /\ down.ready = ready
  BY <1>3, InvHas, KernelIs, AlikeOf DEF Alike
<1> HIDE DEF down
<1>5. /\ Good(k) /\ Onward(down, k) /\ Placed(down, k)
      /\ (~INHERIT /\ Flat(down) => k = down)
  BY <1>3, Kinds, MutexReleaseOf
<1>6. Onward(Kernel, k)
  BY <1>4, <1>5, OnwardOnward
<1> HIDE DEF k
<1>7. CASE waitq[m] = <<>>
  <2>1. NoResched(free)
    BY <1>1, <1>7
  <2>2. Good(free) /\ Alike(k, free)
    BY <1>5, WithOwner
  <2>3. Onward(Kernel, free)
    BY <1>5, <1>6, <2>2, AlikeOf, OnwardOnward
  <2>4. Plain => free.ready = ready
    <3>1. Plain => Flat(Kernel) /\ ~INHERIT
      BY InvHas DEF Sound, SoundBut, Plain
    <3> QED
      BY <1>4, <1>5, <2>2, <3>1 DEF Onward, Alike
  <2> HIDE DEF free
  <2> QED
    BY <2>1, <2>2, <2>3, <2>4, Continued
<1>8. CASE waitq[m] # <<>>
  <2>1. Resched(once)
    BY <1>1, <1>8
  <2>2. k.waitq[m] # <<>>
    BY <1>3, <1>4, <1>5, <1>8, Kinds, PlacedWaits
  <2>3. Good(given) /\ Onward(k, given)
    BY <1>5, <2>2, HandOverOf
  <2> HIDE DEF given
  <2>4. Good(once) /\ Alike(given, once)
    BY <1>2, <2>3, WithNested
  <2> HIDE DEF once
  <2>5. Onward(Kernel, once)
    BY <1>6, <2>3, <2>4, AlikeOf, OnwardOnward
  <2> QED
    BY <2>1, <2>4, <2>5, Resumed
<1> QED
  BY <1>7, <1>8

LEMMA DeadObject ==
    ASSUME Inv, NEW o \in Obj
    PROVE  LET dead == [Kernel EXCEPT !.live = @ \ {o}]
           IN  SoundBut(dead, call, o) /\ dead.tcb = tcb
<1> DEFINE dead == [Kernel EXCEPT !.live = @ \ {o}]
<1>1. /\ dead \in KState /\ dead.tcb = Kernel.tcb /\ dead.ready = Kernel.ready
      /\ dead.tick = Kernel.tick /\ dead.waitq = Kernel.waitq
      /\ dead.live = Kernel.live \ {o} /\ dead.count = Kernel.count
  BY InvHas DEF KState
<1> HIDE DEF dead
<1>2. Good(dead)
  BY <1>1, InvHas, GoodSame
<1>3. ASSUME NEW u \in Task PROVE WaitOk(dead, u, o) /\ CallOk(dead, call, u)
  <2>1. WaitOk(Kernel, u, NULL) /\ CallOk(Kernel, call, u)
    BY InvHas DEF Sound, SoundBut
  <2>2. Kernel.tcb[u].state \in Pending => Kernel.tcb[u].blk_obj # NULL
    BY InvHas, Fields, TcbFields, Kinds
  <2> QED
    BY <1>1, <2>1, <2>2 DEF WaitOk, CallOk
<1>4. SoundBut(dead, call, o) /\ dead.tcb = tcb
  BY <1>1, <1>2, <1>3, InvHas, KernelIs DEF Sound, SoundBut, Timed, Flat
<1> QED
  BY <1>4 DEF dead

LEMMA MutexDelKeeps ==
    ASSUME Inv, NEW t \in Task, NEW m \in Mutex, MutexDel(t, m)
    PROVE  Inv'
<1> DEFINE dead == [Kernel EXCEPT !.live = @ \ {m}]
           owner == mtx[m].task
           k == IF owner = NULL THEN dead ELSE MutexRelease(dead, owner, m)
           k2 == PendRmAll(k, m)
<1>1. Resched(k2)
  BY DEF MutexDel
<1>2. owner \in Task \cup {NULL} /\ m \in Obj
  BY InvHas, KernelIs, MutexFields, Kinds
<1>3. SoundBut(dead, call, m) /\ dead.tcb = tcb
  BY <1>2, DeadObject
<1> HIDE DEF dead, owner
<1>4. Good(k) /\ Onward(dead, k)
  <2>1. Good(dead)
    BY <1>3 DEF SoundBut
  <2>2. CASE owner = NULL
    BY <2>1, <2>2, OnwardSame
  <2>3. CASE owner # NULL
    <3>1. k = MutexRelease(dead, owner, m)
      BY <2>3
    <3> HIDE DEF k
    <3> QED
      BY <1>2, <2>1, <2>3, <3>1, MutexReleaseOf
  <2> QED
    BY <2>2, <2>3
<1> HIDE DEF k
<1>5. Good(k2) /\ Onward(k, k2) /\ k2.waitq[m] = <<>>
  BY <1>2, <1>4, PendRmAllOf
<1> HIDE DEF k2
<1>6. Onward(dead, k2)
  BY <1>4, <1>5, OnwardOnward
<1>7. Sound(k2, call)
  BY <1>2, <1>3, <1>5, <1>6, SoundOnward, SoundWithout
<1>8. k2.tcb[active].state = "RDY"
  BY <1>3, <1>6, InvHas DEF Onward, Softer
<1> QED
  BY <1>1, <1>7, <1>8, Rescheduled

-----------------------------------------------------------------------------
(* Semaphore actions. *)

LEMMA CountKeeps ==
    ASSUME Inv, NEW s \in Sem, NEW n \in 0..MaxCount, NEW L, L \in {live, live \cup {s}},
           s \notin live \/ count[s] # 0 \/ waitq[s] = <<>>,
           NoResched([Kernel EXCEPT !.live = L, !.count[s] = n])
    PROVE  Inv'
<1> DEFINE k == [Kernel EXCEPT !.live = L, !.count[s] = n]
<1>1. NoResched(k) /\ s \in Obj
  BY Kinds
<1>2. /\ k \in KState /\ k.tcb = tcb /\ k.ready = ready /\ k.tick = tick /\ k.waitq = waitq
      /\ live \ {s} \subseteq k.live /\ \A x \in Sem \ {s} : k.count[x] = count[x]
  BY <1>1, InvHas, KernelIs DEF KState
<1> HIDE DEF k
<1>3. \A u \in Task : ~(tcb[u].state \in Pending /\ tcb[u].blk_obj = s)
  BY <1>1, Unwaited
<1>4. \A u \in Task : WaitOk(k, u, NULL)
  BY <1>1, <1>2, <1>3, WaitKept
<1> QED
  BY <1>1, <1>2, <1>4, ObjectsSet

LEMMA SemCreateKeeps ==
    ASSUME Inv, NEW t \in Task, NEW s \in Sem, SemCreate(t, s)
    PROVE  Inv'
<1>1. PICK n \in 0..MaxCount : NoResched([Kernel EXCEPT !.live = @ \cup {s}, !.count[s] = n])
  BY DEF SemCreate
<1>2. s \notin live
  BY DEF SemCreate
<1> DEFINE L == live \cup {s}
<1>3. NoResched([Kernel EXCEPT !.live = L, !.count[s] = n])
  BY <1>1, KernelIs
<1>4. L \in {live, live \cup {s}}
  OBVIOUS
<1> HIDE DEF L
<1> QED
  BY <1>2, <1>3, <1>4, CountKeeps

LEMMA CountIn ==
    ASSUME Inv, NEW s \in Sem
    PROVE  count[s] \in 0..MaxCount
BY InvHas, KernelIs, Fields

LEMMA LiveSame ==
    ASSUME Inv, NEW s \in Sem, NEW n
    PROVE  [Kernel EXCEPT !.count[s] = n] = [Kernel EXCEPT !.live = live, !.count[s] = n]
BY InvHas, KernelIs DEF KState

LEMMA SemTakeKeeps ==
    ASSUME Inv, NEW t \in Task, NEW s \in Sem, SemTake(t, s)
    PROVE  Inv'
<1> DEFINE n == count[s] - 1
<1>1. count[s] > 0 /\ NoResched([Kernel EXCEPT !.count[s] = n])
  BY KernelIs DEF SemTake
<1>2. count[s] \in 0..MaxCount /\ MaxCount \in Nat
  BY CountIn, KernelAssumption
<1>3. n \in 0..MaxCount /\ count[s] # 0
  BY <1>1, <1>2
<1> HIDE DEF n
<1>4. NoResched([Kernel EXCEPT !.live = live, !.count[s] = n])
  BY <1>1, LiveSame
<1> QED
  BY <1>3, <1>4, CountKeeps

LEMMA SemTakePendKeeps ==
    ASSUME Inv, NEW t \in Task, NEW s \in Sem, NEW n \in Timeouts, SemTakePend(t, s, n)
    PROVE  Inv'
<1>1. /\ t = active /\ s \in live /\ count[s] = 0 /\ sched_lock = 0
      /\ CoreSched(PendToBlkObj(Kernel, s, t, n), 0) /\ call' = [call EXCEPT ![t] = s]
  BY DEF SemTakePend, Runs
<1>2. s \in Obj
  BY Kinds
<1>3. CallSet(t, s)
  BY <1>1, <1>2, CallSetOf
<1>4. Good(Kernel) /\ Onward(Kernel, Kernel)
  BY InvHas, OnwardSame
<1> QED
  BY <1>1, <1>2, <1>3, <1>4, BlockedKeeps

LEMMA SemGiveKeeps ==
    ASSUME Inv, NEW s \in Sem, SemGive(s)
    PROVE  Inv'
<1>1. CASE waitq[s] = <<>>
  <2> DEFINE n == count[s] + 1
  <2>1. count[s] < MaxCount /\ NoResched([Kernel EXCEPT !.count[s] = n])
    BY <1>1, KernelIs DEF SemGive
  <2>2. count[s] \in 0..MaxCount /\ MaxCount \in Nat
    BY CountIn, KernelAssumption
  <2>3. n \in 0..MaxCount
    BY <2>1, <2>2
  <2> HIDE DEF n
  <2>4. NoResched([Kernel EXCEPT !.live = live, !.count[s] = n])
    BY <2>1, LiveSame
  <2> QED
    BY <1>1, <2>3, <2>4, CountKeeps
<1>2. CASE waitq[s] # <<>>
  <2> DEFINE k == PendTaskWakeup(Kernel, Head(waitq[s]))
  <2>1. Resched(k) /\ s \in Obj
    BY <1>2, Kinds DEF SemGive
  <2>2. Kernel.waitq[s] # <<>> /\ k = PendTaskWakeup(Kernel, Head(Kernel.waitq[s]))
    BY <1>2, KernelIs
  <2> HIDE DEF k
  <2>3. Good(k) /\ Onward(Kernel, k)
    BY <2>1, <2>2, InvHas, WakeupOf
  <2> QED
    BY <2>1, <2>3, Resumed
<1> QED
  BY <1>1, <1>2

LEMMA SemGiveAllKeeps ==
    ASSUME Inv, NEW s \in Sem, SemGiveAll(s)
    PROVE  Inv'
<1> DEFINE k == WakeupAll(Kernel, s)
<1>1. Resched(k) /\ s \in Obj
  BY Kinds DEF SemGiveAll
<1>2. Good(k) /\ Onward(Kernel, k)
  BY <1>1, InvHas, WakeupAllOf
<1> HIDE DEF k
<1> QED
  BY <1>1, <1>2, Resumed

LEMMA SemCountSetKeeps ==
    ASSUME Inv, NEW t \in Task, NEW s \in Sem, SemCountSet(t, s)
    PROVE  Inv'
<1>1. PICK n \in 0..MaxCount : NoResched([Kernel EXCEPT !.count[s] = n])
  BY DEF SemCountSet
<1>2. count[s] # 0 \/ waitq[s] = <<>>
  BY DEF SemCountSet
<1>3. NoResched([Kernel EXCEPT !.live = live, !.count[s] = n])
  BY <1>1, LiveSame
<1> QED
  BY <1>2, <1>3, CountKeeps

LEMMA SemDelKeeps ==
    ASSUME Inv, NEW t \in Task, NEW s \in Sem, SemDel(t, s)
    PROVE  Inv'
<1> DEFINE dead == [Kernel EXCEPT !.live = @ \ {s}]
           k == PendRmAll(dead, s)
<1>1. Resched(k) /\ s \in Obj
  BY Kinds DEF SemDel
<1>2. SoundBut(dead, call, s) /\ dead.tcb = tcb
  BY <1>1, DeadObject
<1>3. Good(dead)
  BY <1>2 DEF SoundBut
<1> HIDE DEF dead
<1>4. Good(k) /\ Onward(dead, k) /\ k.waitq[s] = <<>>
  BY <1>1, <1>3, PendRmAllOf
<1> HIDE DEF k
<1>5. Sound(k, call)
  BY <1>1, <1>2, <1>4, SoundOnward, SoundWithout
<1>6. k.tcb[active].state = "RDY"
  BY <1>2, <1>4, InvHas DEF Onward, Softer
<1> QED
  BY <1>1, <1>5, <1>6, Rescheduled

-----------------------------------------------------------------------------
(* Task actions. *)

(* A task with control block a belongs on the same lists with b. *)
SameLists(a, b) ==
    /\ a.state = "RDY" <=> b.state = "RDY"
    /\ a.state \in Pending <=> b.state \in Pending
    /\ a.state \in Sleeping <=> b.state \in Sleeping
    /\ a.state \in Pending \cup {"RDY"} => b.prio = a.prio
    /\ a.state \in Pending => b.blk_obj = a.blk_obj

PutTcb(k, t, r) == [k EXCEPT !.tcb[t] = r]

LEMMA TcbSet ==
    ASSUME NEW k, Good(k), NEW t \in Task, NEW r \in Tcb, SameLists(k.tcb[t], r),
           NEW k2, k2 = PutTcb(k, t, r)
    PROVE  /\ Good(k2) /\ Near(k, k2, t) /\ k2.tcb[t] = r
           /\ k2.tick = k.tick /\ k2.ready = k.ready
<1>1. But(k, t) /\ ReadyAs(k, t) /\ WaitAs(k, t) /\ TickAs(k, t)
  BY TakeUp
<1>2. k \in KState /\ t \in AllTask
  BY GoodState, Kinds
<1>3. /\ k2 \in KState
      /\ k2.tcb[t] = r /\ \A u \in AllTask \ {t} : k2.tcb[u] = k.tcb[u]
      /\ k2.ready = k.ready /\ k2.tick = k.tick /\ k2.waitq = k.waitq
      /\ k2.live = k.live /\ k2.mtx = k.mtx /\ k2.count = k.count /\ k2.kerr = k.kerr
  BY <1>2, WithTcb DEF PutTcb
<1>4. But(k2, t)
  BY <1>1, <1>3, OtherTcb
<1>5. ReadyAs(k2, t) /\ WaitAs(k2, t) /\ TickAs(k2, t)
  BY <1>1, <1>3 DEF ReadyAs, WaitAs, TickAs, SameLists, InReady, InWait, TickTasks
<1>6. ASSUME NEW o \in InWait(k2, t) PROVE Ordered(k2.waitq[o], PrioOf(k2))
  <2>1. o \in Obj /\ k.tcb[t].state \in Pending
    BY <1>5, <1>3, <1>6, States DEF WaitAs, InWait, SameLists
  <2>2. \A u \in Task : k2.tcb[u].prio = k.tcb[u].prio
    BY <1>3, <2>1, Kinds DEF SameLists
  <2>3. PrioOf(k2) = PrioOf(k)
    BY <2>2 DEF PrioOf
  <2> QED
    BY <1>3, <2>1, <2>3, GoodOrdered
<1>7. Good(k2)
  BY <1>4, <1>5, <1>6, PutDown
<1> QED
  BY <1>3, <1>7 DEF Near

LEMMA TcbHas ==
    ASSUME Inv, NEW t \in AllTask
    PROVE  /\ tcb[t] \in Tcb /\ tcb[t].state \in TaskState /\ tcb[t].prio \in Prio
           /\ tcb[t].b_prio \in Prio /\ tcb[t].suspend \in 0..MaxSuspend
           /\ tcb[t].state \in Suspended => tcb[t].suspend > 0
           /\ Plain => tcb[t].prio = tcb[t].b_prio
<1>1. tcb[t] \in Tcb
  BY InvHas, KernelIs, Fields
<1>2. Plain => tcb[t].prio = tcb[t].b_prio
  BY InvHas, KernelIs DEF Sound, SoundBut, Flat
<1> QED
  BY <1>1, <1>2, TcbFields

LEMMA PendEndKeeps ==
    ASSUME Inv, NEW t \in Task, PendEnd(t)
    PROVE  Inv'
<1> DEFINE r == [tcb[t] EXCEPT !.blk_state = "STALE"]
           k == PutTcb(Kernel, t, r)
<1>1. tcb[t] \in Tcb /\ tcb[t].state = "RDY" /\ t \in AllTask
  BY InvHas, TcbHas, Kinds DEF PendEnd
<1>2. /\ r \in Tcb /\ r.state = "RDY" /\ r.prio = tcb[t].prio /\ r.b_prio = tcb[t].b_prio
      /\ r.blk_obj = tcb[t].blk_obj
  BY <1>1 DEF Tcb, BlkState
<1>3. Become(k)
  <2>1. /\ k.tcb = [tcb EXCEPT ![t] = r] /\ k.ready = ready /\ k.tick = tick
        /\ k.waitq = waitq /\ k.live = live /\ k.mtx = mtx /\ k.count = count /\ k.kerr = kerr
    BY DEF Kernel, PutTcb
  <2>2. tcb' = [tcb EXCEPT ![t] = r]
    BY DEF PendEnd
  <2> QED
    BY <2>1, <2>2 DEF PendEnd, Become
<1>4. CallSet(t, NULL)
  <2>1. call' = [call EXCEPT ![t] = NULL]
    BY DEF PendEnd
  <2> QED
    BY <2>1, CallSetOf
<1> HIDE DEF r
<1>5. SameLists(Kernel.tcb[t], r)
  BY <1>1, <1>2, KernelIs, States DEF SameLists
<1>6. Good(Kernel)
  BY InvHas
<1>7. /\ Good(k) /\ Near(Kernel, k, t) /\ k.tcb[t] = r
      /\ k.tick = Kernel.tick /\ k.ready = Kernel.ready
  BY <1>2, <1>5, <1>6, TcbSet
<1> HIDE DEF k
<1>8. Timed(k)
  BY <1>7, InvHas DEF Timed, Sound, SoundBut
<1>9. WaitOk(k, t, NULL) /\ CallOk(k, call', t)
  BY <1>2, <1>4, <1>7, States DEF WaitOk, CallOk, CallSet
<1>10. Plain => k.tcb[t].prio = k.tcb[t].b_prio
  BY <1>1, <1>2, <1>7, TcbHas
<1>11. Sound(k, call')
  BY <1>4, <1>7, <1>8, <1>9, <1>10, InvHas, SoundNear DEF CallSet
<1>12. UNCHANGED <<active, sched_lock>> /\ t = active
  BY DEF PendEnd
<1> QED
  BY <1>2, <1>3, <1>4, <1>7, <1>11, <1>12, KernelIs, Stays DEF CallSet

LEMMA TaskSleepKeeps ==
    ASSUME Inv, NEW t \in Task, NEW n \in Timeouts, TaskSleep(t, n)
    PROVE  Inv'
<1> DEFINE x1 == PutState(Kernel, t, "SLEEP")
           x2 == TickInsert(x1, t, n)
           k == ReadyRm(x2, t)
<1>1. t = active /\ n \in Nat /\ n > 0 /\ sched_lock = 0 /\ CoreSched(k, 0)
  BY KernelAssumption DEF TaskSleep, Runs, PutState
<1>2. CallSet(t, "sleep")
  <2>1. call' = [call EXCEPT ![t] = "sleep"]
    BY DEF TaskSleep
  <2> QED
    BY <2>1, CallSetOf
<1>3. /\ But(Kernel, t) /\ ReadyAs(Kernel, t) /\ WaitAs(Kernel, t) /\ TickAs(Kernel, t)
      /\ Kernel.tcb[t] = tcb[t] /\ tcb[t] \in Tcb /\ tcb[t].state = "RDY"
      /\ Timed(Kernel)
  BY <1>1, InvHas, TakeUp, KernelIs DEF Sound, SoundBut
<1>4. "SLEEP" \in TaskState /\ "SLEEP" \notin Suspended /\ "SLEEP" \notin Pending
  BY States
<1>5. /\ But(x1, t) /\ Near(Kernel, x1, t) /\ x1.tcb[t] = TcbState(tcb[t], "SLEEP")
      /\ x1.ready = Kernel.ready /\ x1.waitq = Kernel.waitq /\ x1.tick = Kernel.tick
  BY <1>3, <1>4, SetState
<1> HIDE DEF x1
<1>6. x1.tcb[t].state = "SLEEP" /\ x1.tcb[t].prio = tcb[t].prio /\ x1.tcb[t].b_prio = tcb[t].b_prio
  BY <1>3, <1>5 DEF TcbState, Tcb
<1>7. t \notin TickTasks(x1)
  BY <1>3, <1>5, States DEF TickAs, TickTasks
<1>8. /\ But(x2, t) /\ Near(x1, x2, t) /\ x2.tcb = x1.tcb
      /\ x2.ready = x1.ready /\ x2.waitq = x1.waitq
      /\ Range(x2.tick) = Range(x1.tick) \cup {[task |-> t, left |-> n]}
  BY <1>1, <1>5, <1>7, TickInsertOf
<1> HIDE DEF x2
<1>9. InReady(x2, t) \subseteq {x2.tcb[t].prio} /\ InWait(x2, t) = {}
  BY <1>3, <1>5, <1>6, <1>8, States DEF InReady, InWait, ReadyAs, WaitAs
<1>10. /\ But(k, t) /\ Near(x2, k, t) /\ k.tcb = x2.tcb
       /\ k.waitq = x2.waitq /\ k.tick = x2.tick /\ InReady(k, t) = {}
  BY <1>8, <1>9, ReadyRmOf
<1> HIDE DEF k
<1>11. InWait(k, t) = {} /\ t \in TickTasks(k)
  <2>1. InWait(k, t) = {}
    BY <1>9, <1>10 DEF InWait
  <2>2. [task |-> t, left |-> n] \in Range(k.tick)
    BY <1>8, <1>10
  <2> QED
    BY <2>1, <2>2 DEF TickTasks
<1>12. ReadyAs(k, t) /\ WaitAs(k, t) /\ TickAs(k, t) /\ k.tcb[t].state = "SLEEP"
  BY <1>6, <1>8, <1>10, <1>11, States DEF ReadyAs, WaitAs, TickAs
<1>13. Good(k)
  BY <1>10, <1>11, <1>12, PutDown
<1>14. Near(Kernel, k, t)
  BY <1>5, <1>8, <1>10, NearNear
<1>15. Timed(k)
  BY <1>1, <1>3, <1>5, <1>8, <1>10 DEF Timed
<1>16. WaitOk(k, t, NULL) /\ CallOk(k, call', t)
  BY <1>2, <1>12, States, Kinds DEF WaitOk, CallOk, CallSet
<1>17. Plain => k.tcb[t].prio = k.tcb[t].b_prio
  BY <1>6, <1>8, <1>10, TcbHas, Kinds
<1>18. Sound(k, call')
  BY <1>2, <1>13, <1>14, <1>15, <1>16, <1>17, InvHas, SoundNear DEF CallSet
<1> QED
  BY <1>1, <1>2, <1>18, InvHas, Scheduled DEF CallSet

LEMMA TaskYieldKeeps ==
    ASSUME Inv, NEW t \in Task, TaskYield(t)
    PROVE  Inv'
<1> DEFINE k == HeadToTail(Kernel, t)
<1>1. Resched(k) /\ t = active /\ t \in AllTask
  BY Kinds DEF TaskYield, Runs
<1>2. Kernel.ready[Kernel.tcb[t].prio] # <<>>
  <2>1. tcb[t].prio \in Prio /\ tcb[t].state = "RDY" /\ t # NULL
    BY <1>1, InvHas, TcbHas, Kinds
  <2>2. t \in Range(Kernel.ready[Kernel.tcb[t].prio])
    BY <1>1, <2>1, InvHas, KernelIs DEF Good, But, ReadyPart
  <2> QED
    BY <2>2 DEF Range
<1>3. Good(k) /\ Onward(Kernel, k)
  BY <1>1, <1>2, InvHas, HeadToTailOf
<1> HIDE DEF k
<1> QED
  BY <1>1, <1>3, Resumed

(* A block that belongs on the same lists and lost nothing. *)
LEMMA TcbOnward ==
    ASSUME Inv, NEW u \in Task, NEW r \in Tcb, SameLists(tcb[u], r), Softer(tcb[u], r),
           r.prio = tcb[u].prio, r.b_prio = tcb[u].b_prio,
           NEW k, k = PutTcb(Kernel, u, r)
    PROVE  Good(k) /\ Onward(Kernel, k)
<1>1. SameLists(Kernel.tcb[u], r) /\ Good(Kernel)
  BY InvHas, KernelIs
<1>2. /\ Good(k) /\ Near(Kernel, k, u) /\ k.tcb[u] = r
      /\ k.tick = Kernel.tick /\ k.ready = Kernel.ready
  BY <1>1, TcbSet
<1>3. Range(k.tick) \subseteq Range(Kernel.tick)
  BY <1>2
<1>4. Softer(Kernel.tcb[u], k.tcb[u])
  BY <1>2, KernelIs
<1>5. k.tcb[u].prio = Kernel.tcb[u].prio /\ k.tcb[u].b_prio = Kernel.tcb[u].b_prio
  BY <1>2, KernelIs
<1> QED
  BY <1>2, <1>3, <1>4, <1>5, OnwardNear

(* A waiting, sleeping or suspended task is suspended (once more). *)
LEMMA SuspendedOf ==
    ASSUME Inv, NEW u \in Task, NEW s \in Suspended, NEW n \in 1..MaxSuspend,
           \/ tcb[u].state = s
           \/ tcb[u].state = "SLEEP" /\ s = "SLEEP_SUSPENDED"
           \/ tcb[u].state = "PEND" /\ s = "PEND_SUSPENDED",
           NEW k, k = PutTcb(Kernel, u, [tcb[u] EXCEPT !.state = s, !.suspend = n])
    PROVE  Good(k) /\ Onward(Kernel, k)
<1> DEFINE r == [tcb[u] EXCEPT !.state = s, !.suspend = n]
<1>1. tcb[u] \in Tcb /\ u \in AllTask
  BY TcbHas, Kinds
<1>2. s \in TaskState /\ n \in 0..MaxSuspend /\ n > 0
  BY KernelAssumption, States
<1>3. tcb[u].state \in Pending <=> s \in Pending
  BY States
<1>4. r \in Tcb
  BY <1>1, <1>2, <1>3 DEF Tcb
<1>5. /\ r.state = s /\ r.prio = tcb[u].prio /\ r.b_prio = tcb[u].b_prio
      /\ r.blk_obj = tcb[u].blk_obj /\ r.blk_state = tcb[u].blk_state
  BY <1>1 DEF Tcb
<1>6. k = PutTcb(Kernel, u, r)
  OBVIOUS
<1> HIDE DEF r
<1>7. SameLists(tcb[u], r)
  BY <1>5, States DEF SameLists
<1>8. Softer(tcb[u], r)
  BY <1>5, States DEF Softer
<1> QED
  BY <1>4, <1>5, <1>6, <1>7, <1>8, TcbOnward

LEMMA TaskSuspendKeeps ==
    ASSUME Inv, NEW t \in Task, NEW u \in Task, TaskSuspend(t, u)
    PROVE  Inv'
<1>1. /\ tcb[u] \in Tcb /\ u \in AllTask /\ tcb[u].state \in TaskState
      /\ tcb[u].suspend \in 0..MaxSuspend /\ MaxSuspend \in Nat \ {0}
      /\ (tcb[u].state \in Suspended => tcb[u].suspend > 0)
  BY TcbHas, Kinds, KernelAssumption
<1>2. t = active /\ (u = t => sched_lock = 0)
  BY DEF TaskSuspend, Runs
<1>3. CASE tcb[u].state = "RDY"
  <2> DEFINE once == [Kernel EXCEPT !.tcb[u].suspend = 1]
             x1 == PutTcb(Kernel, u, [tcb[u] EXCEPT !.suspend = 1])
             x2 == PutState(x1, u, "SUSPENDED")
             k == ReadyRm(x2, u)
  <2>1. Resched(k)
    <3>1. Resched(ReadyRm([once EXCEPT !.tcb[u].state = "SUSPENDED"], u))
      BY <1>3 DEF TaskSuspend
    <3>2. once = x1
      BY DEF PutTcb, Kernel
    <3> QED
      BY <3>1, <3>2 DEF PutState
  <2> DEFINE r == [tcb[u] EXCEPT !.suspend = 1]
  <2>2. /\ r \in Tcb /\ r.state = "RDY" /\ r.prio = tcb[u].prio /\ r.b_prio = tcb[u].b_prio
        /\ r.blk_obj = tcb[u].blk_obj /\ r.blk_state = tcb[u].blk_state /\ r.suspend = 1
    BY <1>1, <1>3, States DEF Tcb
  <2>3. x1 = PutTcb(Kernel, u, r)
    OBVIOUS
  <2> HIDE DEF x1, r
  <2>4. SameLists(Kernel.tcb[u], r) /\ Good(Kernel)
    BY <1>3, <2>2, InvHas, KernelIs, States DEF SameLists
  <2>5. Good(x1) /\ Near(Kernel, x1, u) /\ x1.tcb[u] = r /\ x1.tick = Kernel.tick
    BY <2>2, <2>3, <2>4, TcbSet
  <2>6. But(x1, u) /\ ReadyAs(x1, u) /\ WaitAs(x1, u) /\ TickAs(x1, u)
    BY <2>5, TakeUp
  <2>7. "SUSPENDED" \in TaskState /\ "SUSPENDED" \notin Pending /\ x1.tcb[u].suspend > 0
    BY <2>2, <2>5, States
  <2>8. /\ But(x2, u) /\ Near(x1, x2, u) /\ x2.tcb[u] = TcbState(x1.tcb[u], "SUSPENDED")
        /\ x2.ready = x1.ready /\ x2.waitq = x1.waitq /\ x2.tick = x1.tick
    BY <2>6, <2>7, SetState
  <2> HIDE DEF x2
  <2>9. /\ x2.tcb[u].state = "SUSPENDED" /\ x2.tcb[u].prio = tcb[u].prio
        /\ x2.tcb[u].b_prio = tcb[u].b_prio /\ x2.tcb[u].blk_state = tcb[u].blk_state
    BY <2>2, <2>5, <2>8 DEF TcbState, Tcb
  <2>10. InReady(x2, u) \subseteq {x2.tcb[u].prio} /\ InWait(x2, u) = {} /\ u \notin TickTasks(x2)
    BY <2>2, <2>5, <2>6, <2>8, <2>9, States
       DEF InReady, InWait, ReadyAs, WaitAs, TickAs, TickTasks
  <2>11. /\ But(k, u) /\ Near(x2, k, u) /\ k.tcb = x2.tcb
         /\ k.waitq = x2.waitq /\ k.tick = x2.tick /\ InReady(k, u) = {}
    BY <2>8, <2>10, ReadyRmOf
  <2> HIDE DEF k
  <2>12. OffLists(k, u)
    BY <2>10, <2>11 DEF OffLists, InWait, TickTasks
  <2>13. Good(k)
    BY <2>9, <2>11, <2>12, LaidOff
  <2>14. Near(Kernel, k, u)
    BY <2>5, <2>8, <2>11, NearNear
  <2>15. Timed(k)
    BY <2>5, <2>8, <2>11, InvHas DEF Timed, Sound, SoundBut
  <2>16. WaitOk(k, u, NULL) /\ CallOk(k, call, u)
    <3>1. CallOk(Kernel, call, u)
      BY InvHas DEF Sound, SoundBut
    <3> QED
      BY <1>3, <2>9, <2>11, <3>1, KernelIs, States DEF WaitOk, CallOk
  <2>17. Plain => k.tcb[u].prio = k.tcb[u].b_prio
    BY <1>1, <2>9, <2>11, TcbHas
  <2>18. Sound(k, call)
    BY <2>13, <2>14, <2>15, <2>16, <2>17, InvHas, SoundNear
  <2>19. sched_lock # 0 => k.tcb[active].state = "RDY"
    BY <1>2, <2>14, InvHas, KernelIs DEF Near
  <2> QED
    BY <2>1, <2>18, <2>19, Rescheduled
<1>4. CASE tcb[u].state # "RDY"
  <2> DEFINE kk(s, n) == PutTcb(Kernel, u, [tcb[u] EXCEPT !.state = s, !.suspend = n])
  <2>1. PICK s \in Suspended, n \in 1..MaxSuspend :
           /\ \/ tcb[u].state = s
              \/ tcb[u].state = "SLEEP" /\ s = "SLEEP_SUSPENDED"
              \/ tcb[u].state = "PEND" /\ s = "PEND_SUSPENDED"
           /\ Resched(kk(s, n))
    <3>1. CASE tcb[u].state = "SLEEP"
      <4>1. Resched(kk("SLEEP_SUSPENDED", 1))
        BY <3>1 DEF TaskSuspend, PutTcb, Kernel
      <4>2. "SLEEP_SUSPENDED" \in Suspended /\ 1 \in 1..MaxSuspend
        BY <1>1, States
      <4> HIDE DEF kk
      <4> QED
        BY <3>1, <4>1, <4>2
    <3>2. CASE tcb[u].state = "PEND"
      <4>1. Resched(kk("PEND_SUSPENDED", 1))
        BY <3>2 DEF TaskSuspend, PutTcb, Kernel
      <4>2. "PEND_SUSPENDED" \in Suspended /\ 1 \in 1..MaxSuspend
        BY <1>1, States
      <4> HIDE DEF kk
      <4> QED
        BY <3>2, <4>1, <4>2
    <3>3. CASE tcb[u].state \notin {"SLEEP", "PEND"}
      <4> DEFINE n == tcb[u].suspend + 1
      <4>1. tcb[u].state # "DELETED" /\ tcb[u].state \in Suspended
        BY <1>1, <1>4, <3>3, States DEF TaskSuspend
      <4>2. tcb[u].suspend < MaxSuspend /\ Resched([Kernel EXCEPT !.tcb[u].suspend = @ + 1])
        BY <1>4, <3>3, <4>1 DEF TaskSuspend
      <4>3. n \in 1..MaxSuspend
        BY <1>1, <4>2
      <4>4. [Kernel EXCEPT !.tcb[u].suspend = @ + 1] = kk(tcb[u].state, n)
        <5>1. [tcb[u] EXCEPT !.suspend = n] = [tcb[u] EXCEPT !.state = tcb[u].state, !.suspend = n]
          BY <1>1 DEF Tcb
        <5>2. [Kernel EXCEPT !.tcb[u].suspend = @ + 1]
                = PutTcb(Kernel, u, [tcb[u] EXCEPT !.suspend = n])
          BY DEF PutTcb, Kernel
        <5> QED
          BY <5>1, <5>2
      <4> HIDE DEF n
      <4> QED
        BY <4>1, <4>2, <4>3, <4>4
    <3> QED
      BY <3>1, <3>2, <3>3
  <2> DEFINE k == kk(s, n)
  <2>2. Resched(k)
    BY <2>1
  <2>3. Good(k) /\ Onward(Kernel, k)
    BY <2>1, SuspendedOf
  <2> HIDE DEF k
  <2> QED
    BY <2>2, <2>3, Resumed
<1> QED
  BY <1>3, <1>4

LEMMA PutTwice ==
    ASSUME NEW k \in KState, NEW u \in AllTask, NEW r
    PROVE  /\ PutTcb(k, u, r).tcb[u] = r
           /\ \A q : PutTcb(PutTcb(k, u, r), u, q) = PutTcb(k, u, q)
<1>1. k.tcb \in [AllTask -> Tcb]
  BY Fields
<1> QED
  BY <1>1 DEF PutTcb, KState

LEMMA TaskResumeKeeps ==
    ASSUME Inv, NEW t \in Task, NEW u \in Task, TaskResume(t, u)
    PROVE  Inv'
<1> DEFINE n == tcb[u].suspend - 1
           less == [Kernel EXCEPT !.tcb[u].suspend = @ - 1]
           kk(s) == PutTcb(Kernel, u, [tcb[u] EXCEPT !.state = s, !.suspend = n])
<1>1. /\ tcb[u] \in Tcb /\ u \in AllTask /\ tcb[u].state \in Suspended
      /\ tcb[u].suspend \in 0..MaxSuspend /\ tcb[u].suspend > 0 /\ MaxSuspend \in Nat \ {0}
  BY TcbHas, Kinds, KernelAssumption, States DEF TaskResume
<1>2. n \in 0..MaxSuspend
  BY <1>1
<1> DEFINE r0 == [tcb[u] EXCEPT !.suspend = n]
<1>3. less = PutTcb(Kernel, u, r0)
  BY DEF PutTcb, Kernel
<1> HIDE DEF less, r0
<1>4. less.tcb[u].suspend = n /\ \A s : [less EXCEPT !.tcb[u].state = s] = kk(s)
  <2>1. less.tcb[u] = r0 /\ \A q : PutTcb(less, u, q) = PutTcb(Kernel, u, q)
    BY <1>1, <1>3, InvHas, PutTwice
  <2>2. \A s : [less EXCEPT !.tcb[u].state = s] = PutTcb(less, u, [less.tcb[u] EXCEPT !.state = s])
    BY DEF PutTcb
  <2>3. \A s : [r0 EXCEPT !.state = s] = [tcb[u] EXCEPT !.state = s, !.suspend = n]
    BY <1>1 DEF Tcb, r0
  <2>4. r0.suspend = n
    BY <1>1 DEF Tcb, r0
  <2> QED
    BY <2>1, <2>2, <2>3, <2>4
<1>5. ASSUME NEW s \in TaskState,
             tcb[u].state \in Pending <=> s \in Pending,
             tcb[u].state \in Sleeping <=> s \in Sleeping,
             s # "RDY", s # "DELETED", s = "SUSPENDED" => tcb[u].state = s,
             s \in Suspended => n > 0, Resched(kk(s))
      PROVE  Inv'
  <2> DEFINE r == [tcb[u] EXCEPT !.state = s, !.suspend = n]
             k == kk(s)
  <2>1. r \in Tcb
    BY <1>1, <1>2, <1>5 DEF Tcb
  <2>2. /\ r.state = s /\ r.prio = tcb[u].prio /\ r.b_prio = tcb[u].b_prio
        /\ r.blk_obj = tcb[u].blk_obj /\ r.blk_state = tcb[u].blk_state
    BY <1>1 DEF Tcb
  <2>3. k = PutTcb(Kernel, u, r) /\ Resched(k)
    BY <1>5
  <2> HIDE DEF r, k
  <2>4. SameLists(tcb[u], r)
    BY <1>1, <1>5, <2>2, States DEF SameLists
  <2>5. Softer(tcb[u], r)
    BY <1>1, <1>5, <2>2, States DEF Softer
  <2>6. Good(k) /\ Onward(Kernel, k)
    BY <2>1, <2>2, <2>3, <2>4, <2>5, TcbOnward
  <2> QED
    BY <2>3, <2>6, Resumed
<1>6. CASE n > 0
  <2>1. Resched(less)
    BY <1>4, <1>6 DEF TaskResume, less
  <2>2. less = kk(tcb[u].state)
    BY <1>1, <1>3 DEF Tcb, r0
  <2>3. Resched(kk(tcb[u].state))
    BY <2>1, <2>2
  <2> DEFINE s == tcb[u].state
  <2>4. s \in TaskState /\ s # "RDY" /\ s # "DELETED"
    BY <1>1, States
  <2> HIDE DEF n
  <2> QED
    BY <1>5, <1>6, <2>3, <2>4
<1>7. CASE ~(n > 0) /\ tcb[u].state = "SLEEP_SUSPENDED"
  <2>1. Resched([less EXCEPT !.tcb[u].state = "SLEEP"])
    BY <1>4, <1>7 DEF TaskResume, less
  <2>2. Resched(kk("SLEEP"))
    BY <1>4, <2>1
  <2> HIDE DEF n
  <2> QED
    BY <1>5, <1>7, <2>2, States
<1>8. CASE ~(n > 0) /\ tcb[u].state = "PEND_SUSPENDED"
  <2>1. Resched([less EXCEPT !.tcb[u].state = "PEND"])
    BY <1>4, <1>8 DEF TaskResume, less
  <2>2. Resched(kk("PEND"))
    BY <1>4, <2>1
  <2> HIDE DEF n
  <2> QED
    BY <1>5, <1>8, <2>2, States
<1>9. CASE ~(n > 0) /\ tcb[u].state = "SUSPENDED"
  <2> DEFINE r == [tcb[u] EXCEPT !.state = "RDY", !.suspend = n]
             x == PutTcb(Kernel, u, r)
             k == ReadyAdd(x, u)
  <2>1. Resched(k)
    <3>1. Resched(ReadyAdd([less EXCEPT !.tcb[u].state = "RDY"], u))
      BY <1>4, <1>9 DEF TaskResume, less
    <3>2. [less EXCEPT !.tcb[u].state = "RDY"] = x
      BY <1>4
    <3> QED
      BY <3>1, <3>2
  <2>2. r \in Tcb
    BY <1>1, <1>2, States DEF Tcb
  <2>3. /\ r.state = "RDY" /\ r.prio = tcb[u].prio /\ r.b_prio = tcb[u].b_prio
        /\ r.blk_state = tcb[u].blk_state
    BY <1>1 DEF Tcb
  <2> HIDE DEF r
  <2>4. /\ But(Kernel, u) /\ ReadyAs(Kernel, u) /\ WaitAs(Kernel, u) /\ TickAs(Kernel, u)
        /\ Kernel \in KState
    BY InvHas, TakeUp
  <2>5. /\ x \in KState
        /\ x.tcb[u] = r /\ \A v \in AllTask \ {u} : x.tcb[v] = Kernel.tcb[v]
        /\ x.ready = Kernel.ready /\ x.tick = Kernel.tick /\ x.waitq = Kernel.waitq
        /\ x.live = Kernel.live /\ x.mtx = Kernel.mtx /\ x.count = Kernel.count
        /\ x.kerr = Kernel.kerr
    BY <1>1, <2>2, <2>4, WithTcb DEF PutTcb
  <2> HIDE DEF x
  <2>6. But(x, u)
    BY <2>4, <2>5, OtherTcb
  <2>7. OffLists(x, u)
    <3>1. OffLists(Kernel, u)
      BY <1>9, <2>4, KernelIs, States DEF OffLists, ReadyAs, WaitAs, TickAs
    <3> QED
      BY <2>5, <3>1, OffSame
  <2>8. Good(k) /\ Near(x, k, u) /\ k.tcb = x.tcb /\ k.tick = x.tick
    BY <2>3, <2>5, <2>6, <2>7, Readied
  <2> HIDE DEF k
  <2>9. Near(Kernel, k, u)
    BY <2>5, <2>8 DEF Near
  <2>10. Softer(Kernel.tcb[u], k.tcb[u])
    BY <1>9, <2>3, <2>5, <2>8, KernelIs, States DEF Softer
  <2>11. k.tcb[u].prio = Kernel.tcb[u].prio /\ k.tcb[u].b_prio = Kernel.tcb[u].b_prio
    BY <2>3, <2>5, <2>8, KernelIs
  <2>12. Range(k.tick) \subseteq Range(Kernel.tick)
    BY <2>5, <2>8
  <2>13. Onward(Kernel, k)
    BY <2>9, <2>10, <2>11, <2>12, OnwardNear
  <2> QED
    BY <2>1, <2>8, <2>13, Resumed
<1> QED
  BY <1>1, <1>6, <1>7, <1>8, <1>9, States

LEMMA StutterKeeps ==
    ASSUME Inv, UNCHANGED <<kernelVars, active, sched_lock, call>>
    PROVE  Inv'
<1>1. /\ tcb' = tcb /\ ready' = ready /\ tick' = tick /\ waitq' = waitq /\ live' = live
      /\ mtx' = mtx /\ count' = count /\ kerr' = kerr /\ active' = active
      /\ sched_lock' = sched_lock /\ call' = call
  BY DEF kernelVars
<1>2. Kernel' = Kernel
  BY <1>1 DEF Kernel
<1>3. Sound(Kernel', call')
  BY <1>1, <1>2, InvHas
<1>4. Plain => RunsHighest'
  <2>1. Plain => (sched_lock = 0 => active = Preferred(Kernel))
    BY DEF Inv, RunsHighest
  <2> QED
    BY <1>1, <2>1 DEF RunsHighest, Preferred, HighestPri, Kernel
<1> QED
  BY <1>1, <1>3, <1>4, InvHas DEF Inv, Kernel

LEMMA SoundReprio ==
    ASSUME NEW k, NEW c, Sound(k, c), NEW k2, Good(k2), Reprio(k, k2), ~Plain
    PROVE  Sound(k2, c)
<1>1. ASSUME NEW u \in AllTask
      PROVE  /\ k2.tcb[u].state = k.tcb[u].state /\ k2.tcb[u].blk_obj = k.tcb[u].blk_obj
             /\ k2.tcb[u].blk_state = k.tcb[u].blk_state
  <2>1. k2.tcb[u] = TcbPrio(k.tcb[u], k2.tcb[u].prio)
    BY DEF Reprio
  <2>2. k.tcb[u] \in Tcb
    BY GoodState, Fields DEF Sound, SoundBut
  <2> QED
    BY <2>1, <2>2, TcbPrioFields
<1>2. k2.live = k.live /\ k2.count = k.count /\ k2.tick = k.tick
  BY DEF Reprio
<1>3. \A u \in Task : WaitOk(k2, u, NULL) /\ CallOk(k2, c, u)
  BY <1>1, <1>2, Kinds DEF Sound, SoundBut, WaitOk, CallOk
<1>4. k2.tcb[Idle].state = "RDY" /\ Timed(k2)
  BY <1>1, <1>2, Kinds DEF Sound, SoundBut, Timed
<1> QED
  BY <1>3, <1>4 DEF Sound, SoundBut

LEMMA TaskPriChangeCallKeeps ==
    ASSUME Inv, NEW t \in Task, NEW u \in Task, NEW p \in Prio, TaskPriChangeCall(t, u, p)
    PROVE  Inv'
BY StutterKeeps DEF TaskPriChangeCall

LEMMA TaskPriChangeMakeKeeps ==
    ASSUME Inv, ChangeInv, NEW t \in Task, TaskPriChangeMake(t)
    PROVE  Inv'
<1> DEFINE u == change[t][1]
           p == change[t][2]
<1>0. u \in Task /\ p \in Prio /\ change[t] # NULL /\ Changes # {}
  BY DEF ChangeInv, TaskPriChangeMake
<1> DEFINE r == [tcb[u] EXCEPT !.b_prio = p]
           x == PutTcb(Kernel, u, r)
           limit == MutexPriLimit(Kernel, u, p)
           k == TaskPriChange(x, u, limit)
<1>1. IF k.kerr # "NONE" THEN NoResched(k)
      ELSE CoreSched(k, sched_lock) /\ call' = call
  BY DEF TaskPriChangeMake, PutTcb, Kernel
<1>2. ~Plain
  BY <1>0 DEF Plain
<1> HIDE DEF u, p
<1>3. p \in Prio /\ limit \in Prio
  BY <1>0, InvHas, PrioBounds
<1>4. tcb[u] \in Tcb /\ u \in AllTask
  BY <1>0, TcbHas, Kinds
<1>5. /\ r \in Tcb /\ r.state = tcb[u].state /\ r.prio = tcb[u].prio
      /\ r.blk_obj = tcb[u].blk_obj /\ r.blk_state = tcb[u].blk_state
  BY <1>3, <1>4 DEF Tcb
<1> HIDE DEF r, limit
<1>6. SameLists(Kernel.tcb[u], r) /\ Good(Kernel)
  BY <1>5, InvHas, KernelIs DEF SameLists
<1>7. /\ Good(x) /\ Near(Kernel, x, u) /\ x.tcb[u] = r
      /\ x.tick = Kernel.tick /\ x.ready = Kernel.ready
  BY <1>0, <1>5, <1>6, TcbSet
<1> HIDE DEF x
<1>8. Sound(x, call)
  <2>1. Timed(x)
    BY <1>7, InvHas DEF Timed, Sound, SoundBut
  <2>2. WaitOk(Kernel, u, NULL) /\ CallOk(Kernel, call, u)
    BY <1>0, InvHas DEF Sound, SoundBut
  <2>3. WaitOk(x, u, NULL) /\ CallOk(x, call, u)
    BY <1>5, <1>7, <2>2, KernelIs DEF Near, WaitOk, CallOk
  <2> QED
    BY <1>0, <1>2, <1>7, <2>1, <2>3, InvHas, SoundNear
<1>9. Good(k) /\ Reprio(x, k)
  BY <1>0, <1>3, <1>7, TaskPriChangeOf
<1> HIDE DEF k
<1>10. Sound(k, call)
  BY <1>2, <1>8, <1>9, SoundReprio
<1>11. k.tcb[active].state = "RDY"
  <2>1. x.tcb[active].state = "RDY"
    BY <1>5, <1>7, InvHas, KernelIs DEF Near
  <2>2. Placed(x, k)
    BY <1>7, <1>9, GoodState, ReprioPlaced
  <2> QED
    BY <2>1, <2>2, InvHas DEF Placed
<1>12. CASE k.kerr # "NONE"
  <2>1. NoResched(k)
    BY <1>1, <1>12
  <2>2. Sound(k, call') /\ Become(k) /\ UNCHANGED <<active, sched_lock>> /\ call' \in CallType
    BY <1>10, <2>1, InvHas DEF NoResched
  <2> QED
    BY <1>2, <1>11, <2>2, Stays
<1>13. CASE ~(k.kerr # "NONE")
  <2>1. Sound(k, call') /\ CoreSched(k, sched_lock) /\ call' \in CallType
    BY <1>1, <1>10, <1>13, InvHas
  <2> QED
    BY <1>11, <2>1, InvHas, Scheduled
<1> QED
  BY <1>12, <1>13

LEMMA TaskWaitAbortKeeps ==
    ASSUME Inv, NEW t \in Task, NEW u \in Task, TaskWaitAbort(t, u)
    PROVE  Inv'
<1> DEFINE k == WaitAborted(Kernel, u)
<1>1. Resched(k) /\ Kernel.tcb[u].state # "DELETED"
  BY KernelIs DEF TaskWaitAbort, Alive
<1>2. Good(k) /\ Onward(Kernel, k)
  BY <1>1, InvHas, WaitAbortedOf
<1> HIDE DEF k
<1> QED
  BY <1>1, <1>2, Resumed

LEMMA TaskCancelKeeps ==
    ASSUME Inv, NEW t \in Task, NEW u \in Task, TaskCancel(t, u)
    PROVE  Inv'
<1> DEFINE r == [tcb[u] EXCEPT !.cancel = TRUE]
           marked == PutTcb(Kernel, u, r)
           k == WaitAborted(marked, u)
<1>1. IF tcb[u].state # "DELETED" THEN Resched(k) ELSE NoResched(marked)
  BY DEF TaskCancel, Alive, PutTcb, Kernel
<1>2. tcb[u] \in Tcb /\ u \in AllTask
  BY TcbHas, Kinds
<1>3. /\ r \in Tcb /\ r.state = tcb[u].state /\ r.prio = tcb[u].prio /\ r.b_prio = tcb[u].b_prio
      /\ r.blk_obj = tcb[u].blk_obj /\ r.blk_state = tcb[u].blk_state
  BY <1>2 DEF Tcb
<1> HIDE DEF r
<1>4. SameLists(tcb[u], r) /\ Softer(tcb[u], r)
  BY <1>3 DEF SameLists, Softer
<1>5. Good(marked) /\ Onward(Kernel, marked)
  BY <1>3, <1>4, TcbOnward
<1>6. marked.tcb[u].state = tcb[u].state /\ marked.ready = ready
  <2>1. SameLists(Kernel.tcb[u], r) /\ Good(Kernel)
    BY <1>4, InvHas, KernelIs
  <2>2. marked.tcb[u] = r /\ marked.ready = Kernel.ready
    BY <1>3, <2>1, TcbSet
  <2> QED
    BY <1>3, <2>2, KernelIs
<1> HIDE DEF marked
<1>7. CASE tcb[u].state # "DELETED"
  <2>1. Resched(k)
    BY <1>1, <1>7
  <2>2. Good(k) /\ Onward(marked, k)
    BY <1>5, <1>6, <1>7, WaitAbortedOf
  <2> HIDE DEF k
  <2>3. Onward(Kernel, k)
    BY <1>5, <2>2, OnwardOnward
  <2> QED
    BY <2>1, <2>2, <2>3, Resumed
<1>8. CASE tcb[u].state = "DELETED"
  <2>1. NoResched(marked)
    BY <1>1, <1>8
  <2> QED
    BY <1>5, <1>6, <2>1, Continued
<1> QED
  BY <1>7, <1>8

LEMMA TaskDelKeeps ==
    ASSUME Inv, NEW t \in Task, NEW u \in Task, TaskDel(t, u)
    PROVE  Inv'
<1> DEFINE x == TaskMutexFree(Kernel, u)
           k == TaskRemove(x, u)
<1>1. /\ CoreSched(k, sched_lock) /\ t = active /\ (u = t => sched_lock = 0)
      /\ tcb[u].state # "DELETED" /\ u \in AllTask /\ u # Idle
  BY Kinds DEF TaskDel, Runs, Alive
<1>2. CallSet(u, NULL)
  <2>1. call' = [call EXCEPT ![u] = NULL]
    BY DEF TaskDel
  <2> QED
    BY <2>1, CallSetOf
<1>3. Good(x) /\ Onward(Kernel, x)
  BY InvHas, TaskMutexFreeOf
<1> HIDE DEF x
<1>4. Sound(x, call)
  BY <1>3, InvHas, SoundOnward DEF Sound
<1>5. x.tcb[u].state # "DELETED" /\ x.tcb[active].state = "RDY"
  BY <1>1, <1>3, InvHas, KernelIs DEF Onward, Softer
<1>6. Good(k) /\ Parted(x, k, u)
  BY <1>3, <1>5, TaskRemoveOf
<1> HIDE DEF k
<1>7. ASSUME NEW v \in Task PROVE WaitOk(k, v, NULL) /\ CallOk(k, call', v)
  <2>1. WaitOk(x, v, NULL) /\ CallOk(x, call, v)
    BY <1>4 DEF Sound, SoundBut
  <2>2. k.live = x.live /\ k.count = x.count
    BY <1>6 DEF Parted
  <2>3. CASE v = u
    <3>1. k.tcb[v].state = "DELETED" /\ call'[v] = NULL
      BY <1>2, <1>6, <2>3 DEF Parted, CallSet
    <3> QED
      BY <3>1, States DEF WaitOk, CallOk
  <2>4. CASE v # u
    <3>1. Softer(x.tcb[v], k.tcb[v]) /\ call'[v] = call[v]
      BY <1>2, <1>6, <2>4, Kinds DEF Parted, CallSet
    <3>2. WaitOk(k, v, NULL)
      BY <2>1, <2>2, <3>1 DEF WaitOk, Softer
    <3>3. CallOk(k, call', v)
      BY <2>1, <3>1 DEF CallOk, Softer
    <3> QED
      BY <3>2, <3>3
  <2> QED
    BY <2>3, <2>4
<1>8. Timed(k)
  BY <1>4, <1>6 DEF Timed, Parted, Sound, SoundBut
<1>9. k.tcb[Idle].state = "RDY"
  BY <1>1, <1>4, <1>6, Kinds DEF Parted, Softer, Sound, SoundBut
<1>10. Plain => Flat(k)
  BY <1>4, <1>6 DEF Parted, Sound, SoundBut, Plain
<1>11. Sound(k, call')
  BY <1>6, <1>7, <1>8, <1>9, <1>10 DEF Sound, SoundBut
<1>12. sched_lock # 0 => k.tcb[active].state = "RDY"
  BY <1>1, <1>5, <1>6, InvHas DEF Parted, Softer
<1> QED
  BY <1>1, <1>2, <1>11, <1>12, InvHas, Scheduled DEF CallSet

LEMMA TaskCreateKeeps ==
    ASSUME Inv, NEW t \in Task, NEW u \in Task, NEW s \in {"RDY", "SUSPENDED"},
           TaskCreate(t, u, s)
    PROVE  Inv'
<1> DEFINE r == NewTcb(InitPrio[u], s)
           x == PutTcb(Kernel, u, r)
           y == ReadyAdd(x, u)
<1>1. /\ tcb[u].state = "DELETED" /\ t = active
      /\ IF s = "RDY" THEN Resched(y) ELSE NoResched(x)
  BY DEF TaskCreate, Alive, Runs, PutTcb
<1>2. u \in AllTask /\ u # active
  BY <1>1, InvHas, Kinds
<1>3. /\ r.state = s /\ r.prio = r.b_prio /\ r \in Tcb
  <2>1. InitPrio[u] \in Prio
    BY Kinds, KernelAssumption
  <2>2. 0 \in 0..MaxSuspend /\ 1 \in 0..MaxSuspend /\ TimeSlice \in 1..TimeSlice
    BY KernelAssumption, RhinoAssumption
  <2> QED
    BY <2>1, <2>2, States DEF NewTcb, Tcb, BlkState
<1> HIDE DEF r
<1>4. /\ But(Kernel, u) /\ ReadyAs(Kernel, u) /\ WaitAs(Kernel, u) /\ TickAs(Kernel, u)
      /\ Kernel \in KState
  BY InvHas, TakeUp
<1>5. /\ x \in KState
      /\ x.tcb[u] = r /\ \A v \in AllTask \ {u} : x.tcb[v] = Kernel.tcb[v]
      /\ x.ready = Kernel.ready /\ x.tick = Kernel.tick /\ x.waitq = Kernel.waitq
      /\ x.live = Kernel.live /\ x.mtx = Kernel.mtx /\ x.count = Kernel.count
      /\ x.kerr = Kernel.kerr
  BY <1>2, <1>3, <1>4, WithTcb DEF PutTcb
<1> HIDE DEF x
<1>6. But(x, u) /\ Near(Kernel, x, u)
  BY <1>4, <1>5, OtherTcb DEF Near
<1>7. OffLists(x, u)
  <2>1. OffLists(Kernel, u)
    BY <1>1, <1>4, KernelIs, States DEF OffLists, ReadyAs, WaitAs, TickAs
  <2> QED
    BY <1>5, <2>1, OffSame
<1>8. call[u] = NULL
  BY <1>1, InvHas, KernelIs DEF Sound, SoundBut, CallOk
<1>9. ASSUME NEW k, Good(k), Near(x, k, u), k.tcb = x.tcb, k.tick = x.tick
      PROVE  Sound(k, call) /\ k.tcb[active].state = "RDY"
  <2>1. Near(Kernel, k, u)
    BY <1>6, <1>9, NearNear
  <2>2. Timed(k)
    BY <1>5, <1>9, InvHas DEF Timed, Sound, SoundBut
  <2>3. WaitOk(k, u, NULL) /\ CallOk(k, call, u)
    BY <1>3, <1>5, <1>8, <1>9, States DEF WaitOk, CallOk
  <2>4. k.tcb[u].prio = k.tcb[u].b_prio
    BY <1>3, <1>5, <1>9
  <2>5. Sound(k, call)
    BY <1>9, <2>1, <2>2, <2>3, <2>4, InvHas, SoundNear
  <2>6. k.tcb[active].state = "RDY"
    BY <1>2, <2>1, InvHas, KernelIs DEF Near
  <2> QED
    BY <2>5, <2>6
<1>10. CASE s = "RDY"
  <2>1. Resched(y)
    BY <1>1, <1>10
  <2>2. Good(y) /\ Near(x, y, u) /\ y.tcb = x.tcb /\ y.tick = x.tick
    BY <1>3, <1>5, <1>6, <1>7, <1>10, Readied
  <2> HIDE DEF y
  <2>3. Sound(y, call) /\ y.tcb[active].state = "RDY"
    BY <1>9, <2>2
  <2> QED
    BY <2>1, <2>3, Rescheduled
<1>11. CASE s # "RDY"
  <2>1. NoResched(x) /\ s = "SUSPENDED"
    BY <1>1, <1>11
  <2>2. Good(x)
    BY <1>3, <1>5, <1>6, <1>7, <2>1, LaidOff
  <2>3. Near(x, x, u)
    BY DEF Near
  <2>4. Sound(x, call) /\ x.tcb[active].state = "RDY"
    BY <1>9, <2>2, <2>3
  <2>5. Sound(x, call') /\ Become(x) /\ UNCHANGED <<active, sched_lock>> /\ call' \in CallType
    BY <2>1, <2>4, InvHas DEF NoResched
  <2> QED
    BY <1>5, <2>4, <2>5, KernelIs, Stays
<1> QED
  BY <1>10, <1>11

-----------------------------------------------------------------------------
(* The scheduler lock and the tick. *)

LEMMA SchedDisableKeeps ==
    ASSUME Inv, NEW t \in Task, SchedDisable(t)
    PROVE  Inv'
<1>1. sched_lock < MaxLock /\ sched_lock' = sched_lock + 1 /\ UNCHANGED <<kernelVars, active, call>>
  BY DEF SchedDisable
<1>2. sched_lock \in 0..MaxLock /\ MaxLock \in Nat
  BY InvHas, KernelAssumption
<1>3. sched_lock' \in 0..MaxLock /\ sched_lock' # 0
  BY <1>1, <1>2
<1>4. Kernel' = Kernel /\ call' = call /\ active' = active /\ tcb' = tcb
  BY <1>1 DEF kernelVars, Kernel
<1>5. Sound(Kernel', call')
  BY <1>4, InvHas
<1>6. RunsHighest'
  BY <1>3 DEF RunsHighest
<1> QED
  BY <1>3, <1>4, <1>5, <1>6, InvHas DEF Inv, Kernel

LEMMA SchedEnableKeeps ==
    ASSUME Inv, NEW t \in Task, SchedEnable(t)
    PROVE  Inv'
<1> DEFINE n == sched_lock - 1
<1>1. sched_lock > 0 /\ CoreSched(Kernel, n) /\ call' = call
  BY DEF SchedEnable
<1>2. sched_lock \in 0..MaxLock /\ MaxLock \in Nat
  BY InvHas, KernelAssumption
<1>3. n \in 0..MaxLock
  BY <1>1, <1>2
<1> HIDE DEF n
<1>4. Sound(Kernel, call') /\ call' \in CallType /\ Kernel.tcb[active].state = "RDY"
  BY <1>1, InvHas, KernelIs
<1> QED
  BY <1>1, <1>3, <1>4, InvHas, Scheduled

LEMMA TickKeeps ==
    ASSUME Inv, Tick
    PROVE  Inv'
<1> DEFINE x == TickListUpdate(Kernel)
           k == TimeSliceUpdate(x)
<1>1. Resched(k)
  BY DEF Tick
<1>2. Good(Kernel) /\ Timed(Kernel)
  BY InvHas DEF Sound, SoundBut
<1>3. Good(x) /\ Timed(x) /\ Later(Kernel, x)
  BY <1>2, TickListUpdateOf
<1> HIDE DEF x
<1>4. Sound(x, call)
  BY <1>3, InvHas, SoundLater DEF Sound
<1>5. Good(k) /\ Onward(x, k)
  BY <1>3, InvHas, TimeSliceUpdateOf
<1> HIDE DEF k
<1>6. Sound(k, call)
  BY <1>4, <1>5, SoundOnward DEF Sound
<1>7. k.tcb[active].state = "RDY"
  BY <1>3, <1>5, InvHas, KernelIs DEF Later, Onward, Softer
<1> QED
  BY <1>1, <1>6, <1>7, Rescheduled

-----------------------------------------------------------------------------
(* The invariant is inductive. *)

LEMMA MutexStepKeeps ==
    ASSUME Inv, NEW t \in Task, MutexStep(t)
    PROVE  Inv'
BY MutexLockNestedKeeps, MutexLockOverflowKeeps, MutexLockFreeKeeps, MutexLockPendKeeps, MutexUnlockNestedKeeps,
   MutexUnlockKeeps, MutexDelKeeps, MutexCreateKeeps DEF MutexStep

LEMMA SemStepKeeps ==
    ASSUME Inv, NEW t \in Task, SemStep(t)
    PROVE  Inv'
BY SemTakeKeeps, SemTakePendKeeps, SemCountSetKeeps, SemDelKeeps, SemCreateKeeps DEF SemStep

LEMMA TaskStepKeeps ==
    ASSUME Inv, NEW t \in Task, TaskStep(t)
    PROVE  Inv'
BY TaskSuspendKeeps, TaskResumeKeeps, TaskPriChangeCallKeeps, TaskWaitAbortKeeps,
   TaskCancelKeeps, TaskDelKeeps, TaskCreateKeeps DEF TaskStep

LEMMA SchedStepKeeps ==
    ASSUME Inv, NEW t \in Task, SchedStep(t)
    PROVE  Inv'
BY TaskSleepKeeps, TaskYieldKeeps, SchedDisableKeeps, SchedEnableKeeps DEF SchedStep

LEMMA NextKeeps ==
    ASSUME Inv, ChangeInv, [Next]_vars
    PROVE  Inv'
<1>1. CASE UNCHANGED vars
  BY <1>1, StutterKeeps DEF vars
<1>2. CASE \E t \in Task : \/ PendEnd(t) \/ TaskPriChangeMake(t)
                           \/ MutexStep(t) \/ SemStep(t) \/ TaskStep(t) \/ SchedStep(t)
  BY <1>2, PendEndKeeps, TaskPriChangeMakeKeeps, MutexStepKeeps, SemStepKeeps, TaskStepKeeps, SchedStepKeeps
<1>3. CASE \E s \in Sem : SemGive(s) \/ SemGiveAll(s)
  BY <1>3, SemGiveKeeps, SemGiveAllKeeps
<1>4. CASE Tick
  BY <1>4, TickKeeps
<1>5. CASE Stopped
  BY <1>5, StutterKeeps DEF Stopped, vars
<1> QED
  BY <1>1, <1>2, <1>3, <1>4, <1>5 DEF Next

(* Only the check of a change writes one down. *)
LEMMA ChangeKeeps ==
    ASSUME ChangeInv, [Next]_vars
    PROVE  ChangeInv'
<1>1. CASE UNCHANGED vars
  BY <1>1 DEF vars, ChangeInv
<1>2. ASSUME NEW t \in Task, PendEnd(t) \/ MutexStep(t) \/ SemStep(t) \/ SchedStep(t)
      PROVE  change' = change
  BY <1>2 DEF PendEnd, MutexStep, MutexLockNested, MutexLockOverflow, MutexLockFree,
     MutexLockPend, MutexUnlockNested, MutexUnlock, MutexDel, MutexCreate, SemStep, SemTake,
     SemTakePend, SemCountSet, SemDel, SemCreate, SchedStep, TaskSleep, TaskYield,
     SchedDisable, SchedEnable, Resched, NoResched
<1>3. ASSUME NEW t \in Task, TaskStep(t)
      PROVE  ChangeInv'
  <2>1. PICK u \in Task :
            \/ TaskSuspend(t, u) \/ TaskResume(t, u) \/ TaskWaitAbort(t, u)
            \/ TaskCancel(t, u) \/ TaskDel(t, u)
            \/ \E p \in Prio : TaskPriChangeCall(t, u, p)
            \/ \E s \in {"RDY", "SUSPENDED"} : TaskCreate(t, u, s)
    BY <1>3 DEF TaskStep
  <2>2. CASE \/ TaskSuspend(t, u) \/ TaskResume(t, u) \/ TaskWaitAbort(t, u) \/ TaskCancel(t, u)
             \/ \E s \in {"RDY", "SUSPENDED"} : TaskCreate(t, u, s)
    <3>1. change' = change
      BY <2>2 DEF TaskSuspend, TaskResume, TaskWaitAbort, TaskCancel, TaskCreate,
         Resched, NoResched
    <3> QED
      BY <3>1 DEF ChangeInv
  <2>3. CASE TaskDel(t, u)
    <3>1. change' = [change EXCEPT ![u] = NULL]
      BY <2>3 DEF TaskDel
    <3> QED
      BY <3>1 DEF ChangeInv
  <2>4. ASSUME NEW p \in Prio, TaskPriChangeCall(t, u, p)
        PROVE  ChangeInv'
    <3>1. change' = [change EXCEPT ![t] = <<u, p>>] /\ <<t, u, p>> \in Changes
      BY <2>4 DEF TaskPriChangeCall
    <3> QED
      BY <3>1 DEF ChangeInv
  <2> QED
    BY <2>1, <2>2, <2>3, <2>4
<1>4. ASSUME NEW t \in Task, TaskPriChangeMake(t)
      PROVE  ChangeInv'
  <2>1. change' = change \/ change' = [change EXCEPT ![t] = NULL]
    BY <1>4 DEF TaskPriChangeMake, NoResched
  <2> QED
    BY <2>1 DEF ChangeInv
<1>5. ASSUME NEW s \in Sem, SemGive(s) \/ SemGiveAll(s)
      PROVE  change' = change
  BY <1>5 DEF SemGive, SemGiveAll, Resched, NoResched
<1>6. CASE Tick
  BY <1>6 DEF Tick, Resched, ChangeInv
<1>7. CASE Stopped
  BY <1>7 DEF Stopped, vars, ChangeInv
<1>8. change' = change => ChangeInv'
  BY DEF ChangeInv
<1> QED
  BY <1>1, <1>2, <1>3, <1>4, <1>5, <1>6, <1>7, <1>8 DEF Next

-----------------------------------------------------------------------------
(* The initial state. *)

LEMMA SetToSeqOf ==
    ASSUME NEW S, IsFiniteSet(S)
    PROVE  /\ SetToSeq(S) \in Seq(S) /\ IsInjective(SetToSeq(S))
           /\ Range(SetToSeq(S)) = S
<1> DEFINE n == Cardinality(S)
           f == SetToSeq(S)
<1>1. n \in Nat /\ ExistsBijection(1..n, S)
  BY FS_CardinalityType
<1>2. \E g \in [1..n -> S] : IsInjective(g)
  BY <1>1 DEF ExistsBijection, Bijection, Injection
<1>3. f = CHOOSE g \in [1..n -> S] : IsInjective(g)
  BY DEF SetToSeq
<1> HIDE DEF f
<1>4. f \in [1..n -> S] /\ IsInjective(f)
  BY <1>2, <1>3
<1>5. f \in Injection(1..n, S)
  BY <1>4 DEF Injection
<1>6. Cardinality(1..n) = n
  <2>1. 1 \in Int /\ n \in Int
    BY <1>1
  <2>2. Cardinality(1..n) = IF 1 > n THEN 0 ELSE n - 1 + 1
    BY <2>1, FS_Interval
  <2> QED
    BY <1>1, <2>2
<1>7. f \in Surjection(1..n, S)
  BY <1>5, <1>6, FS_Injection
<1>8. Range(f) = S
  BY <1>4, <1>7 DEF Range, Surjection
<1>9. f \in Seq(S)
  BY <1>1, <1>4
<1> QED
  BY <1>4, <1>8, <1>9 DEF f

LEMMA InitInv == Init => Inv
<1> SUFFICES ASSUME Init PROVE Inv
  OBVIOUS
<1>1. /\ tcb = InitTcb /\ ready = InitReady /\ tick = <<>> /\ waitq = [o \in Obj |-> <<>>]
      /\ live = Obj /\ mtx = [m \in Mutex |-> FreeMutex] /\ count = [s \in Sem |-> 0]
      /\ kerr = "NONE" /\ active = Preferred(Kernel) /\ sched_lock = 0
      /\ call = [t \in Task |-> NULL]
  BY DEF Init
<1>2. ASSUME NEW t \in AllTask
      PROVE  /\ tcb[t] \in Tcb /\ tcb[t].state = "RDY" /\ tcb[t].prio = tcb[t].b_prio
             /\ tcb[t].prio \in Prio
  <2> DEFINE p == IF t = Idle THEN IdlePri ELSE InitPrio[t]
  <2>1. p \in Prio
    BY Kinds, KernelAssumption DEF AllTask
  <2>2. tcb[t] = NewTcb(p, "RDY")
    BY <1>1 DEF InitTcb
  <2> HIDE DEF p
  <2>3. 0 \in 0..MaxSuspend /\ TimeSlice \in 1..TimeSlice
    BY KernelAssumption, RhinoAssumption
  <2> QED
    BY <2>1, <2>2, <2>3, States DEF NewTcb, Tcb, BlkState
<1>3. tcb \in [AllTask -> Tcb]
  BY <1>1, <1>2 DEF InitTcb
<1>4. ASSUME NEW p \in Prio
      PROVE  /\ ready[p] \in Seq(AllTask) /\ IsInjective(ready[p])
             /\ Range(ready[p]) = {t \in AllTask : tcb[t].prio = p}
  <2> DEFINE S == {t \in AllTask : tcb[t].prio = p}
  <2>1. IsFiniteSet(AllTask)
    BY RhinoAssumption, FS_AddElement DEF AllTask
  <2>2. IsFiniteSet(S)
    BY <2>1, FS_Subset
  <2>3. ready[p] = SetToSeq(S)
    BY <1>1 DEF InitReady
  <2>4. S \subseteq AllTask
    OBVIOUS
  <2> HIDE DEF S
  <2>5. ready[p] \in Seq(S) /\ IsInjective(ready[p]) /\ Range(ready[p]) = S
    BY <2>2, <2>3, SetToSeqOf
  <2>6. ready[p] \in Seq(AllTask)
    BY <2>4, <2>5
  <2> QED
    BY <2>5, <2>6 DEF S
<1>5. Kernel \in KState
  <2>1. ready \in [Prio -> Seq(AllTask)]
    BY <1>1, <1>4 DEF InitReady
  <2>2. FreeMutex \in MutexRecord
    BY KernelAssumption DEF FreeMutex, MutexRecord
  <2>3. mtx \in [Mutex -> MutexRecord]
    BY <1>1, <2>2
  <2>4. count \in [Sem -> 0..MaxCount] /\ waitq \in [Obj -> Seq(Task)] /\ tick \in Seq(Entry)
    BY <1>1, KernelAssumption
  <2>5. live \subseteq Obj /\ kerr \in KernelError
    BY <1>1 DEF KernelError
  <2> QED
    BY <1>3, <2>1, <2>3, <2>4, <2>5 DEF KState, Kernel
<1>6. ReadyPart(Kernel, NULL)
  BY <1>2, <1>4, KernelIs DEF ReadyPart
<1>7. WaitPart(Kernel, NULL)
  <2>1. ASSUME NEW o \in Obj PROVE Kernel.waitq[o] = <<>>
    BY <1>1, KernelIs
  <2>2. \A u \in Task : Kernel.tcb[u].state \notin Pending
    BY <1>2, KernelIs, Kinds, States
  <2> QED
    BY <2>1, <2>2 DEF WaitPart, IsInjective, Range, OrderedBut
<1>8. TickPart(Kernel, NULL) /\ Timed(Kernel)
  <2>1. Kernel.tick = <<>>
    BY <1>1, KernelIs
  <2>2. Range(Kernel.tick) = {} /\ DOMAIN Kernel.tick = {}
    BY <2>1 DEF Range
  <2>3. \A u \in Task : Kernel.tcb[u].state \notin Sleeping
    BY <1>2, KernelIs, Kinds, States
  <2> QED
    BY <2>2, <2>3 DEF TickPart, Timed, TickTasks, IsInjective, Ordered
<1>9. Good(Kernel)
  BY <1>5, <1>6, <1>7, <1>8 DEF Good, But
<1>10. Sound(Kernel, call)
  <2>1. \A u \in Task : WaitOk(Kernel, u, NULL) /\ CallOk(Kernel, call, u)
    BY <1>1, <1>2, KernelIs, Kinds, States DEF WaitOk, CallOk
  <2>2. Flat(Kernel) /\ Kernel.tcb[Idle].state = "RDY"
    BY <1>2, KernelIs, Kinds DEF Flat
  <2> QED
    BY <1>8, <1>9, <2>1, <2>2 DEF Sound, SoundBut
<1>11. active \in AllTask /\ tcb[active].state = "RDY"
  BY <1>1, <1>9, <1>10, KernelIs, PreferredOf DEF Sound, SoundBut
<1>12. call \in CallType
  BY <1>1 DEF CallType
<1>13. sched_lock \in 0..MaxLock /\ RunsHighest
  BY <1>1, KernelAssumption DEF RunsHighest
<1> QED
  BY <1>10, <1>11, <1>12, <1>13 DEF Inv

LEMMA InitChange == Init => ChangeInv
BY DEF Init, ChangeInv

LEMMA InvAlways == Spec => [](Inv /\ ChangeInv)
<1>1. Init => Inv /\ ChangeInv
  BY InitInv, InitChange
<1>2. Inv /\ ChangeInv /\ [Next]_vars => Inv' /\ ChangeInv'
  BY NextKeeps, ChangeKeeps
<1> QED
  BY <1>1, <1>2, PTL DEF Spec

-----------------------------------------------------------------------------
(* What the invariant says of the properties. *)

LEMMA SeqIn ==
    ASSUME NEW S, NEW T, NEW l \in Seq(S), \A i \in 1..Len(l) : l[i] \in T
    PROVE  l \in Seq(T)
OBVIOUS

LEMMA TypeHolds == Inv /\ ChangeInv => TypeOK
<1> SUFFICES ASSUME Inv, ChangeInv PROVE TypeOK
  OBVIOUS
<1>1. Kernel \in KState /\ Good(Kernel) /\ Timed(Kernel)
  BY InvHas DEF Sound, SoundBut
<1>2. ASSUME NEW t \in AllTask
      PROVE  /\ tcb[t].state \in TaskState
             /\ {tcb[t].prio, tcb[t].b_prio} \subseteq Prio
             /\ tcb[t].suspend \in 0..MaxSuspend
             /\ tcb[t].cancel \in BOOLEAN
             /\ tcb[t].blk_state \in BlkState
             /\ tcb[t].blk_obj \in Obj \cup {NULL}
             /\ tcb[t].mutex_list \in Mutex \cup {NULL}
             /\ tcb[t].slice \in 1..TimeSlice
  <2>1. tcb[t] \in Tcb
    BY TcbHas
  <2> QED
    BY <2>1, TcbFields
<1>3. /\ ready \in [Prio -> Seq(AllTask)] /\ tick \in Seq(Entry)
      /\ waitq \in [Obj -> Seq(Task)] /\ live \subseteq Obj
      /\ mtx \in [Mutex -> MutexRecord] /\ count \in [Sem -> 0..MaxCount] /\ kerr \in KernelError
  BY <1>1, Fields, KernelIs
<1>4. tick \in Seq([task : Task, left : Nat \ {0}])
  <2>1. \A i \in 1..Len(tick) : tick[i] \in Entry /\ tick[i].left > 0
    BY <1>1, <1>3, KernelIs DEF Timed, Range
  <2>2. \A i \in 1..Len(tick) : tick[i] \in [task : Task, left : Nat \ {0}]
    BY <2>1 DEF Entry
  <2> QED
    BY <1>3, <2>2, SeqIn
<1>5. ASSUME NEW t \in Task
      PROVE  IF call[t] = NULL THEN tcb[t].state \notin Pending \cup Sleeping
             ELSE tcb[t].state \in {"RDY", "SUSPENDED"} => tcb[t].blk_state # "STALE"
  BY InvHas, KernelIs DEF Sound, SoundBut, CallOk
<1> QED
  BY <1>2, <1>3, <1>4, <1>5, InvHas DEF TypeOK, MutexRecord, CallType, ChangeInv

LEMMA ReadyQueueHolds == Inv => ReadyQueueSound
<1> SUFFICES ASSUME Inv PROVE ReadyQueueSound
  OBVIOUS
<1>1. ReadyPart(Kernel, NULL) /\ Kernel \in KState
  BY InvHas DEF Good, But
<1>2. ASSUME NEW p \in Prio
      PROVE  /\ IsInjective(ready[p])
             /\ Range(ready[p]) = {t \in AllTask : tcb[t].state = "RDY" /\ tcb[t].prio = p}
  <2>1. ready[p] \in Seq(AllTask)
    BY <1>1, Fields, KernelIs
  <2>2. Range(ready[p]) \subseteq AllTask
    BY <2>1 DEF Range
  <2>3. \A t \in AllTask : t \in Range(ready[p]) <=> tcb[t].state = "RDY" /\ tcb[t].prio = p
    BY <1>1, KernelIs, Kinds DEF ReadyPart
  <2>4. IsInjective(ready[p])
    BY <1>1, KernelIs DEF ReadyPart
  <2> QED
    BY <2>2, <2>3, <2>4
<1> QED
  BY <1>2, InvHas DEF ReadyQueueSound

(* Somebody on the list of o waits for o. *)
LEMMA WaiterOf ==
    ASSUME Inv, NEW o \in Obj, waitq[o] # <<>>
    PROVE  o \in live /\ (o \in Sem => count[o] = 0)
<1> DEFINE t == Head(waitq[o])
<1>1. t \in Task /\ tcb[t].state \in Pending /\ tcb[t].blk_obj = o
  BY InvHas, KernelIs, FirstWaiter
<1> HIDE DEF t
<1>2. WaitOk(Kernel, t, NULL) /\ o # NULL
  BY <1>1, InvHas, Kinds DEF Sound, SoundBut
<1> QED
  BY <1>1, <1>2, KernelIs DEF WaitOk

LEMMA WaitListsHold == Inv => WaitListsSound
<1> SUFFICES ASSUME Inv, NEW o \in Obj
             PROVE  /\ IsInjective(waitq[o])
                    /\ Range(waitq[o]) = {t \in Task : /\ tcb[t].state \in Pending
                                                       /\ tcb[t].blk_obj = o}
                    /\ SortedBy(waitq[o], LAMBDA t : tcb[t].prio)
                    /\ waitq[o] # <<>> => o \in live
  BY DEF WaitListsSound
<1>1. Good(Kernel) /\ WaitPart(Kernel, NULL) /\ Kernel \in KState
  BY InvHas DEF Good, But
<1>2. waitq[o] \in Seq(Task)
  BY <1>1, Fields, KernelIs
<1>3. Range(waitq[o]) \subseteq Task /\ \A i \in DOMAIN waitq[o] : waitq[o][i] \in Task
  BY <1>2 DEF Range
<1>4. \A t \in Task : t \in Range(waitq[o]) <=> tcb[t].state \in Pending /\ tcb[t].blk_obj = o
  BY <1>1, KernelIs, Kinds DEF WaitPart
<1>5. IsInjective(waitq[o])
  BY <1>1, KernelIs DEF WaitPart
<1>6. Ordered(waitq[o], PrioOf(Kernel))
  BY <1>1, KernelIs, GoodOrdered
<1>7. SortedBy(waitq[o], LAMBDA t : tcb[t].prio)
  BY <1>3, <1>6, KernelIs DEF SortedBy, Ordered, PrioOf
<1> QED
  BY <1>3, <1>4, <1>5, <1>7, WaiterOf

LEMMA TickListHolds == Inv => TickListSound
<1> SUFFICES ASSUME Inv PROVE TickListSound
  OBVIOUS
<1> DEFINE tasks == [i \in DOMAIN tick |-> tick[i].task]
<1>1. TickPart(Kernel, NULL) /\ Kernel \in KState
  BY InvHas DEF Good, But
<1>2. /\ IsInjective(tick)
      /\ \A e, f \in Range(tick) : e.task = f.task => e = f
      /\ Ordered(tick, LeftOf)
      /\ \A u \in Task : /\ u \in TickTasks(Kernel) => tcb[u].state \in Pending \cup Sleeping
                         /\ tcb[u].state \in Sleeping => u \in TickTasks(Kernel)
  BY <1>1, KernelIs, Kinds DEF TickPart
<1>3. tick \in Seq(Entry)
  BY <1>1, Fields, KernelIs
<1>4. \A i \in DOMAIN tick : tick[i] \in Entry /\ tick[i] \in Range(tick) /\ tick[i].task \in Task
  <2>1. \A i \in DOMAIN tick : tick[i] \in Entry
    BY <1>3
  <2>2. \A i \in DOMAIN tick : tick[i] \in Range(tick)
    BY DEF Range
  <2> QED
    BY <2>1, <2>2 DEF Entry
<1>5. Range(tasks) = TickTasks(Kernel) /\ Range(tasks) \subseteq Task
  BY <1>4, KernelIs DEF Range, TickTasks
<1>6. IsInjective(tasks)
  BY <1>2, <1>4 DEF IsInjective
<1>7. SortedBy(tick, LAMBDA e : e.left)
  BY <1>2, <1>4 DEF SortedBy, Ordered, LeftOf
<1> HIDE DEF tasks
<1>8. /\ \A t \in Range(tasks) : tcb[t].state \in Pending \cup Sleeping
      /\ \A t \in Task : tcb[t].state \in Sleeping => t \in Range(tasks)
  BY <1>2, <1>5
<1> QED
  BY <1>6, <1>7, <1>8 DEF TickListSound, tasks

LEMMA GiveHolds == Inv => NoLostGive
BY WaiterOf, Kinds DEF NoLostGive

-----------------------------------------------------------------------------
(* Every variable keeps its type; a task outside kernel calls is not       *)
(* blocked, and one whose wait is over was told why.                       *)
THEOREM KernelTypeCorrect == Spec => []TypeOK
BY InvAlways, TypeHolds, PTL

(* Whatever tasks and interrupts do, the ready queue holds exactly the     *)
(* ready tasks, each once, on the list of its current priority, and the    *)
(* running task is one of them.                                            *)
THEOREM ReadyQueueHoldsReadyTasks == Spec => []ReadyQueueSound
BY InvAlways, ReadyQueueHolds, PTL

(* A blocked list holds exactly the waiters of its object, best priority   *)
(* first, also after priorities changed; nobody waits for what is deleted. *)
THEOREM WaitListsHoldWaiters == Spec => []WaitListsSound
BY InvAlways, WaitListsHold, PTL

(* The tick list holds every sleeper and, besides, only waiters, each      *)
(* once, the first to expire first.                                        *)
THEOREM TickListHoldsSleepers == Spec => []TickListSound
BY InvAlways, TickListHolds, PTL

(* Nobody waits for a semaphore that has a count.                          *)
THEOREM GiveIsNotLost == Spec => []NoLostGive
BY InvAlways, GiveHolds, PTL

(* In the default build, without mutex inheritance, and if no task's       *)
(* priority is changed by a call, the processor runs the first of the      *)
(* highest ready list whenever the scheduler is unlocked.                  *)
LEMMA HighestRuns ==
    ASSUME ~INHERIT, Changes = {}
    PROVE  Spec => []RunsHighest
<1>1. Inv => RunsHighest
  BY DEF Inv, Plain
<1> QED
  BY <1>1, InvAlways, PTL
============================================================================
