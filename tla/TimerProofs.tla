---------------------------- MODULE TimerProofs ----------------------------
(***************************************************************************)
(* Proofs about software timers, for any number of them, any settings, any *)
(* length of the command queue and any lateness of the timer task: the     *)
(* list holds exactly the active timers, and none is called early.  That   *)
(* it is sorted, and the task woken in time, needs a hypothesis: two       *)
(* timers, or a task that is never late.                                   *)
(***************************************************************************)
EXTENDS TimerProperties, KListProofs

-----------------------------------------------------------------------------
(* The list. *)
LEMMA PriInsertOf ==
    ASSUME NEW l \in Seq(Timer), NEW t \in Timer, NEW val
    PROVE  /\ PriInsert(l, t, val) \in Seq(Timer)
           /\ Range(PriInsert(l, t, val)) = Range(l) \cup {t}
           /\ t \notin Range(l) /\ IsInjective(l) => IsInjective(PriInsert(l, t, val))
<1> DEFINE I == {i \in 1..Len(l) : timer[l[i]].due + behind < 0
                                   \/ timer[l[i]].due + behind > val}
           i == IF I # {} THEN Min(I) ELSE 0
<1>1. PriInsert(l, t, val) = InsertBefore(l, i, t)
  BY DEF PriInsert, SelectInSeq
<1>2. I \in SUBSET (1..Len(l))
  OBVIOUS
<1> HIDE DEF I
<1>3. i \in 0..Len(l)
  BY <1>2, FirstPlace
<1> HIDE DEF i
<1> QED
  BY <1>1, <1>3, InsertingBefore

LEMMA AfterOf ==
    ASSUME NEW l \in Seq(Timer), NEW t \in Range(l), IsInjective(l)
    PROVE  After(l, t) # NULL => After(l, t) \in Range(l) \ {t}
<1>1. PICK i \in 1..Len(l) : i = SelectInSeq(l, LAMBDA u : u = t) /\ l[i] = t
  BY Found
<1>2. After(l, t) = IF i = Len(l) THEN NULL ELSE l[i + 1]
  BY <1>1 DEF After
<1>3. ASSUME i # Len(l) PROVE l[i + 1] \in Range(l) \ {t}
  <2>1. i + 1 \in 1..Len(l) /\ i + 1 # i /\ DOMAIN l = 1..Len(l)
    BY <1>3
  <2>2. l[i + 1] # l[i]
    BY <2>1 DEF IsInjective
  <2> QED
    BY <1>1, <2>1, <2>2 DEF Range
<1> QED
  BY <1>2, <1>3

LEMMA FirstOf ==
    ASSUME NEW l \in Seq(Timer)
    PROVE  First(l) # NULL => First(l) \in Range(l)
<1>1. l # <<>> => 1 \in DOMAIN l /\ Head(l) = l[1]
  OBVIOUS
<1> QED
  BY <1>1 DEF First, Range

-----------------------------------------------------------------------------
(* The invariant.  Of the list, the timers and their age: *)
Ages == 0..MaxTicks \cup {NULL}
Record == [exists : BOOLEAN, active : BOOLEAN, due : Int,
           first : 0..MaxTicks, round : 0..MaxTicks, arg : Arg \cup {NULL}]

(* A start that is to come has waited long enough when it is due. *)
OldEnough(a, r) == a # NULL => a + r.due >= r.first \/ a = MaxTicks

Data ==
    /\ behind \in Nat /\ list \in Seq(Timer)
    /\ timer \in [Timer -> Record] /\ age \in [Timer -> Ages]
    /\ ListMatchesState
    /\ \A t \in Timer : ~timer[t].active => age[t] = NULL
    /\ \A t \in Timer : OldEnough(age[t], timer[t])

(* Of the messages; one that is in the hands of the timer task is at least *)
(* as old as the tick the task has read.                                   *)
HasAge(m) == m.cmd \in {"START", "ARG_CHG_AUTO"}
Comm ==
    /\ queue \in Seq(Message) /\ msg \in Message \cup {NULL}
    /\ pc \in {"got", "cmd"} => msg \in Message
    /\ pc \in {"cmd", "cb"} /\ msg # NULL /\ HasAge(msg) /\ msg.age # NULL =>
           behind <= msg.age \/ msg.age = MaxTicks

(* Of the place in the list at which callbacks are made. *)
Place == pc = "cb" /\ cur # NULL => cur \in Range(list)

Inv == Data /\ Comm /\ Place

LEMMA InitInv == Init => Inv
<1> SUFFICES ASSUME Init PROVE Inv
  OBVIOUS
<1>1. NoTimer \in Record /\ ~NoTimer.active
  BY TimerAssumption DEF NoTimer, Record
<1>2. list = <<>> /\ Range(list) = {} /\ IsInjective(list)
  BY DEF Init, Range, IsInjective
<1>3. Data
  BY <1>1, <1>2 DEF Init, Data, ListMatchesState, OldEnough, Ages
<1> QED
  BY <1>3 DEF Init, Inv, Comm, Place

-----------------------------------------------------------------------------
(* One timer changes. *)
Others(t) ==
    /\ timer' \in [Timer -> Record] /\ age' \in [Timer -> Ages]
    /\ \A u \in Timer \ {t} : timer'[u] = timer[u] /\ age'[u] = age[u]

LEMMA Rested ==
    ASSUME NEW x \in Record, NEW d \in Int
    PROVE  LET r == [x EXCEPT !.active = FALSE, !.due = d]
           IN  r \in Record /\ ~r.active
  BY DEF Record

LEMMA Changed ==
    ASSUME Data, NEW t \in Timer, NEW r \in Record, NEW a \in Ages,
           timer' = [timer EXCEPT ![t] = r], age' = [age EXCEPT ![t] = a]
    PROVE  Others(t) /\ timer'[t] = r /\ age'[t] = a
  BY DEF Others, Data

LEMMA Activated ==
    ASSUME Data, NEW t \in Timer, timer[t].exists, Others(t), behind' \in Nat,
           NEW l \in Seq(Timer), IsInjective(l), Range(l) = Range(list) \ {t},
           NEW val, list' = PriInsert(l, t, val),
           timer'[t].active, timer'[t].exists, OldEnough(age'[t], timer'[t])
    PROVE  Data'
<1>1. list' \in Seq(Timer) /\ IsInjective(list') /\ Range(list') = Range(list) \cup {t}
  BY PriInsertOf
<1>2. Range(list) \subseteq Timer
  BY DEF Data, Range
<1>3. ListMatchesState'
  BY <1>1, <1>2 DEF Data, ListMatchesState, Others
<1>4. \A u \in Timer : /\ ~timer'[u].active => age'[u] = NULL
                       /\ OldEnough(age'[u], timer'[u])
  BY DEF Data, Others
<1> QED
  BY <1>1, <1>3, <1>4 DEF Data, Others, OldEnough

LEMMA Deactivated ==
    ASSUME Data, NEW t \in Timer, Others(t), behind' \in Nat,
           list' \in Seq(Timer), IsInjective(list'), Range(list') = Range(list) \ {t},
           ~timer'[t].active, age'[t] = NULL
    PROVE  Data'
<1>1. Range(list) \subseteq Timer
  BY DEF Data, Range
<1>2. ListMatchesState'
  BY <1>1 DEF Data, ListMatchesState, Others
<1>3. \A u \in Timer : /\ ~timer'[u].active => age'[u] = NULL
                       /\ OldEnough(age'[u], timer'[u])
  BY DEF Data, Others, OldEnough
<1> QED
  BY <1>2, <1>3 DEF Data, Others, OldEnough

LEMMA DataSame ==
    ASSUME Data, UNCHANGED <<list, timer, age>>, behind' \in Nat
    PROVE  Data'
  BY DEF Data, ListMatchesState, OldEnough

-----------------------------------------------------------------------------
(* The callers. *)
LEMMA MessagesTyped == \A t \in Timer : Messages(t) \subseteq Message
<1> SUFFICES ASSUME NEW t \in Timer, NEW m \in Messages(t) PROVE m \in Message
  OBVIOUS
<1>1. 0 \in 0..MaxTicks
  BY TimerAssumption
<1>2. CASE m \in [cmd : Command \cap {"STOP", "DEL", "DYN_DEL"}, timer : {t}]
  BY <1>2 DEF Message
<1>3. CASE m \in {StartMsg(c, t) : c \in Command \cap {"START"}}
  BY <1>1, <1>3 DEF Message, StartMsg
<1>4. CASE m \in [cmd : Command \cap {"CHG"}, timer : {t}, set : Setting]
  BY <1>4 DEF Message
<1>5. CASE m \in [cmd : Command \cap {"ARG_CHG"}, timer : {t}, arg : Arg]
  BY <1>5 DEF Message
<1>6. CASE m \in [cmd : Command \cap {"ARG_CHG_AUTO"}, timer : {t}, arg : Arg, age : {0}]
  BY <1>1, <1>6 DEF Message
<1> QED
  BY <1>2, <1>3, <1>4, <1>5, <1>6 DEF Messages

LEMMA SendComm ==
    ASSUME Inv, NEW m \in Message, BufQueueSend(m), UNCHANGED <<behind, list, cur>>
    PROVE  Comm' /\ Place'
<1>1. CASE pc = "blocked"
  BY <1>1 DEF BufQueueSend, Inv, Comm, Place
<1>2. CASE pc # "blocked"
  <2>1. queue' \in Seq(Message) /\ UNCHANGED <<msg, pc>>
    BY <1>2 DEF BufQueueSend, Inv, Comm
  <2> QED
    BY <2>1 DEF Inv, Comm, Place, HasAge
<1> QED
  BY <1>1, <1>2

LEMMA SendInv == ASSUME Inv, NEW t \in Timer, Send(t) PROVE Inv'
<1>1. PICK m \in Message : BufQueueSend(m)
  BY MessagesTyped DEF Send
<1>2. Comm' /\ Place'
  BY <1>1, SendComm DEF Send
<1>3. Data'
  BY DataSame DEF Send, Inv, Data
<1> QED
  BY <1>2, <1>3 DEF Inv

(* A timer that is created is not in the list, as it did not exist. *)
LEMMA CreateInv ==
    ASSUME Inv, NEW t \in Timer, NEW s \in Setting, NEW a \in Arg,
           NEW autoRun \in BOOLEAN, Create(t, s, a, autoRun)
    PROVE  Inv'
<1>1. Comm' /\ Place'
  <2>1. CASE autoRun
    <3>1. StartMsg("START", t) \in Message
      BY TimerAssumption DEF StartMsg, Message
    <3> QED
      BY <2>1, <3>1, SendComm DEF Create
  <2>2. CASE ~autoRun
    BY <2>2 DEF Create, Inv, Comm, Place, HasAge
  <2> QED
    BY <2>1, <2>2
<1>2. ~timer[t].exists /\ t \notin Range(list) /\ ~timer[t].active /\ age[t] = NULL
  BY DEF Create, Inv, Data, ListMatchesState
<1>3. UNCHANGED <<behind, list, age>>
  BY DEF Create
<1>4. CASE timer' = timer
  <2>1. Data /\ behind' \in Nat
    BY <1>3 DEF Inv, Data
  <2> QED
    BY <1>1, <1>3, <1>4, <2>1, DataSame DEF Inv
<1>5. CASE timer' # timer
  <2> DEFINE r == [exists |-> TRUE, active |-> FALSE, due |-> 0,
                   first |-> s.first, round |-> s.round, arg |-> a]
  <2>1. timer' = [timer EXCEPT ![t] = r]
    BY <1>5 DEF Create
  <2>2. r \in Record /\ ~r.active
    BY TimerAssumption DEF Record
  <2> HIDE DEF r
  <2>3. Others(t) /\ ~timer'[t].active
    BY <1>3, <2>1, <2>2 DEF Others, Inv, Data
  <2>4. /\ behind' \in Nat /\ list' \in Seq(Timer) /\ IsInjective(list')
        /\ Range(list') = Range(list) \ {t} /\ age'[t] = NULL
    BY <1>2, <1>3 DEF Inv, Data, ListMatchesState
  <2>5. Data
    BY DEF Inv
  <2>6. Data'
    BY <2>3, <2>4, <2>5, Deactivated
  <2> QED
    BY <1>1, <2>6 DEF Inv
<1> QED
  BY <1>4, <1>5

-----------------------------------------------------------------------------
(* The timer task. *)
LEMMA RecvInv == ASSUME Inv, Recv PROVE Inv'
<1>1. Data' /\ pc' \in {"blocked", "got"}
  BY DataSame DEF Recv, Inv, Data
<1>2. CASE queue = <<>>
  BY <1>1, <1>2 DEF Recv, Inv, Comm, Place
<1>3. CASE queue # <<>>
  <2>1. Head(queue) \in Message /\ Tail(queue) \in Seq(Message)
    BY <1>3 DEF Inv, Comm
  <2> QED
    BY <1>1, <1>3, <2>1 DEF Recv, Inv, Comm, Place
<1> QED
  BY <1>2, <1>3

LEMMA ReadTickInv ==
    ASSUME Inv, behind' = 0, pc' \in {"cmd", "cb"}, pc' = "cmd" => msg \in Message,
           pc' = "cb" => cur' = First(list), UNCHANGED <<queue, list, timer, msg, age>>
    PROVE  Inv'
<1>1. Data'
  BY DataSame DEF Inv
<1>2. msg # NULL /\ HasAge(msg) => msg.age \in 0..MaxTicks
  BY DEF Inv, Comm, Message, HasAge
<1>3. Comm'
  BY <1>2 DEF Inv, Comm, HasAge
<1>4. Place'
  BY FirstOf DEF Inv, Data, Place
<1> QED
  BY <1>1, <1>3, <1>4 DEF Inv

LEMMA CbEndInv == ASSUME Inv, CbEnd PROVE Inv'
<1>1. Data' /\ Place'
  BY DataSame DEF CbEnd, Inv, Data, Place
<1>2. Comm'
  BY DEF CbEnd, Inv, Comm, HasAge
<1> QED
  BY <1>1, <1>2 DEF Inv

LEMMA LookInv == ASSUME Inv, Look PROVE Inv'
<1>1. UNCHANGED <<queue, list, timer, msg, age>>
  BY DEF Look
<1>2. CASE pc' = "recv" /\ UNCHANGED behind
  BY <1>1, <1>2, DataSame DEF Inv, Data, Comm, Place
<1>3. CASE pc' = "cb" /\ behind' = 0 /\ cur' = First(list)
  BY <1>1, <1>3, ReadTickInv
<1> QED
  BY <1>2, <1>3 DEF Look

(* A timer is called back: it goes on, or is done. *)
LEMMA FireInv == ASSUME Inv, NEW t \in Timer, Fire(t) PROVE Inv'
<1> DEFINE rest == Unlink(list, t)
           again == PriInsert(rest, t, timer[t].round)
<1>1. Data /\ behind \in Nat /\ list \in Seq(Timer) /\ IsInjective(list)
      /\ timer[t] \in Record /\ NULL \in Ages
  BY DEF Inv, Data, ListMatchesState, Ages
<1>2. t \in Range(list) /\ timer[t].exists /\ timer[t].active
  BY TimerAssumption DEF Fire, Inv, Place, Data, ListMatchesState
<1>3. rest \in Seq(Timer) /\ Range(rest) = Range(list) \ {t} /\ IsInjective(rest)
  BY <1>1, UnlinkOf
<1>4. /\ UNCHANGED <<behind, queue, pc, msg>> /\ age' = [age EXCEPT ![t] = NULL]
      /\ pc = "cb"
  BY DEF Fire
<1>5. Comm'
  BY <1>4 DEF Inv, Comm, HasAge
<1>6. CASE timer[t].round > 0
  <2>1. /\ list' = again /\ cur' = After(again, t)
        /\ timer' = [timer EXCEPT ![t].due = timer[t].round - behind]
    BY <1>6 DEF Fire
  <2>2. again \in Seq(Timer) /\ Range(again) = Range(rest) \cup {t} /\ IsInjective(again)
    BY <1>3, PriInsertOf
  <2> HIDE DEF again, rest
  <2>3. Others(t) /\ timer'[t].active /\ timer'[t].exists /\ age'[t] = NULL
    <3> DEFINE r == [timer[t] EXCEPT !.due = timer[t].round - behind]
    <3>1. r \in Record /\ r.active /\ r.exists
      BY <1>1, <1>2 DEF Record
    <3>2. timer' = [timer EXCEPT ![t] = r]
      BY <1>1, <2>1 DEF Data
    <3> HIDE DEF r
    <3> QED
      BY <1>1, <1>4, <3>1, <3>2, Changed
  <2>4. OldEnough(age'[t], timer'[t])
    BY <2>3 DEF OldEnough
  <2>5. behind' \in Nat
    BY <1>1, <1>4
  <2>6. list' = PriInsert(rest, t, timer[t].round)
    BY <2>1 DEF again
  <2>7. Data'
    BY <1>1, <1>2, <1>3, <2>3, <2>4, <2>5, <2>6, Activated
  <2>8. cur' # NULL => cur' \in Range(list')
    BY <2>1, <2>2, AfterOf
  <2> QED
    BY <1>5, <2>7, <2>8 DEF Inv, Place
<1>7. CASE ~(timer[t].round > 0)
  <2>1. /\ list' = rest /\ cur' = After(list, t)
        /\ timer' = [timer EXCEPT ![t].active = FALSE, ![t].due = 0]
    BY <1>7 DEF Fire
  <2> HIDE DEF rest
  <2>2. Others(t) /\ ~timer'[t].active /\ age'[t] = NULL
    <3> DEFINE r == [timer[t] EXCEPT !.active = FALSE, !.due = 0]
    <3>1. 0 \in Int
      OBVIOUS
    <3>2. r \in Record /\ ~r.active
      BY <1>1, <3>1, Rested
    <3>3. timer' = [timer EXCEPT ![t] = r]
      BY <1>1, <2>1 DEF Data
    <3> HIDE DEF r
    <3> QED
      BY <1>1, <1>4, <3>2, <3>3, Changed
  <2>3. behind' \in Nat
    BY <1>1, <1>4
  <2>4. Data'
    BY <1>1, <1>3, <2>1, <2>2, <2>3, Deactivated
  <2>5. cur' # NULL => cur' \in Range(list')
    BY <1>1, <1>2, <1>3, <2>1, AfterOf
  <2> QED
    BY <1>5, <2>4, <2>5 DEF Inv, Place
<1> QED
  BY <1>6, <1>7

(* Carrying out a command. *)
LEMMA StartData ==
    ASSUME Data, NEW m \in Message, NEW t \in Timer, timer[t].exists, HasAge(m),
           m.age # NULL => behind <= m.age \/ m.age = MaxTicks,
           Start(t, m), UNCHANGED behind
    PROVE  Data'
<1>1. behind \in Nat /\ list \in Seq(Timer) /\ IsInjective(list) /\ timer[t] \in Record
  BY DEF Data, ListMatchesState
<1>2. CASE timer[t].active
  BY <1>1, <1>2, DataSame DEF Start
<1>3. CASE ~timer[t].active
  <2> DEFINE d == timer[t].first - behind
             r == [timer[t] EXCEPT !.active = TRUE, !.due = d]
  <2>1. /\ list' = PriInsert(list, t, timer[t].first)
        /\ timer' = [timer EXCEPT ![t].active = TRUE, ![t].due = d]
        /\ age' = [age EXCEPT ![t] = m.age]
    BY <1>3 DEF Start
  <2>2. m.age \in 0..MaxTicks /\ m.age \in Ages
    BY DEF Message, HasAge, Ages
  <2>3. timer[t].first \in 0..MaxTicks /\ d \in Int /\ d = timer[t].first - behind
    <3>1. timer[t].first \in 0..MaxTicks
      BY <1>1 DEF Record
    <3> QED
      BY <1>1, <3>1, TimerAssumption
  <2> HIDE DEF d
  <2>4. /\ r \in Record /\ r.active /\ r.exists = timer[t].exists
        /\ r.due = d /\ r.first = timer[t].first
    BY <1>1, <2>3 DEF Record
  <2>5. timer' = [timer EXCEPT ![t] = r]
    BY <2>1 DEF Data
  <2> HIDE DEF r
  <2>6. Others(t) /\ timer'[t] = r /\ age'[t] = m.age
    BY <2>1, <2>2, <2>4, <2>5, Changed
  <2>7. OldEnough(age'[t], timer'[t])
    BY <1>1, <2>2, <2>3, <2>4, <2>6, TimerAssumption DEF OldEnough
  <2>8. Range(list) = Range(list) \ {t} /\ behind' \in Nat
    BY <1>1, <1>3 DEF Data, ListMatchesState
  <2> QED
    BY <1>1, <2>1, <2>4, <2>6, <2>7, <2>8, Activated
<1> QED
  BY <1>2, <1>3

LEMMA StopData ==
    ASSUME Data, NEW t \in Timer, Stop(t), UNCHANGED behind
    PROVE  Data'
<1>1. behind \in Nat /\ list \in Seq(Timer) /\ IsInjective(list) /\ timer[t] \in Record
  BY DEF Data, ListMatchesState
<1>2. list' \in Seq(Timer) /\ IsInjective(list') /\ Range(list') = Range(list) \ {t}
  <2>1. CASE timer[t].active
    BY <1>1, <2>1, UnlinkOf DEF Stop
  <2>2. CASE ~timer[t].active
    BY <1>1, <2>2 DEF Stop, Data, ListMatchesState
  <2> QED
    BY <2>1, <2>2
<1>3. Others(t) /\ ~timer'[t].active /\ age'[t] = NULL
  <2> DEFINE r == [timer[t] EXCEPT !.active = FALSE, !.due = 0]
  <2>1. 0 \in Int
    OBVIOUS
  <2>2. r \in Record /\ ~r.active
    BY <1>1, <2>1, Rested
  <2>3. timer' = [timer EXCEPT ![t] = r] /\ age' = [age EXCEPT ![t] = NULL] /\ NULL \in Ages
    BY <1>1 DEF Stop, Data, Ages
  <2> HIDE DEF r
  <2> QED
    BY <2>2, <2>3, Changed
<1>4. behind' \in Nat
  BY <1>1
<1> QED
  BY <1>2, <1>3, <1>4, Deactivated

LEMMA ArgChgAutoData ==
    ASSUME Data, NEW m \in Message, NEW t \in Timer, timer[t].exists,
           m.cmd = "ARG_CHG_AUTO", m.age # NULL => behind <= m.age \/ m.age = MaxTicks,
           ArgChgAuto(t, m), UNCHANGED behind
    PROVE  Data'
<1> DEFINE d == timer[t].first - behind
           r == [timer[t] EXCEPT !.active = TRUE, !.arg = m.arg, !.due = d]
           l == Unlink(list, t)
<1>1. behind \in Nat /\ list \in Seq(Timer) /\ IsInjective(list) /\ timer[t] \in Record
  BY DEF Data, ListMatchesState
<1>2. m.age \in 0..MaxTicks /\ m.age \in Ages /\ m.arg \in Arg
  BY DEF Message, Ages
<1>3. /\ timer' = [timer EXCEPT ![t].active = TRUE, ![t].arg = m.arg, ![t].due = d]
      /\ age' = [age EXCEPT ![t] = m.age] /\ list' = PriInsert(l, t, timer[t].first)
  BY DEF ArgChgAuto
<1>4. timer[t].first \in 0..MaxTicks /\ d \in Int /\ d = timer[t].first - behind
  <2>1. timer[t].first \in 0..MaxTicks
    BY <1>1 DEF Record
  <2> QED
    BY <1>1, <2>1, TimerAssumption
<1> HIDE DEF d
<1>5. /\ r \in Record /\ r.active /\ r.exists = timer[t].exists
      /\ r.due = d /\ r.first = timer[t].first
  BY <1>1, <1>2, <1>4 DEF Record
<1>6. timer' = [timer EXCEPT ![t] = r]
  BY <1>3 DEF Data
<1> HIDE DEF r
<1>7. Others(t) /\ timer'[t] = r /\ age'[t] = m.age
  BY <1>2, <1>3, <1>5, <1>6, Changed
<1>8. OldEnough(age'[t], timer'[t])
  BY <1>1, <1>2, <1>4, <1>5, <1>7, TimerAssumption DEF OldEnough
<1>9. l \in Seq(Timer) /\ IsInjective(l) /\ Range(l) = Range(list) \ {t}
  BY <1>1, UnlinkOf
<1>10. behind' \in Nat
  BY <1>1
<1> HIDE DEF l
<1> QED
  BY <1>3, <1>5, <1>7, <1>8, <1>9, <1>10, Activated

LEMMA ChangeData ==
    ASSUME Data, NEW m \in Message, NEW t \in Timer,
           m.cmd \in {"CHG", "ARG_CHG", "DEL", "DYN_DEL"}, Change(t, m), UNCHANGED behind
    PROVE  Data'
<1>1. behind \in Nat /\ list \in Seq(Timer) /\ IsInjective(list) /\ timer[t] \in Record
  BY DEF Data, ListMatchesState
<1>2. UNCHANGED <<list, age>>
  BY DEF Change
<1>3. CASE timer[t].active
  BY <1>1, <1>2, <1>3, DataSame DEF Change
<1>4. CASE ~timer[t].active
  <2>1. Others(t) /\ ~timer'[t].active
    <3>1. CASE m.cmd = "CHG"
      <4>1. m.set.first \in 0..MaxTicks /\ m.set.round \in 0..MaxTicks
        BY <3>1, TimerAssumption DEF Message
      <4>2. timer' = [timer EXCEPT ![t].first = m.set.first, ![t].round = m.set.round]
        BY <1>4, <3>1 DEF Change
      <4> QED
        BY <1>1, <1>2, <1>4, <4>1, <4>2 DEF Others, Data, Record
    <3>2. CASE m.cmd = "ARG_CHG"
      <4>1. m.arg \in Arg
        BY <3>2 DEF Message
      <4>2. timer' = [timer EXCEPT ![t].arg = m.arg]
        BY <1>4, <3>2 DEF Change
      <4> QED
        BY <1>1, <1>2, <1>4, <4>1, <4>2 DEF Others, Data, Record
    <3>3. CASE m.cmd \in {"DEL", "DYN_DEL"}
      <4>1. PICK e \in BOOLEAN : timer' = [timer EXCEPT ![t].exists = e]
        BY <1>1, <1>4, <3>3 DEF Change, Record
      <4> QED
        BY <1>1, <1>2, <1>4, <4>1 DEF Others, Data, Record
    <3> QED
      BY <3>1, <3>2, <3>3
  <2>2. /\ behind' \in Nat /\ list' \in Seq(Timer) /\ IsInjective(list')
        /\ Range(list') = Range(list) \ {t} /\ age'[t] = NULL
    BY <1>1, <1>2, <1>4 DEF Data, ListMatchesState
  <2> QED
    BY <2>1, <2>2, Deactivated
<1> QED
  BY <1>3, <1>4

LEMMA CmdInv == ASSUME Inv, Cmd PROVE Inv'
<1>1. /\ pc = "cmd" /\ msg \in Message /\ msg # NULL /\ CmdProc(msg) /\ msg' = NULL
      /\ UNCHANGED <<behind, queue>> /\ pc' \in {"cb", "look"}
      /\ pc' = "cb" => cur' = First(list')
  BY TimerAssumption DEF Cmd, Inv, Comm
<1>2. msg.timer \in Timer /\ Data /\ behind' \in Nat
  BY <1>1 DEF Message, Inv, Data
<1>3. HasAge(msg) /\ msg.age # NULL => behind <= msg.age \/ msg.age = MaxTicks
  BY <1>1 DEF Inv, Comm
<1>4. Data'
  <2> DEFINE t == msg.timer
  <2>1. CASE ~timer[t].exists
    BY <1>1, <1>2, <2>1, DataSame DEF CmdProc
  <2>2. CASE timer[t].exists
    <3>1. CASE msg.cmd = "START" /\ Start(t, msg)
      BY <1>1, <1>2, <1>3, <2>2, <3>1, StartData DEF HasAge
    <3>2. CASE msg.cmd = "STOP" /\ Stop(t)
      BY <1>1, <1>2, <3>2, StopData
    <3>3. CASE msg.cmd = "ARG_CHG_AUTO" /\ ArgChgAuto(t, msg)
      BY <1>1, <1>2, <1>3, <2>2, <3>3, ArgChgAutoData DEF HasAge
    <3>4. CASE msg.cmd \in {"CHG", "ARG_CHG", "DEL", "DYN_DEL"} /\ Change(t, msg)
      BY <1>1, <1>2, <3>4, ChangeData
    <3> QED
      BY <1>1, <2>2, <3>1, <3>2, <3>3, <3>4 DEF CmdProc
  <2> QED
    BY <2>1, <2>2
<1>5. Comm'
  BY <1>1 DEF Inv, Comm
<1>6. Place'
  BY <1>1, <1>4, FirstOf DEF Data, Place
<1> QED
  BY <1>4, <1>5, <1>6 DEF Inv

LEMMA GotInv == ASSUME Inv, Got PROVE Inv'
<1>1. /\ msg \in Message /\ behind' = 0 /\ pc' \in {"cmd", "cb"}
      /\ UNCHANGED <<queue, list, timer, msg, age>>
      /\ pc' = "cb" => cur' = First(list)
  BY DEF Got, Inv, Comm
<1> QED
  BY <1>1, ReadTickInv

LEMMA TimedOutInv == ASSUME Inv, TimedOut PROVE Inv'
<1>1. behind' = 0 /\ pc' = "cb" /\ cur' = First(list)
      /\ UNCHANGED <<queue, list, timer, msg, age>>
  BY DEF TimedOut
<1> QED
  BY <1>1, ReadTickInv

-----------------------------------------------------------------------------
(* The tick. *)
LEMMA OlderOf == \A n \in Ages : Older(n) \in Ages
  BY TimerAssumption DEF Older, Ages

LEMMA AgedOf ==
    ASSUME NEW m \in Message
    PROVE  /\ Aged(m) \in Message /\ Aged(m).cmd = m.cmd
           /\ HasAge(m) => Aged(m).age = Older(m.age)
<1>1. m # NULL
  BY TimerAssumption
<1>2. CASE m \in [cmd : {"START"}, timer : Timer, age : 0..MaxTicks]
  <2>1. Older(m.age) \in 0..MaxTicks
    BY <1>2, TimerAssumption DEF Older
  <2>2. Aged(m) = [m EXCEPT !.age = Older(m.age)]
    BY <1>1, <1>2 DEF Aged
  <2> QED
    BY <1>2, <2>1, <2>2 DEF Message
<1>3. CASE m \in [cmd : {"ARG_CHG_AUTO"}, timer : Timer, arg : Arg, age : 0..MaxTicks]
  <2>1. Older(m.age) \in 0..MaxTicks
    BY <1>3, TimerAssumption DEF Older
  <2>2. Aged(m) = [m EXCEPT !.age = Older(m.age)]
    BY <1>1, <1>3 DEF Aged
  <2> QED
    BY <1>3, <2>1, <2>2 DEF Message
<1>4. CASE m \in [cmd : {"STOP", "DEL", "DYN_DEL"}, timer : Timer]
               \cup [cmd : {"CHG"}, timer : Timer, set : Setting]
               \cup [cmd : {"ARG_CHG"}, timer : Timer, arg : Arg]
  <2>1. "age" \notin DOMAIN m /\ ~HasAge(m)
    BY <1>4 DEF HasAge
  <2> QED
    BY <2>1 DEF Aged
<1> QED
  BY <1>2, <1>3, <1>4 DEF Message

(* A tick makes a timer at least as old as it brings it nearer. *)
LEMMA TickTimer ==
    ASSUME Data, NEW t \in Timer, Tick
    PROVE  /\ timer'[t] \in Record /\ age'[t] \in Ages
           /\ (timer'[t].active <=> timer[t].active) /\ (timer'[t].exists <=> timer[t].exists)
           /\ ~timer'[t].active => age'[t] = NULL
           /\ OldEnough(age'[t], timer'[t])
<1>1. timer[t] \in Record /\ age[t] \in Ages /\ age'[t] = Older(age[t])
  BY DEF Data, Tick
<1>2. age'[t] \in Ages
  BY <1>1, OlderOf
<1>3. CASE ~timer[t].active
  BY <1>1, <1>2, <1>3 DEF Tick, Data, OldEnough, Older
<1>4. CASE timer[t].active
  <2> DEFINE d == Nearer(timer[t].due)
             r == [timer[t] EXCEPT !.due = d]
  <2>1. timer[t].due \in Int /\ timer[t].first \in 0..MaxTicks
    BY <1>1 DEF Record
  <2>2. d \in Int /\ d >= timer[t].due - 1
    BY <2>1 DEF Nearer
  <2>3. timer'[t] = r
    BY <1>4 DEF Tick
  <2> HIDE DEF d
  <2>4. /\ r \in Record /\ r.active = timer[t].active /\ r.exists = timer[t].exists
        /\ r.due = d /\ r.first = timer[t].first
    BY <1>1, <2>2 DEF Record
  <2> HIDE DEF r
  <2>5. OldEnough(age[t], timer[t])
    BY DEF Data
  <2>6. OldEnough(age'[t], r)
    <3>1. CASE age[t] = NULL \/ age[t] = MaxTicks
      BY <1>1, <3>1 DEF Older, OldEnough
    <3>2. CASE age[t] # NULL /\ age[t] # MaxTicks
      <4>1. age[t] \in 0..MaxTicks /\ age'[t] = age[t] + 1
        BY <1>1, <3>2 DEF Ages, Older
      <4>2. age[t] + timer[t].due >= timer[t].first
        BY <2>5, <3>2 DEF OldEnough
      <4>3. age[t] \in Int
        BY <4>1, TimerAssumption
      <4> QED
        BY <2>1, <2>2, <2>4, <4>1, <4>2, <4>3, TimerAssumption DEF OldEnough
    <3> QED
      BY <3>1, <3>2
  <2> QED
    BY <1>2, <1>4, <2>3, <2>4, <2>6
<1> QED
  BY <1>3, <1>4

LEMMA TickInv == ASSUME Inv, Tick PROVE Inv'
<1>1. behind \in Nat /\ behind' \in Nat /\ behind' <= behind + 1 /\ UNCHANGED <<list, cur>>
  BY DEF Inv, Data, Tick
<1>2. Data'
  <2>1. timer' \in [Timer -> Record] /\ age' \in [Timer -> Ages]
    <3>1. /\ timer' = [t \in Timer |-> IF timer[t].active
                            THEN [timer[t] EXCEPT !.due = Nearer(@)] ELSE timer[t]]
          /\ age' = [t \in Timer |-> Older(age[t])]
      BY DEF Tick
    <3>2. \A t \in Timer : timer'[t] \in Record /\ age'[t] \in Ages
      BY TickTimer DEF Inv
    <3> QED
      BY <3>1, <3>2
  <2>2. \A t \in Timer :
            /\ timer'[t].active <=> timer[t].active
            /\ timer'[t].exists <=> timer[t].exists
            /\ ~timer'[t].active => age'[t] = NULL
            /\ OldEnough(age'[t], timer'[t])
    BY TickTimer DEF Inv
  <2>3. Range(list) \subseteq Timer
    BY DEF Inv, Data, Range
  <2>4. ListMatchesState /\ list \in Seq(Timer)
    BY DEF Inv, Data
  <2>5. /\ Range(list') = Range(list) /\ IsInjective(list')
        /\ list' \in Seq(Timer) /\ behind' \in Nat
    BY <1>1, <2>4 DEF ListMatchesState
  <2>6. \A t \in Timer : timer'[t].active <=> t \in Range(list)
    BY <2>2, <2>4 DEF ListMatchesState
  <2>7. \A t \in Range(list) : timer'[t].exists
    BY <2>2, <2>3, <2>4 DEF ListMatchesState
  <2>8. ListMatchesState'
    BY <2>5, <2>6, <2>7 DEF ListMatchesState
  <2>9. /\ \A t \in Timer : ~timer'[t].active => age'[t] = NULL
        /\ \A t \in Timer : OldEnough(age'[t], timer'[t])
    BY <2>2
  <2> QED
    BY <2>1, <2>5, <2>8, <2>9 DEF Data, OldEnough
<1>3. Comm'
  <2>1. queue' \in Seq(Message)
    <3>1. \A i \in 1..Len(queue) : Aged(queue[i]) \in Message
      BY AgedOf DEF Inv, Comm
    <3> QED
      BY <3>1 DEF Tick, Inv, Comm
  <2>2. msg' = Aged(msg) /\ (pc' = pc \/ pc' = "timeout")
    BY DEF Tick
  <2>3. CASE msg = NULL
    <3>1. msg' = NULL
      BY <2>2, <2>3 DEF Aged
    <3> QED
      BY <2>1, <2>2, <2>3, <3>1 DEF Inv, Comm
  <2>4. CASE msg # NULL
    <3>1. msg \in Message /\ msg' \in Message /\ HasAge(msg') = HasAge(msg)
      BY <2>2, <2>4, AgedOf DEF Inv, Comm, HasAge
    <3>2. ASSUME pc' \in {"cmd", "cb"}, HasAge(msg'), msg'.age # NULL
          PROVE  behind' <= msg'.age \/ msg'.age = MaxTicks
      <4>1. msg.age \in 0..MaxTicks /\ HasAge(msg)
        BY <3>1, <3>2 DEF HasAge, Message
      <4>2. msg'.age = Older(msg.age)
        BY <2>2, <3>1, <4>1, AgedOf
      <4>3. CASE msg.age = NULL \/ msg.age = MaxTicks
        BY <3>2, <4>2, <4>3 DEF Older
      <4>4. CASE msg.age # NULL /\ msg.age # MaxTicks
        <5>1. msg'.age = msg.age + 1
          BY <4>2, <4>4 DEF Older
        <5>2. behind <= msg.age
          BY <2>2, <2>4, <3>2, <4>1, <4>4 DEF Inv, Comm
        <5> QED
          BY <1>1, <4>1, <5>1, <5>2, TimerAssumption
      <4> QED
        BY <4>3, <4>4
    <3> QED
      BY <2>1, <2>2, <3>1, <3>2 DEF Inv, Comm
  <2> QED
    BY <2>3, <2>4
<1>4. Place'
  BY <1>1 DEF Tick, Inv, Place
<1> QED
  BY <1>2, <1>3, <1>4 DEF Inv

-----------------------------------------------------------------------------
(* The theorems. *)
LEMMA NextInv == ASSUME Inv, [Next]_vars PROVE Inv'
<1>1. CASE UNCHANGED vars
  <2>1. UNCHANGED <<behind, queue, list, timer, pc, msg, cur, age>>
    BY <1>1 DEF vars, task
  <2>2. Data'
    BY <2>1, DataSame DEF Inv, Data
  <2> QED
    BY <2>1, <2>2 DEF Inv, Comm, Place, HasAge
<1>2. CASE TimerTask
  BY <1>2, RecvInv, GotInv, TimedOutInv, CmdInv, LookInv, CbEndInv, FireInv DEF TimerTask
<1>3. CASE Tick
  BY <1>3, TickInv
<1>4. CASE Callers
  BY <1>4, SendInv, CreateInv DEF Callers
<1> QED
  BY <1>1, <1>2, <1>3, <1>4 DEF Next

LEMMA InvHolds == Spec => []Inv
<1>1. Init => Inv
  BY InitInv
<1>2. Inv /\ [Next]_vars => Inv'
  BY NextInv
<1> QED
  BY <1>1, <1>2, PTL DEF Spec

(* k_timer.c, whatever is sent to the timer task and however late it is: a *)
(* timer is in g_timer_head once, exactly while it is active, and one that *)
(* was deleted is not, so that the list never leads to memory that is free.*)
THEOREM ListAlwaysMatches == Spec => []ListMatchesState
<1>1. Inv => ListMatchesState
  BY DEF Inv, Data
<1> QED
  BY <1>1, InvHolds, PTL

(* krhino_timer_start: its callback is not called before first ticks have  *)
(* passed since the call, however long the command was queued, for the age *)
(* of a command in hand is never less than what the task missed since it   *)
(* last read the tick, which is what it takes off the match.               *)
THEOREM NeverCalledEarly == Spec => NeverEarly
<1>1. ASSUME Inv, NEW t \in Timer, age[t] # NULL, Fire(t) PROVE age[t] >= timer[t].first
  <2>1. /\ timer[t] \in Record /\ age[t] \in Ages /\ behind \in Nat
        /\ OldEnough(age[t], timer[t])
    BY <1>1 DEF Inv, Data
  <2>2. /\ age[t] \in 0..MaxTicks /\ timer[t].due \in Int
        /\ timer[t].first \in 0..MaxTicks
    BY <1>1, <2>1 DEF Record, Ages
  <2>3. timer[t].due + behind <= 0
    BY <1>1 DEF Fire, Expired
  <2> QED
    BY <1>1, <2>1, <2>2, <2>3, TimerAssumption DEF OldEnough
<1>2. Inv => \A t \in Timer : age[t] # NULL /\ Fire(t) => age[t] >= timer[t].first
  BY <1>1
<1>3. Inv /\ [Next]_vars =>
          [\A t \in Timer : age[t] # NULL /\ Fire(t) => age[t] >= timer[t].first]_vars
  BY <1>2
<1> QED
  BY <1>3, InvHolds, PTL DEF Spec, NeverEarly
-----------------------------------------------------------------------------
(* Types.  What Typed says beyond Inv, with what it needs: the task does   *)
(* not wait for no ticks.                                                  *)
DueBounded == \A t \in Timer : timer[t].due \in (-Cap)..MaxTicks

Bounds ==
    /\ behind <= Cap /\ lag \in 0..MaxLag /\ Len(queue) <= MsgNum
    /\ DueBounded
    /\ pc \in {"recv", "blocked", "got", "timeout", "cmd", "cb", "look"}
    /\ inner \in BOOLEAN /\ left \in 0..MaxTicks /\ cur \in Timer \cup {NULL}
    /\ pc \in {"got", "cmd"} => msg # NULL
    /\ pc \in {"recv", "blocked", "timeout", "look"} => msg = NULL
    /\ inner /\ pc \in {"recv", "blocked"} => left > 0

LEMMA CapIs == Cap \in Nat /\ Cap = MaxTicks + MaxTicks /\ MaxTicks \in Nat /\ MaxTicks > 0
  BY TimerAssumption DEF Cap

LEMMA TypedOf == Inv /\ Bounds => Typed
<1> SUFFICES ASSUME Inv, Bounds PROVE Typed
  OBVIOUS
<1>1. timer \in [Timer -> Ktimer]
  <2>1. timer \in [Timer -> Record]
    BY DEF Inv, Data
  <2>2. \A t \in Timer : timer[t] \in Ktimer
    BY <2>1 DEF Bounds, DueBounded, Record, Ktimer
  <2> QED
    BY <2>1, <2>2
<1>2. behind \in 0..Cap
  BY CapIs DEF Inv, Data, Bounds
<1> QED
  BY <1>1, <1>2 DEF Inv, Data, Comm, Bounds, Typed, Ages

LEMMA InitBounds == Init => Bounds
<1> SUFFICES ASSUME Init PROVE Bounds
  OBVIOUS
<1>1. DueBounded
  BY CapIs DEF Init, NoTimer, DueBounded
<1>2. Len(queue) <= MsgNum
  BY TimerAssumption DEF Init
<1>3. behind <= Cap /\ lag \in 0..MaxLag /\ left \in 0..MaxTicks
  BY CapIs, TimerAssumption DEF Init
<1> QED
  BY <1>1, <1>2, <1>3 DEF Init, Bounds

(* The callers. *)
LEMMA SendBounds ==
    ASSUME Inv, Bounds, NEW m \in Message, BufQueueSend(m), DueBounded',
           UNCHANGED <<behind, inner, cur, lag>>
    PROVE  Bounds'
<1>1. m # NULL
  BY TimerAssumption
<1>2. CASE pc = "blocked"
  <2>1. msg' = m /\ pc' = "got" /\ left' = 0 /\ queue' = queue
    BY <1>2 DEF BufQueueSend
  <2> QED
    BY <1>1, <2>1, CapIs DEF Bounds
<1>3. CASE pc # "blocked"
  <2>1. UNCHANGED <<msg, pc, left>> /\ queue' = IF Full THEN queue ELSE Append(queue, m)
    BY <1>3 DEF BufQueueSend
  <2>2. queue \in Seq(Message) /\ Len(queue) <= MsgNum /\ MsgNum \in Nat
    BY TimerAssumption DEF Inv, Comm, Bounds
  <2>3. Len(queue') <= MsgNum
    <3>1. CASE Full
      BY <2>1, <2>2, <3>1
    <3>2. CASE ~Full
      <4>1. Len(queue) # MsgNum
        BY <1>3, <3>2 DEF Full
      <4> QED
        BY <2>1, <2>2, <3>2, <4>1
    <3> QED
      BY <3>1, <3>2
  <2> QED
    BY <2>1, <2>3 DEF Bounds
<1> QED
  BY <1>2, <1>3

LEMMA CallersBounds == ASSUME Inv, Bounds, Callers PROVE Bounds'
<1>1. PICK t \in Timer :
          \/ Send(t)
          \/ \E s \in Setting, a \in Arg, autoRun \in BOOLEAN : Create(t, s, a, autoRun)
  BY DEF Callers
<1>2. CASE Send(t)
  <2>1. PICK m \in Message : BufQueueSend(m)
    BY <1>2, MessagesTyped DEF Send
  <2>2. DueBounded' /\ UNCHANGED <<behind, inner, cur, lag>>
    BY <1>2 DEF Send, Bounds, DueBounded
  <2> QED
    BY <2>1, <2>2, SendBounds
<1>3. ASSUME NEW s \in Setting, NEW a \in Arg, NEW autoRun \in BOOLEAN,
             Create(t, s, a, autoRun)
      PROVE  Bounds'
  <2>1. UNCHANGED <<behind, inner, cur, lag>>
    BY <1>3 DEF Create
  <2>2. DueBounded'
    <3>1. \A u \in Timer : timer'[u].due = timer[u].due \/ timer'[u].due = 0
      BY <1>3 DEF Create, Inv, Data
    <3> QED
      BY <3>1, CapIs DEF Bounds, DueBounded
  <2>3. CASE autoRun
    <3>1. StartMsg("START", t) \in Message
      BY TimerAssumption DEF StartMsg, Message
    <3>2. BufQueueSend(StartMsg("START", t))
      BY <1>3, <2>3 DEF Create
    <3> QED
      BY <2>1, <2>2, <3>1, <3>2, SendBounds
  <2>4. CASE ~autoRun
    <3>1. UNCHANGED <<queue, msg, pc, left>>
      BY <1>3, <2>4 DEF Create
    <3> QED
      BY <2>1, <2>2, <3>1 DEF Bounds
  <2> QED
    BY <2>3, <2>4
<1> QED
  BY <1>1, <1>2, <1>3

(* The timer task. *)
LEMMA DueUnlessChanged ==
    ASSUME DueBounded, NEW t, NEW d, d \in (-Cap)..MaxTicks,
           \A u \in Timer : timer'[u].due = IF u = t THEN d ELSE timer[u].due
    PROVE  DueBounded'
  BY DEF DueBounded

LEMMA DueSet ==
    ASSUME Inv, Bounds, NEW n \in 0..MaxTicks
    PROVE  n - behind \in (-Cap)..MaxTicks
  BY CapIs DEF Inv, Data, Bounds

LEMMA TimersOf ==
    ASSUME Inv, NEW t \in Timer
    PROVE  timer[t].first \in 0..MaxTicks /\ timer[t].round \in 0..MaxTicks
           /\ timer[t].due \in Int /\ timer[t].active \in BOOLEAN
           /\ timer \in [Timer -> Record] /\ timer[t] \in Record
<1>1. timer[t] \in Record
  BY DEF Inv, Data
<1> QED
  BY <1>1 DEF Inv, Data, Record

(* Of a command carried out, what becomes of the time that is left. *)
LEMMA CmdDue ==
    ASSUME Inv, NEW m \in Message, CmdProc(m)
    PROVE  \A u \in Timer :
               timer'[u].due = timer[u].due
               \/ (u = m.timer /\ timer'[u].due \in {0, timer[u].first - behind})
<1> DEFINE t == m.timer
<1>1. t \in Timer
  BY DEF Message
<1>2. timer \in [Timer -> Record] /\ timer[t] \in Record
  BY <1>1, TimersOf
<1> SUFFICES ASSUME NEW u \in Timer
             PROVE  timer'[u].due = timer[u].due
                    \/ (u = t /\ timer'[u].due \in {0, timer[u].first - behind})
  OBVIOUS
<1> HIDE DEF t
<1>3. CASE timer' = timer
  BY <1>3
<1>4. CASE Start(t, m)
  BY <1>1, <1>2, <1>4 DEF Start, Record
<1>5. CASE Stop(t)
  BY <1>1, <1>2, <1>5 DEF Stop, Record
<1>6. CASE ArgChgAuto(t, m)
  BY <1>1, <1>2, <1>6 DEF ArgChgAuto, Record
<1>7. CASE Change(t, m) /\ m.cmd \in {"CHG", "ARG_CHG", "DEL", "DYN_DEL"}
  BY <1>1, <1>2, <1>7 DEF Change, Record
<1> QED
  BY <1>3, <1>4, <1>5, <1>6, <1>7 DEF CmdProc, t

LEMMA CmdBounds == ASSUME Inv, Bounds, Cmd, Inv' PROVE Bounds'
<1>1. /\ pc = "cmd" /\ msg \in Message /\ CmdProc(msg) /\ msg' = NULL
      /\ UNCHANGED <<behind, queue, inner, left, lag>>
      /\ (pc' = "cb" /\ cur' = First(list')) \/ (pc' = "look" /\ cur' = cur)
  BY DEF Cmd, Inv, Comm
<1>2. DueBounded'
  <2>1. \A u \in Timer : timer[u].first - behind \in (-Cap)..MaxTicks
    BY TimersOf, DueSet
  <2>2. 0 \in (-Cap)..MaxTicks
    BY CapIs
  <2> QED
    BY <1>1, <2>1, <2>2, CmdDue DEF Bounds, DueBounded
<1>3. cur' \in Timer \cup {NULL}
  <2>1. list' \in Seq(Timer) /\ Range(list') \subseteq Timer
    BY DEF Inv, Data, Range
  <2> QED
    BY <1>1, <2>1, FirstOf DEF Bounds
<1> QED
  BY <1>1, <1>2, <1>3 DEF Bounds

LEMMA FireDue ==
    ASSUME Inv, NEW t \in Timer, Fire(t)
    PROVE  \A u \in Timer :
               timer'[u].due = timer[u].due
               \/ (u = t /\ timer'[u].due \in {0, timer[u].round - behind})
<1>1. timer \in [Timer -> Record] /\ timer[t] \in Record
  BY TimersOf
<1> QED
  BY <1>1 DEF Fire, Record

LEMMA FireBounds == ASSUME Inv, Bounds, NEW t \in Timer, Fire(t), Inv' PROVE Bounds'
<1>1. pc = "cb" /\ UNCHANGED <<behind, queue, pc, inner, left, msg, lag>>
  BY DEF Fire
<1>2. DueBounded'
  <2>1. \A u \in Timer : timer[u].round - behind \in (-Cap)..MaxTicks
    BY TimersOf, DueSet
  <2>2. 0 \in (-Cap)..MaxTicks
    BY CapIs
  <2> QED
    BY <2>1, <2>2, FireDue DEF Bounds, DueBounded
<1>3. cur' \in Timer \cup {NULL}
  <2>1. Range(list') \subseteq Timer
    BY DEF Inv, Data, Range
  <2> QED
    BY <1>1, <2>1 DEF Inv, Place
<1> QED
  BY <1>1, <1>2, <1>3 DEF Bounds

LEMMA ListHead ==
    ASSUME Inv
    PROVE  /\ First(list) \in Timer \cup {NULL}
           /\ list # <<>> => Head(list) \in Range(list) /\ Head(list) \in Timer
<1>1. list \in Seq(Timer) /\ Range(list) \subseteq Timer
  BY DEF Inv, Data, Range
<1>2. list # <<>> => 1 \in DOMAIN list /\ Head(list) = list[1]
  BY <1>1
<1> QED
  BY <1>1, <1>2, FirstOf DEF Range

LEMMA TaskBounds == ASSUME Inv, Bounds, TimerTask, Inv' PROVE Bounds'
<1>1. CASE Recv
  <2>1. DueBounded' /\ UNCHANGED <<behind, inner, cur>> /\ msg = NULL
    BY <1>1 DEF Recv, Bounds, DueBounded
  <2>0. lag' \in 0..MaxLag
    BY <1>1, TimerAssumption DEF Recv, Bounds
  <2>2. CASE queue = <<>>
    BY <1>1, <2>0, <2>1, <2>2 DEF Recv, Bounds
  <2>3. CASE queue # <<>>
    <3>1. Head(queue) \in Message /\ Len(Tail(queue)) <= Len(queue) /\ Len(queue) \in Nat
      BY <2>3 DEF Inv, Comm
    <3>2. Head(queue) # NULL
      BY <3>1, TimerAssumption
    <3>3. /\ pc' = "got" /\ msg' = Head(queue) /\ queue' = Tail(queue) /\ left' = 0
      BY <1>1, <2>3 DEF Recv
    <3>4. Len(queue') <= MsgNum /\ left' \in 0..MaxTicks
      BY <3>1, <3>3, CapIs, TimerAssumption DEF Bounds, Inv, Comm
    <3> QED
      BY <2>0, <2>1, <3>2, <3>3, <3>4 DEF Bounds
  <2> QED
    BY <2>2, <2>3
<1>2. CASE Got \/ TimedOut
  <2>1. /\ DueBounded' /\ UNCHANGED <<queue, inner, left, msg>> /\ behind' = 0 /\ lag' = 0
        /\ cur' \in Timer \cup {NULL} /\ pc' \in {"cb", "cmd"}
        /\ pc' = "cmd" => pc = "got"
    BY <1>2, ListHead DEF Got, TimedOut, Bounds, DueBounded
  <2> QED
    BY <2>1, CapIs, TimerAssumption DEF Bounds
<1>3. CASE Cmd
  BY <1>3, CmdBounds
<1>4. CASE Look
  <2>1. /\ DueBounded' /\ UNCHANGED <<queue, msg>> /\ lag' = 0 /\ pc = "look"
        /\ inner' = (list # <<>>) /\ pc' \in {"recv", "cb"}
    BY <1>4 DEF Look, Bounds, DueBounded
  <2>2. behind' <= Cap
    BY <1>4, CapIs DEF Look, Bounds
  <2>3. cur' \in Timer \cup {NULL}
    BY <1>4, ListHead DEF Look, Bounds
  <2>4. left' \in 0..MaxTicks /\ (inner' /\ pc' = "recv" => left' > 0)
    <3>1. CASE list = <<>>
      BY <1>4, <3>1 DEF Look, Bounds
    <3>2. CASE list # <<>>
      <4>1. timer[Head(list)].due \in (-Cap)..MaxTicks
        BY <3>2, ListHead DEF Bounds, DueBounded
      <4> QED
        BY <1>4, <3>2, <4>1, CapIs DEF Look, Bounds
    <3> QED
      BY <3>1, <3>2
  <2> QED
    BY <2>1, <2>2, <2>3, <2>4, TimerAssumption DEF Bounds
<1>5. CASE CbEnd
  <2>1. /\ DueBounded' /\ UNCHANGED <<behind, queue, inner, left, msg, lag>>
        /\ cur' = NULL /\ pc' = IF msg # NULL THEN "cmd" ELSE "look"
    BY <1>5 DEF CbEnd, Bounds, DueBounded
  <2> QED
    BY <2>1 DEF Bounds
<1> QED
  BY <1>1, <1>2, <1>3, <1>4, <1>5, FireBounds DEF TimerTask

(* The tick. *)
LEMMA TickDue ==
    ASSUME Inv, NEW t \in Timer, Tick
    PROVE  timer'[t].due = IF timer[t].active THEN Nearer(timer[t].due) ELSE timer[t].due
<1>1. timer[t] \in Record
  BY TimersOf
<1> QED
  BY <1>1 DEF Tick, Record

LEMMA TickBounds == ASSUME Inv, Bounds, Tick PROVE Bounds'
<1>1. DueBounded'
  <2>1. \A t \in Timer : timer[t].due \in (-Cap)..MaxTicks
    BY DEF Bounds, DueBounded
  <2>2. \A d \in (-Cap)..MaxTicks : Nearer(d) \in (-Cap)..MaxTicks
    BY CapIs DEF Nearer
  <2> QED
    BY <2>1, <2>2, TickDue DEF DueBounded
<1>2. behind' <= Cap
  BY CapIs DEF Tick, Bounds, Inv, Data
<1>3. lag' \in 0..MaxLag
  BY TimerAssumption DEF Tick, Bounds
<1>4. Len(queue') = Len(queue)
  BY DEF Tick, Inv, Comm
<1>5. msg' = NULL <=> msg = NULL
  <2>1. CASE msg = NULL
    BY <2>1 DEF Tick, Aged
  <2>2. CASE msg # NULL
    <3>1. msg \in Message /\ msg' = Aged(msg)
      BY <2>2 DEF Inv, Comm, Tick
    <3>2. msg' \in Message
      BY <3>1, AgedOf
    <3> QED
      BY <2>2, <3>2, TimerAssumption
  <2> QED
    BY <2>1, <2>2
<1>6. /\ pc' = pc \/ (pc = "blocked" /\ pc' = "timeout")
      /\ UNCHANGED <<inner, cur>>
  BY DEF Tick
<1>7. left' \in 0..MaxTicks /\ (inner' /\ pc' \in {"recv", "blocked"} => left' > 0)
  <2>1. CASE pc = "blocked" /\ inner
    <3>1. left \in 0..MaxTicks /\ left > 0 /\ left' = left - 1
          /\ pc' = IF left = 1 THEN "timeout" ELSE pc
      BY <2>1 DEF Tick, Bounds
    <3> QED
      BY <3>1, CapIs
  <2>2. CASE ~(pc = "blocked" /\ inner)
    <3>1. UNCHANGED <<left, pc>>
      BY <2>2 DEF Tick
    <3> QED
      BY <1>6, <3>1 DEF Bounds
  <2> QED
    BY <2>1, <2>2
<1> QED
  BY <1>1, <1>2, <1>3, <1>4, <1>5, <1>6, <1>7 DEF Bounds

LEMMA NextBounds == ASSUME Inv, Bounds, Inv', [Next]_vars PROVE Bounds'
<1>1. CASE UNCHANGED vars
  BY <1>1 DEF vars, task, Bounds, DueBounded
<1> QED
  BY <1>1, CallersBounds, TaskBounds, TickBounds DEF Next

LEMMA BoundsHold == Spec => [](Inv /\ Bounds)
<1>1. Init => Bounds
  BY InitBounds
<1>2. Inv /\ Bounds /\ Inv' /\ [Next]_vars => Bounds'
  BY NextBounds
<1> QED
  BY <1>1, <1>2, InvHolds, PTL DEF Spec

(* The types of TypeOK, whatever is sent and however late the timer task   *)
(* is; that the task never waits for no ticks is part of it.               *)
THEOREM TypesAlwaysHold == Spec => []Typed
  BY BoundsHold, TypedOf, PTL
-----------------------------------------------------------------------------
(* The order of the list, and what keeps it: that no timer in the list was *)
(* due before the tick the timer task has read.  Such a timer counts in    *)
(* timer_list_pri_insert as one with very many ticks left.                 *)
Due == [t \in Timer |-> timer[t].due]
ByDue == Ordered(list, Due)
Rem(t) == timer[t].due + behind
NoneMissed == \A t \in Range(list) : Rem(t) >= 0

LEMMA DueOf ==
    ASSUME Inv
    PROVE  /\ Due \in [Timer -> Int] /\ \A t \in Timer : Due[t] = timer[t].due
           /\ behind \in Nat /\ list \in Seq(Timer) /\ IsInjective(list)
           /\ Range(list) \subseteq Timer /\ DOMAIN list = 1..Len(list) /\ Len(list) \in Nat
           /\ \A i \in 1..Len(list) : list[i] \in Range(list)
<1>1. \A t \in Timer : timer[t].due \in Int
  BY TimersOf
<1> QED
  BY <1>1 DEF Due, Inv, Data, ListMatchesState, Range

LEMMA PutInOrder ==
    ASSUME Inv, NEW l \in Seq(Timer), NEW t \in Timer, t \notin Range(l), NEW val \in Nat,
           Ordered(l, Due), \A u \in Range(l) : Rem(u) >= 0,
           NEW d, d[t] = val - behind, \A u \in Range(l) : d[u] = Due[u]
    PROVE  Ordered(PriInsert(l, t, val), d)
<1> DEFINE key == [u \in Timer |-> IF u \in Range(l) THEN Rem(u) ELSE val]
           I == {i \in 1..Len(l) : timer[l[i]].due + behind < 0
                                   \/ timer[l[i]].due + behind > val}
           i == IF I # {} THEN Min(I) ELSE 0
           m == PriInsert(l, t, val)
<1>1. /\ DOMAIN l = 1..Len(l) /\ Len(l) \in Nat /\ Range(l) \subseteq Timer
      /\ \A j \in 1..Len(l) : l[j] \in Range(l)
  BY DEF Range
<1>2. \A u \in Range(l) : Rem(u) \in Nat /\ Rem(u) = Due[u] + behind /\ Due[u] \in Int
  BY <1>1, DueOf DEF Rem
<1>3. key \in [Timer -> Nat]
  BY <1>2
<1>4. key[t] = val /\ \A u \in Range(l) : key[u] = Rem(u)
  BY <1>1
<1>5. Ordered(l, key)
  <2> SUFFICES ASSUME NEW a \in DOMAIN l, NEW b \in DOMAIN l, a < b
               PROVE  key[l[a]] <= key[l[b]]
    BY DEF Ordered
  <2>1. Due[l[a]] <= Due[l[b]]
    BY DEF Ordered
  <2> QED
    BY <1>1, <1>2, <1>4, <2>1, DueOf
<1>6. m = InsertBefore(l, i, t)
  BY DEF PriInsert, SelectInSeq
<1>7. I \in SUBSET (1..Len(l))
  OBVIOUS
<1>8. \A j \in 1..Len(l) : j \in I <=> key[l[j]] > val
  BY <1>1, <1>2, <1>4 DEF Rem
<1> HIDE DEF I, key
<1>9. /\ i \in 0..Len(l) /\ (i = 0 => I = {}) /\ (i # 0 => i \in I)
      /\ \A j \in 1..Len(l) : j < i => j \notin I
  BY <1>1, <1>7, FirstPlace
<1> HIDE DEF i
<1>10. \A j \in 1..Len(l) : key[l[j]] \in Nat
  BY <1>1, <1>3
<1>11. Ordered(InsertBefore(l, i, t), key)
  <2>1. i = 0 => \A j \in 1..Len(l) : key[l[j]] <= key[t]
    BY <1>4, <1>8, <1>9, <1>10
  <2>2. i # 0 => key[t] <= key[l[i]]
    BY <1>4, <1>7, <1>8, <1>9, <1>10
  <2>3. \A j \in 1..Len(l) : j < i => key[l[j]] <= key[t]
    BY <1>4, <1>8, <1>9, <1>10
  <2> QED
    BY <1>3, <1>5, <1>9, <2>1, <2>2, <2>3, InsertOrdered
<1>12. Range(m) = Range(l) \cup {t}
  BY PriInsertOf
<1>13. \A u \in Range(m) : d[u] = key[u] - behind /\ key[u] \in Nat
  BY <1>1, <1>2, <1>3, <1>4, <1>12, DueOf
<1> HIDE DEF m
<1> SUFFICES ASSUME NEW a \in DOMAIN m, NEW b \in DOMAIN m, a < b
             PROVE  d[m[a]] <= d[m[b]]
  BY DEF Ordered, m
<1>14. key[m[a]] <= key[m[b]]
  BY <1>6, <1>11 DEF Ordered
<1>15. m[a] \in Range(m) /\ m[b] \in Range(m)
  BY DEF Range
<1> QED
  BY <1>13, <1>14, <1>15, DueOf

LEMMA OrderedOfLess ==
    ASSUME NEW l, NEW k, NEW t, Ordered(l, k)
    PROVE  OrderedBut(l, k, t)
  BY DEF Ordered, OrderedBut

LEMMA SameOrder ==
    ASSUME NEW l, NEW k, NEW d, Ordered(l, k), \A u \in Range(l) : d[u] = k[u]
    PROVE  Ordered(l, d)
<1>1. \A i \in DOMAIN l : l[i] \in Range(l)
  BY DEF Range
<1> QED
  BY <1>1 DEF Ordered

(* A timer t is taken out of the list, and put back with val ticks left.   *)
LEMMA Requeued ==
    ASSUME Inv, Inv', NEW t \in Timer, NEW val \in Nat, behind' = behind,
           OrderedBut(list, Due, t), \A u \in Range(list) \ {t} : Rem(u) >= 0,
           \A u \in Timer \ {t} : timer'[u].due = timer[u].due,
           timer'[t].due = val - behind, list' = PriInsert(Unlink(list, t), t, val)
    PROVE  ByDue' /\ NoneMissed'
<1> DEFINE l == Unlink(list, t)
<1>1. l \in Seq(Timer) /\ Range(l) = Range(list) \ {t} /\ IsInjective(l)
  BY DueOf, UnlinkOf
<1>2. Ordered(l, Due)
  BY DueOf, UnlinkOrdered
<1> HIDE DEF l
<1>3. \A u \in Timer : Due'[u] = timer'[u].due
  BY DEF Due
<1>4. Due'[t] = val - behind /\ \A u \in Range(l) : Due'[u] = Due[u]
  BY <1>1, <1>3, DueOf
<1>5. Ordered(PriInsert(l, t, val), Due')
  BY <1>1, <1>2, <1>4, PutInOrder
<1>6. Range(list') = Range(l) \cup {t}
  BY <1>1, PriInsertOf DEF l
<1>7. NoneMissed'
  BY <1>1, <1>6, DueOf DEF NoneMissed, Rem
<1> QED
  BY <1>5, <1>7 DEF ByDue, l

(* It is taken out only. *)
LEMMA TakenOut ==
    ASSUME Inv, NEW t, behind' = behind,
           OrderedBut(list, Due, t), \A u \in Range(list) \ {t} : Rem(u) >= 0,
           \A u \in Timer \ {t} : timer'[u].due = timer[u].due,
           list' = Unlink(list, t)
    PROVE  ByDue' /\ NoneMissed'
<1>1. Range(list') = Range(list) \ {t}
  BY DueOf, UnlinkOf
<1>2. Ordered(list', Due)
  BY DueOf, UnlinkOrdered
<1>3. \A u \in Range(list') : Due'[u] = Due[u]
  BY <1>1, DueOf DEF Due
<1> QED
  BY <1>1, <1>2, <1>3, SameOrder, DueOf DEF ByDue, NoneMissed, Rem

(* Nothing happens to what is in the list. *)
LEMMA OrderKept ==
    ASSUME Inv, list' = list, \A u \in Range(list) : timer'[u].due = timer[u].due
    PROVE  /\ ByDue => ByDue'
           /\ NoneMissed /\ behind' = behind => NoneMissed'
<1>1. \A u \in Range(list) : Due'[u] = Due[u]
  BY DueOf DEF Due
<1> QED
  BY <1>1, SameOrder DEF ByDue, NoneMissed, Rem
LEMMA NotLinked == ASSUME NEW t \in Timer, Inv, ~timer[t].active PROVE Unlink(list, t) = list
  BY DEF Inv, Data, ListMatchesState, Unlink

LEMMA CmdOrder == ASSUME Inv, Inv', Cmd, ByDue, NoneMissed PROVE ByDue' /\ NoneMissed'
<1> DEFINE t == msg.timer
<1>1. msg \in Message /\ t \in Timer /\ CmdProc(msg) /\ behind' = behind
  BY DEF Cmd, Inv, Comm, Message
<1>2. /\ timer \in [Timer -> Record] /\ timer[t] \in Record
      /\ timer[t].first \in Nat /\ behind \in Nat
  BY <1>1, TimersOf, DueOf, CapIs
<1>3. OrderedBut(list, Due, t) /\ \A u \in Range(list) \ {t} : Rem(u) >= 0
  BY OrderedOfLess DEF ByDue, NoneMissed
<1> HIDE DEF t
<1>4. CASE UNCHANGED <<list, timer>>
  BY <1>1, <1>4, OrderKept
<1>5. CASE Start(t, msg) /\ ~timer[t].active
  <2>1. timer'[t].due = timer[t].first - behind
    BY <1>1, <1>2, <1>5 DEF Start, Record
  <2>2. \A u \in Timer \ {t} : timer'[u].due = timer[u].due
    BY <1>1, <1>2, <1>5 DEF Start, Record
  <2>3. list' = PriInsert(Unlink(list, t), t, timer[t].first)
    BY <1>1, <1>5, NotLinked DEF Start
  <2> QED
    BY <1>1, <1>2, <1>3, <2>1, <2>2, <2>3, Requeued
<1>6. CASE Stop(t)
  <2>1. \A u \in Timer \ {t} : timer'[u].due = timer[u].due
    BY <1>1, <1>2, <1>6 DEF Stop, Record
  <2>2. list' = Unlink(list, t)
    BY <1>1, <1>6, NotLinked DEF Stop
  <2> QED
    BY <1>1, <1>3, <2>1, <2>2, TakenOut
<1>7. CASE ArgChgAuto(t, msg)
  <2>1. timer'[t].due = timer[t].first - behind
    BY <1>1, <1>2, <1>7 DEF ArgChgAuto, Record
  <2>2. \A u \in Timer \ {t} : timer'[u].due = timer[u].due
    BY <1>1, <1>2, <1>7 DEF ArgChgAuto, Record
  <2>3. list' = PriInsert(Unlink(list, t), t, timer[t].first)
    BY <1>7 DEF ArgChgAuto
  <2> QED
    BY <1>1, <1>2, <1>3, <2>1, <2>2, <2>3, Requeued
<1>8. CASE Change(t, msg) /\ msg.cmd \in {"CHG", "ARG_CHG", "DEL", "DYN_DEL"}
  <2>1. \A u \in Timer : timer'[u].due = timer[u].due
    BY <1>1, <1>2, <1>8 DEF Change, Record
  <2> QED
    BY <1>1, <1>8, <2>1, DueOf, OrderKept DEF Change
<1> QED
  BY <1>1, <1>4, <1>5, <1>6, <1>7, <1>8 DEF CmdProc, Start, t

LEMMA FireOrder ==
    ASSUME Inv, Inv', NEW t \in Timer, Fire(t), OrderedBut(list, Due, t),
           \A u \in Range(list) \ {t} : Rem(u) >= 0
    PROVE  ByDue' /\ NoneMissed'
<1>1. /\ timer \in [Timer -> Record] /\ timer[t] \in Record
      /\ timer[t].round \in Nat /\ behind \in Nat /\ behind' = behind
  BY TimersOf, DueOf, CapIs DEF Fire
<1>2. \A u \in Timer \ {t} : timer'[u].due = timer[u].due
  BY <1>1 DEF Fire, Record
<1>3. CASE timer[t].round > 0
  <2>1. /\ timer'[t].due = timer[t].round - behind
        /\ list' = PriInsert(Unlink(list, t), t, timer[t].round)
    BY <1>1, <1>3 DEF Fire, Record
  <2> QED
    BY <1>1, <1>2, <2>1, Requeued
<1>4. CASE ~(timer[t].round > 0)
  <2>1. list' = Unlink(list, t)
    BY <1>4 DEF Fire
  <2> QED
    BY <1>1, <1>2, <2>1, TakenOut
<1> QED
  BY <1>3, <1>4

-----------------------------------------------------------------------------
(* A timer task that is never late: no tick passes while it is ready.      *)
Awaited ==
    pc \in {"recv", "blocked"} =>
        /\ ~inner => list = <<>>
        /\ inner => \A t \in Range(list) : timer[t].due >= left

Punctual ==
    /\ pc \notin {"blocked", "got", "timeout"} => behind = 0
    /\ ByDue
    /\ \A t \in Range(list) : timer[t].due >= 0
    /\ Awaited

LEMMA InitPunctual == Init => Punctual
<1> SUFFICES ASSUME Init PROVE Punctual
  OBVIOUS
<1>1. list = <<>> /\ DOMAIN list = {} /\ Range(list) = {}
  BY DEF Init, Range
<1> QED
  BY <1>1 DEF Init, NoTimer, Punctual, ByDue, Ordered, Awaited

LEMMA HeadFirst ==
    ASSUME Inv, ByDue, list # <<>>
    PROVE  \A t \in Range(list) : timer[t].due >= timer[Head(list)].due
<1> SUFFICES ASSUME NEW t \in Range(list) PROVE timer[t].due >= timer[Head(list)].due
  OBVIOUS
<1>1. PICK i \in 1..Len(list) : list[i] = t
  BY DueOf DEF Range
<1>2. Head(list) = list[1] /\ 1 \in 1..Len(list) /\ Head(list) \in Timer /\ t \in Timer
  BY ListHead, DueOf
<1>3. Due[list[1]] \in Int /\ Due[list[i]] \in Int
  BY <1>1, <1>2, DueOf
<1>4. Due[list[1]] <= Due[list[i]]
  <2>1. CASE i = 1
    BY <1>3, <2>1
  <2>2. CASE i # 1
    BY <1>1, <1>2, <2>2, DueOf DEF ByDue, Ordered
  <2> QED
    BY <2>1, <2>2
<1> QED
  BY <1>1, <1>2, <1>3, <1>4, DueOf

LEMMA CallersSame ==
    ASSUME Inv, Callers
    PROVE  /\ UNCHANGED <<behind, list, inner, cur, lag>>
           /\ \A u \in Timer : timer'[u].due = timer[u].due \/ timer'[u].due = 0
           /\ \A u \in Range(list) : timer'[u].due = timer[u].due
           /\ \/ UNCHANGED <<pc, left, msg>>
              \/ pc = "blocked" /\ pc' = "got" /\ left' = 0
<1>1. PICK t \in Timer :
          \/ Send(t)
          \/ \E s \in Setting, a \in Arg, autoRun \in BOOLEAN : Create(t, s, a, autoRun)
  BY DEF Callers
<1>2. CASE Send(t)
  BY <1>2, DueOf DEF Send, BufQueueSend
<1>3. ASSUME NEW s \in Setting, NEW a \in Arg, NEW autoRun \in BOOLEAN,
             Create(t, s, a, autoRun)
      PROVE  /\ UNCHANGED <<behind, list, inner, cur, lag>>
             /\ \A u \in Timer : timer'[u].due = timer[u].due \/ timer'[u].due = 0
             /\ \A u \in Range(list) : timer'[u].due = timer[u].due
             /\ \/ UNCHANGED <<pc, left, msg>>
                \/ pc = "blocked" /\ pc' = "got" /\ left' = 0
  <2>1. UNCHANGED <<behind, list, inner, cur, lag>>
    BY <1>3 DEF Create
  <2>2. \/ UNCHANGED <<pc, left, msg>>
        \/ pc = "blocked" /\ pc' = "got" /\ left' = 0
    BY <1>3 DEF Create, BufQueueSend
  <2>3. t \notin Range(list)
    BY <1>3 DEF Create, Inv, Data, ListMatchesState
  <2>4. \A u \in Timer : (timer'[u].due = timer[u].due) \/ (u = t /\ timer'[u].due = 0)
    BY <1>3 DEF Create, Inv, Data
  <2> QED
    BY <2>1, <2>2, <2>3, <2>4, DueOf
<1> QED
  BY <1>1, <1>2, <1>3
(* A tick brings every timer in the list one tick nearer. *)
LEMMA TickNearer ==
    ASSUME Inv, Tick, NEW t \in Range(list), timer[t].due # -Cap
    PROVE  timer'[t].due = timer[t].due - 1
<1>1. t \in Timer /\ timer[t].active
  BY DueOf DEF Inv, Data, ListMatchesState
<1> QED
  BY <1>1, TickDue DEF Nearer

LEMMA TickOrder ==
    ASSUME Inv, Tick, ByDue, \A t \in Range(list) : timer[t].due # -Cap
    PROVE  ByDue'
<1>1. list' = list
  BY DEF Tick
<1>2. \A t \in Range(list) : Due'[t] = Due[t] - 1 /\ Due[t] \in Int
  BY TickNearer, DueOf DEF Due
<1> SUFFICES ASSUME NEW a \in DOMAIN list, NEW b \in DOMAIN list, a < b
             PROVE  Due'[list[a]] <= Due'[list[b]]
  BY <1>1 DEF ByDue, Ordered
<1>3. Due[list[a]] <= Due[list[b]]
  BY DEF ByDue, Ordered
<1>4. list[a] \in Range(list) /\ list[b] \in Range(list)
  BY DEF Range
<1> QED
  BY <1>2, <1>3, <1>4

LEMMA TickPunctual ==
    ASSUME MaxLag = 0, Inv, Bounds, Punctual, Tick PROVE Punctual'
<1>1. pc = "blocked"
  BY DEF Tick, Bounds
<1>2. /\ UNCHANGED <<list, inner>> /\ left \in Nat
      /\ pc' = IF inner /\ left = 1 THEN "timeout" ELSE "blocked"
      /\ inner => left' = left - 1
      /\ inner => left > 0
  BY <1>1, CapIs DEF Tick, Bounds
<1>3. CASE ~inner
  <2>1. list = <<>> /\ Range(list) = {} /\ DOMAIN list = {}
    BY <1>1, <1>3 DEF Punctual, Awaited, Range
  <2>2. \A t \in Timer : timer'[t].due = timer[t].due
    BY <2>1, TickDue DEF Inv, Data, ListMatchesState
  <2> QED
    BY <1>2, <1>3, <2>1, <2>2 DEF Punctual, Awaited, ByDue, Ordered
<1>4. CASE inner
  <2>1. \A t \in Range(list) : timer[t].due >= left /\ timer[t].due \in Int
    BY <1>1, <1>4, TimersOf, DueOf DEF Punctual, Awaited
  <2>2. \A t \in Range(list) : timer[t].due > 0 /\ timer[t].due # -Cap
    BY <1>2, <1>4, <2>1, CapIs
  <2>3. \A t \in Range(list) : timer'[t].due = timer[t].due - 1
    BY <2>2, TickNearer
  <2>4. \A t \in Range(list') : timer'[t].due >= 0
    BY <1>2, <2>1, <2>2, <2>3
  <2>5. ByDue'
    BY <2>2, TickOrder DEF Punctual
  <2>6. \A t \in Range(list) : timer'[t].due >= left'
    BY <1>2, <1>4, <2>1, <2>3
  <2> QED
    BY <1>2, <1>4, <2>4, <2>5, <2>6 DEF Punctual, Awaited
<1> QED
  BY <1>3, <1>4

LEMMA NothingMissed ==
    ASSUME Inv, behind = 0
    PROVE  NoneMissed <=> \A t \in Range(list) : timer[t].due >= 0
<1>1. \A t \in Range(list) : timer[t].due \in Int
  BY TimersOf, DueOf
<1> QED
  BY <1>1 DEF NoneMissed, Rem

LEMMA TaskPunctual ==
    ASSUME Inv, Inv', Bounds, Punctual, TimerTask PROVE Punctual'
<1> DEFINE OnTime == \A t \in Range(list) : timer[t].due >= 0
<1>1. CASE Recv \/ Got \/ TimedOut \/ CbEnd
  <2>1. /\ UNCHANGED <<list, timer, inner>>
        /\ pc' \in {"blocked", "got", "cb", "cmd", "look"}
        /\ pc' = "blocked" => pc = "recv" /\ left' = left
        /\ pc' \in {"cb", "cmd", "look"} => behind' = 0
    BY <1>1 DEF Recv, Got, TimedOut, CbEnd, Punctual
  <2>2. ByDue' /\ OnTime'
    BY <2>1, OrderKept DEF Punctual
  <2> QED
    BY <2>1, <2>2 DEF Punctual, Awaited
<1>2. CASE Cmd
  <2>1. behind = 0 /\ behind' = 0 /\ pc' \in {"cb", "look"}
    BY <1>2 DEF Cmd, Punctual
  <2>2. ByDue' /\ NoneMissed'
    BY <1>2, <2>1, NothingMissed, CmdOrder DEF Punctual
  <2>3. OnTime'
    <3>1. \A t \in Range(list') : timer'[t].due + behind' >= 0
      BY <2>2 DEF NoneMissed, Rem
    <3>2. \A t \in Range(list') : timer'[t].due \in Int
      <4>1. Range(list') \subseteq Timer /\ timer' \in [Timer -> Record]
        BY DEF Inv, Data, Range
      <4> QED
        BY <4>1 DEF Record
    <3> QED
      BY <2>1, <3>1, <3>2
  <2> QED
    BY <2>1, <2>2, <2>3 DEF Punctual, Awaited
<1>3. CASE Look
  <2>1. /\ UNCHANGED <<list, timer>> /\ inner' = (list # <<>>) /\ behind = 0 /\ behind' = 0
        /\ \/ pc' = "recv" /\ list = <<>>
           \/ pc' = "recv" /\ list # <<>> /\ left' = timer[Head(list)].due
           \/ pc' = "cb"
    BY <1>3 DEF Look, Punctual
  <2>2. ByDue' /\ OnTime'
    BY <2>1, OrderKept DEF Punctual
  <2>3. Awaited'
    BY <2>1, HeadFirst DEF Punctual, Awaited
  <2> QED
    BY <2>1, <2>2, <2>3 DEF Punctual
<1>4. ASSUME NEW t \in Timer, Fire(t) PROVE Punctual'
  <2>1. behind = 0 /\ behind' = 0 /\ pc' = "cb"
    BY <1>4 DEF Fire, Punctual
  <2>2. OrderedBut(list, Due, t) /\ \A u \in Range(list) \ {t} : Rem(u) >= 0
    BY <2>1, NothingMissed, OrderedOfLess DEF Punctual, ByDue, NoneMissed
  <2>3. ByDue' /\ NoneMissed'
    BY <1>4, <2>2, FireOrder
  <2>4. OnTime'
    <3>1. \A u \in Range(list') : timer'[u].due + behind' >= 0
      BY <2>3 DEF NoneMissed, Rem
    <3>2. \A u \in Range(list') : timer'[u].due \in Int
      <4>1. Range(list') \subseteq Timer /\ timer' \in [Timer -> Record]
        BY DEF Inv, Data, Range
      <4> QED
        BY <4>1 DEF Record
    <3> QED
      BY <2>1, <3>1, <3>2
  <2> QED
    BY <2>1, <2>3, <2>4 DEF Punctual, Awaited
<1> QED
  BY <1>1, <1>2, <1>3, <1>4 DEF TimerTask

LEMMA NextPunctual ==
    ASSUME MaxLag = 0, Inv, Inv', Bounds, Punctual, [Next]_vars PROVE Punctual'
<1>1. CASE UNCHANGED vars
  <2>1. UNCHANGED <<list, timer, pc, inner, left, behind>>
    BY <1>1 DEF vars, task
  <2> QED
    BY <2>1, OrderKept DEF Punctual, Awaited
<1>2. CASE Callers
  <2>1. ByDue'
    BY <1>2, CallersSame, OrderKept DEF Punctual
  <2> QED
    BY <1>2, <2>1, CallersSame DEF Punctual, Awaited
<1> QED
  BY <1>1, <1>2, TaskPunctual, TickPunctual DEF Next

(* A timer that is not active is not due: this is 0. *)
Idle == \A t \in Timer : ~timer[t].active => timer[t].due = 0

LEMMA NextIdle == ASSUME Inv, Idle, [Next]_vars PROVE Idle'
<1>1. timer \in [Timer -> Record]
  BY DEF Inv, Data
<1>2. CASE timer' = timer
  BY <1>2 DEF Idle
<1>3. ASSUME NEW t \in Timer, NEW s \in Setting, NEW a \in Arg, NEW autoRun \in BOOLEAN,
             Create(t, s, a, autoRun)
      PROVE  Idle'
  BY <1>1, <1>3 DEF Create, Idle
<1>4. CASE Cmd
  <2> DEFINE t == msg.timer
  <2>1. msg \in Message /\ t \in Timer /\ CmdProc(msg)
    BY <1>4 DEF Cmd, Inv, Comm, Message
  <2> HIDE DEF t
  <2>2. CASE Start(t, msg)
    BY <1>1, <2>1, <2>2 DEF Start, Idle, Record
  <2>3. CASE Stop(t)
    BY <1>1, <2>1, <2>3 DEF Stop, Idle, Record
  <2>4. CASE ArgChgAuto(t, msg)
    BY <1>1, <2>1, <2>4 DEF ArgChgAuto, Idle, Record
  <2>5. CASE Change(t, msg) /\ msg.cmd \in {"CHG", "ARG_CHG", "DEL", "DYN_DEL"}
    BY <1>1, <2>1, <2>5 DEF Change, Idle, Record
  <2> QED
    BY <1>2, <2>1, <2>2, <2>3, <2>4, <2>5 DEF CmdProc, t
<1>5. ASSUME NEW t \in Timer, Fire(t) PROVE Idle'
  <2>1. timer[t].active
    BY <1>5, TimerAssumption DEF Fire, Inv, Place, Data, ListMatchesState
  <2>2. CASE timer[t].round > 0
    <3>1. timer' = [timer EXCEPT ![t].due = timer[t].round - behind]
      BY <1>5, <2>2 DEF Fire
    <3> QED
      BY <1>1, <2>1, <3>1 DEF Idle, Record
  <2>3. CASE ~(timer[t].round > 0)
    <3>1. timer' = [timer EXCEPT ![t].active = FALSE, ![t].due = 0]
      BY <1>5, <2>3 DEF Fire
    <3> QED
      BY <1>1, <3>1 DEF Idle, Record
  <2> QED
    BY <2>2, <2>3
<1>6. CASE Tick
  <2>1. \A t \in Timer : (timer'[t].active <=> timer[t].active)
    BY <1>6, TickTimer DEF Inv
  <2> QED
    BY <1>6, <2>1, TickDue DEF Idle
<1>7. CASE TimerTask
  BY <1>2, <1>4, <1>5, <1>7 DEF TimerTask, Recv, Got, TimedOut, Look, CbEnd
<1>8. CASE Callers
  BY <1>2, <1>3, <1>8 DEF Callers, Send
<1>9. CASE UNCHANGED vars
  BY <1>2, <1>9 DEF vars
<1> QED
  BY <1>6, <1>7, <1>8, <1>9 DEF Next

LEMMA IdleHolds == Spec => []Idle
<1>1. Init => Idle
  BY DEF Init, NoTimer, Idle
<1>2. Inv /\ Idle /\ [Next]_vars => Idle'
  BY NextIdle
<1> QED
  BY <1>1, <1>2, InvHolds, PTL DEF Spec

LEMMA PunctualHolds == ASSUME MaxLag = 0 PROVE Spec => [](Inv /\ Bounds /\ Idle /\ Punctual)
<1>1. Init => Punctual
  BY InitPunctual
<1>2. Inv /\ Bounds /\ Inv' /\ Punctual /\ [Next]_vars => Punctual'
  BY NextPunctual
<1> QED
  BY <1>1, <1>2, BoundsHold, IdleHolds, PTL DEF Spec

LEMMA SortedOf == Inv /\ ByDue => SortedByMatch
<1> SUFFICES ASSUME Inv, ByDue, NEW i \in 1..Len(list), NEW j \in 1..Len(list), i < j
             PROVE  timer[list[i]].due <= timer[list[j]].due
  BY DEF SortedByMatch
<1>1. list[i] \in Timer /\ list[j] \in Timer /\ i \in DOMAIN list /\ j \in DOMAIN list
  BY DueOf
<1> QED
  BY <1>1, DueOf DEF ByDue, Ordered

(* k_timer.h, as long as no tick passes while the timer task is ready: the *)
(* list is sorted by match when the task waits, for no timer in it has     *)
(* been overtaken by the tick when another one is put in.  MCTimerLate     *)
(* shows that it need not be when the task is one tick late.               *)
THEOREM SortedWhenPunctual == ASSUME MaxLag = 0 PROVE Spec => []SortedByMatch
<1>1. Inv /\ Punctual => SortedByMatch
  BY SortedOf DEF Punctual
<1> QED
  BY <1>1, PunctualHolds, PTL

(* Under the same hypothesis, and for any number of timers, the task never *)
(* waits for longer than the first timer to be due has left.               *)
THEOREM WokenWhenPunctual == ASSUME MaxLag = 0 PROVE Spec => []WokenInTime
<1>1. Inv /\ Bounds /\ Punctual => WokenInTime
  <2> SUFFICES ASSUME Inv, Bounds, Punctual, pc = "blocked", NEW t \in Range(list)
               PROVE  inner /\ timer[t].due - left >= -MaxLag
    BY DEF WokenInTime
  <2>1. t \in Timer /\ timer[t].due \in Int /\ left \in Int
    BY TimersOf, DueOf, CapIs DEF Bounds
  <2>2. inner /\ timer[t].due >= left
    BY DEF Punctual, Awaited, Bounds, Range
  <2> QED
    BY <2>1, <2>2
<1> QED
  BY <1>1, PunctualHolds, PTL

(* And no timer is ever overdue, in any state. *)
THEOREM TypeOKWhenPunctual == ASSUME MaxLag = 0 PROVE Spec => []TypeOK
<1>1. Inv /\ Bounds /\ Idle /\ Punctual => TypeOK
  <2> SUFFICES ASSUME Inv, Bounds, Idle, Punctual, NEW t \in Timer
               PROVE  Typed /\ timer[t].due > -Cap
    BY TypedOf DEF TypeOK
  <2>1. timer[t].due >= 0
    BY DEF Inv, Data, ListMatchesState, Idle, Punctual
  <2> QED
    BY <2>1, TypedOf, TimersOf, CapIs
<1> QED
  BY <1>1, PunctualHolds, PTL

-----------------------------------------------------------------------------
(* Two timers, and a task that may be late.  A timer can be overtaken by   *)
(* the tick and by the other one that is put back, but then timer_cb_proc  *)
(* goes on with it; a command is carried out when none is left.            *)
Overtaken == pc = "cb" /\ Len(list) = 2 /\ cur = list[2] /\ Rem(cur) < 0

Paired ==
    /\ ByDue \/ Overtaken
    /\ pc = "cb" /\ Len(list) = 2 /\ cur = list[2] => Rem(list[1]) > 0
    /\ pc \in {"cmd", "look"} \/ (pc = "cb" /\ cur = NULL) => NoneMissed
    /\ ~inner => pc \in {"recv", "blocked", "got", "cmd", "look"}
    /\ ~inner /\ pc # "look" => list = <<>>

(* How late the task and the timers are, for the counts not to end. *)
LateWork ==
    pc \in {"cb", "cmd", "look"} =>
        behind <= lag /\ \A t \in Range(list) : Rem(t) >= -(MaxLag + MaxLag)

LateRecv ==
    pc = "recv" /\ list # <<>> =>
        /\ behind <= MaxLag + lag
        /\ \A t \in Range(list) : timer[t].due >= left - lag

LateBlocked ==
    pc = "blocked" /\ list # <<>> =>
        /\ behind + left <= MaxLag + MaxLag + MaxTicks
        /\ \A t \in Range(list) : timer[t].due >= left - MaxLag

LateWoken ==
    pc \in {"got", "timeout"} /\ list # <<>> =>
        /\ behind <= MaxLag + MaxLag + MaxTicks + lag
        /\ \A t \in Range(list) : timer[t].due >= -MaxLag - lag

Late == LateWork /\ LateRecv /\ LateBlocked /\ LateWoken

TwoTimers == \E a, b : Timer = {a, b}

Seldom == MaxLag + MaxLag + MaxLag <= MaxTicks

LEMMA AtMostTwo == ASSUME TwoTimers, Inv PROVE Len(list) \in 0..2
<1>1. PICK a, b : Timer = {a, b}
  BY DEF TwoTimers
<1>2. Len(list) \in Nat /\ DOMAIN list = 1..Len(list) /\ IsInjective(list)
  BY DueOf
<1>3. ASSUME Len(list) > 2 PROVE FALSE
  <2>1. 1 \in DOMAIN list /\ 2 \in DOMAIN list /\ 3 \in DOMAIN list
    BY <1>2, <1>3
  <2>2. list[1] # list[2] /\ list[2] # list[3] /\ list[1] # list[3]
    BY <1>2, <2>1 DEF IsInjective
  <2>3. list[1] \in Timer /\ list[2] \in Timer /\ list[3] \in Timer
    BY <1>2, <2>1, DueOf
  <2> QED
    BY <1>1, <2>2, <2>3
<1> QED
  BY <1>2, <1>3

LEMMA Elements ==
    ASSUME TwoTimers, Inv
    PROVE  /\ Len(list) = 0 => list = <<>> /\ Range(list) = {}
           /\ Len(list) = 1 => Range(list) = {list[1]} /\ list[1] \in Timer
           /\ Len(list) = 2 => Range(list) = {list[1], list[2]} /\ list[1] # list[2]
                               /\ list[1] \in Timer /\ list[2] \in Timer
<1>1. Len(list) \in 0..2 /\ DOMAIN list = 1..Len(list) /\ list \in Seq(Timer)
  BY AtMostTwo, DueOf
<1>2. CASE Len(list) = 0
  BY <1>1, <1>2 DEF Range
<1>3. CASE Len(list) = 1
  BY <1>1, <1>3 DEF Range
<1>4. CASE Len(list) = 2
  <2>1. 1 \in DOMAIN list /\ 2 \in DOMAIN list /\ DOMAIN list = {1, 2}
    BY <1>1, <1>4
  <2>2. list[1] # list[2]
    BY <2>1, DueOf DEF IsInjective
  <2> QED
    BY <1>1, <1>4, <2>1, <2>2 DEF Range
<1> QED
  BY <1>1, <1>2, <1>3, <1>4

LEMMA OfInts ==
    ASSUME Inv, Bounds
    PROVE  /\ MaxLag \in Nat /\ MaxTicks \in Nat /\ lag \in Nat /\ lag <= MaxLag
           /\ left \in Nat /\ left <= MaxTicks /\ behind \in Nat
           /\ \A t \in Timer : timer[t].due \in Int /\ Rem(t) \in Int
           /\ \A t \in Range(list) : timer[t].due \in Int /\ Rem(t) \in Int
<1>1. \A t \in Timer : timer[t].due \in Int
  BY TimersOf
<1> QED
  BY <1>1, DueOf, CapIs, TimerAssumption DEF Bounds, Rem

LEMMA InitTwo == Init => Paired /\ Late
<1> SUFFICES ASSUME Init PROVE Paired /\ Late
  OBVIOUS
<1>1. list = <<>> /\ DOMAIN list = {} /\ Range(list) = {} /\ pc = "recv" /\ ~inner
  BY DEF Init, Range
<1> QED
  BY <1>1 DEF Paired, ByDue, Ordered, Late, LateWork, LateRecv, LateBlocked, LateWoken

(* No count of ticks has come to its end. *)
LEMMA Counted ==
    ASSUME Inv, Bounds, Paired, Late, Seldom, Tick, list # <<>>
    PROVE  behind # Cap /\ \A t \in Range(list) : timer[t].due # -Cap
<1>1. pc # "blocked" => lag < MaxLag
  BY DEF Tick
<1>2. CASE pc \in {"cb", "cmd", "look"}
  <2>1. behind <= lag /\ \A t \in Range(list) : timer[t].due + behind >= -(MaxLag + MaxLag)
    BY <1>2 DEF Late, LateWork, Rem
  <2> QED
    BY <1>1, <1>2, <2>1, OfInts, CapIs DEF Seldom
<1>3. CASE pc = "recv"
  BY <1>1, <1>3, OfInts, CapIs DEF Late, LateRecv, Seldom
<1>4. CASE pc = "blocked"
  <2>1. left > 0
    BY <1>4 DEF Paired, Bounds
  <2> QED
    BY <1>4, <2>1, OfInts, CapIs DEF Late, LateBlocked, Seldom
<1>5. CASE pc \in {"got", "timeout"}
  BY <1>1, <1>5, OfInts, CapIs DEF Late, LateWoken, Seldom
<1> QED
  BY <1>2, <1>3, <1>4, <1>5 DEF Bounds

(* So a tick brings each timer in the list one tick nearer. *)
LEMMA TickRem ==
    ASSUME Inv, Bounds, Paired, Late, Seldom, Tick
    PROVE  /\ list' = list /\ (list # <<>> => behind' = behind + 1)
           /\ \A t \in Range(list) : timer'[t].due = timer[t].due - 1 /\ Rem(t)' = Rem(t)
           /\ \A t \in Range(list) : timer[t].due # -Cap
<1>1. list' = list
  BY DEF Tick
<1>2. list # <<>> => behind' = behind + 1
  BY Counted DEF Tick
<1>3. list = <<>> => Range(list) = {}
  BY DEF Range
<1>4. \A t \in Range(list) : timer[t].due # -Cap
  BY <1>3, Counted
<1>5. \A t \in Range(list) : timer'[t].due = timer[t].due - 1
  BY <1>4, TickNearer
<1> QED
  BY <1>1, <1>2, <1>3, <1>4, <1>5, OfInts DEF Rem

LEMMA TickTwo ==
    ASSUME TwoTimers, Inv, Bounds, Paired, Late, Seldom, Tick
    PROVE  Paired' /\ Late'
<1>1. UNCHANGED <<inner, cur, list>>
  BY DEF Tick
<1>2. /\ pc # "blocked" => lag < MaxLag /\ lag' = lag + 1 /\ UNCHANGED <<left, pc>>
      /\ pc = "blocked" => /\ lag' = 0
                           /\ inner => left' = left - 1 /\ pc' \in {"blocked", "timeout"}
                           /\ ~inner => UNCHANGED <<left, pc>>
  BY DEF Tick
<1>3. ByDue => ByDue'
  BY TickRem, TickOrder
<1>4. \A t \in Range(list) : Rem(t)' = Rem(t) /\ timer'[t].due = timer[t].due - 1
  BY TickRem
<1>5. NoneMissed => NoneMissed'
  BY <1>1, <1>4 DEF NoneMissed
<1>6. Len(list) = 2 => list[1] \in Range(list) /\ list[2] \in Range(list)
  BY Elements
<1>7. pc' # pc => pc = "blocked" /\ pc' = "timeout" /\ inner
  BY <1>2
<1>8. Paired'
  <2>1. ByDue' \/ Overtaken'
    BY <1>1, <1>3, <1>4, <1>6, <1>7 DEF Paired, Overtaken
  <2>2. pc' = "cb" /\ Len(list') = 2 /\ cur' = list'[2] => timer'[list'[1]].due + behind' > 0
    BY <1>1, <1>4, <1>6, <1>7 DEF Paired, Rem
  <2> QED
    BY <1>1, <1>5, <1>7, <2>1, <2>2 DEF Paired, Rem
<1>9. /\ lag \in Nat /\ behind \in Nat /\ left \in Nat /\ lag <= MaxLag
      /\ MaxLag \in Nat /\ MaxTicks \in Nat
      /\ \A t \in Range(list) : timer[t].due \in Int
  BY OfInts
<1>10. behind' <= behind + 1 /\ behind' \in Nat
  BY <1>9 DEF Tick
<1>11. LateWork'
  <2>1. CASE pc' \in {"cb", "cmd", "look"}
    <3>1. pc = pc' /\ lag' = lag + 1 /\ behind <= lag
      BY <1>2, <1>7, <2>1 DEF Late, LateWork
    <3>2. \A t \in Range(list) : Rem(t)' >= -(MaxLag + MaxLag)
      BY <1>4, <2>1, <3>1 DEF Late, LateWork
    <3> QED
      BY <1>1, <1>9, <1>10, <3>1, <3>2 DEF LateWork
  <2> QED
    BY <2>1 DEF LateWork
<1>12. LateRecv'
  <2> SUFFICES ASSUME pc' = "recv", list # <<>>
               PROVE  /\ behind' <= MaxLag + lag'
                      /\ \A t \in Range(list) : timer'[t].due >= left' - lag'
    BY <1>1 DEF LateRecv
  <2>1. pc = "recv" /\ lag' = lag + 1 /\ left' = left
    BY <1>2, <1>7
  <2>2. behind <= MaxLag + lag /\ \A t \in Range(list) : timer[t].due >= left - lag
    BY <2>1 DEF Late, LateRecv
  <2> QED
    BY <1>4, <1>9, <1>10, <2>1, <2>2
<1>13. CASE pc # "blocked"
  <2>1. LateBlocked'
    BY <1>2, <1>13 DEF LateBlocked
  <2>2. LateWoken'
    <3> SUFFICES ASSUME pc' \in {"got", "timeout"}, list # <<>>
                 PROVE  /\ behind' <= MaxLag + MaxLag + MaxTicks + lag'
                        /\ \A t \in Range(list) : timer'[t].due >= -MaxLag - lag'
      BY <1>1 DEF LateWoken
    <3>1. pc \in {"got", "timeout"} /\ lag' = lag + 1
      BY <1>2, <1>13
    <3>2. /\ behind <= MaxLag + MaxLag + MaxTicks + lag
          /\ \A t \in Range(list) : timer[t].due >= -MaxLag - lag
      BY <3>1 DEF Late, LateWoken
    <3> QED
      BY <1>4, <1>9, <1>10, <3>1, <3>2
  <2> QED
    BY <1>8, <1>11, <1>12, <2>1, <2>2 DEF Late
<1>14. CASE pc = "blocked"
  <2>1. ASSUME list # <<>>
        PROVE  /\ behind' + left' <= MaxLag + MaxLag + MaxTicks /\ lag' = 0
               /\ \A t \in Range(list) : timer'[t].due >= left' - MaxLag
               /\ left' \in Nat
    <3>1. inner /\ left > 0 /\ left' = left - 1 /\ lag' = 0
      BY <1>2, <1>14, <2>1 DEF Paired, Bounds
    <3>2. /\ behind + left <= MaxLag + MaxLag + MaxTicks
          /\ \A t \in Range(list) : timer[t].due >= left - MaxLag
      BY <1>14, <2>1 DEF Late, LateBlocked
    <3> QED
      BY <1>4, <1>9, <1>10, <3>1, <3>2
  <2>2. LateBlocked'
    BY <1>1, <2>1 DEF LateBlocked
  <2>3. LateWoken'
    <3> SUFFICES ASSUME list # <<>>
                 PROVE  /\ behind' <= MaxLag + MaxLag + MaxTicks + lag'
                        /\ \A t \in Range(list) : timer'[t].due >= -MaxLag - lag'
      BY <1>1 DEF LateWoken
    <3>1. \A t \in Range(list) : timer'[t].due \in Int
      BY <1>4, <1>9
    <3> QED
      BY <1>9, <1>10, <2>1, <3>1
  <2> QED
    BY <1>8, <1>11, <1>12, <2>2, <2>3 DEF Late
<1> QED
  BY <1>13, <1>14

LEMMA CallersTwo ==
    ASSUME TwoTimers, Inv, Bounds, Paired, Late, Callers
    PROVE  Paired' /\ Late'
<1>1. /\ UNCHANGED <<behind, list, inner, cur, lag>>
      /\ \A t \in Range(list) : timer'[t].due = timer[t].due
      /\ UNCHANGED <<pc, left>> \/ (pc = "blocked" /\ pc' = "got" /\ left' = 0)
  BY CallersSame
<1>2. (ByDue => ByDue') /\ (NoneMissed => NoneMissed')
  BY <1>1, OrderKept
<1>3. \A t \in Range(list) : Rem(t)' = Rem(t)
  BY <1>1 DEF Rem
<1>4. Len(list) = 2 => list[1] \in Range(list) /\ list[2] \in Range(list)
  BY Elements
<1>5. Paired'
  <2>1. ByDue' \/ Overtaken'
    BY <1>1, <1>2, <1>3, <1>4 DEF Paired, Overtaken
  <2>2. pc' = "cb" /\ Len(list') = 2 /\ cur' = list'[2] => timer'[list'[1]].due + behind' > 0
    BY <1>1, <1>3, <1>4 DEF Paired, Rem
  <2> QED
    BY <1>1, <1>2, <2>1, <2>2 DEF Paired, Rem
<1>6. LateWork'
  BY <1>1, <1>3 DEF Late, LateWork
<1>7. LateRecv' /\ LateBlocked'
  BY <1>1 DEF Late, LateRecv, LateBlocked
<1>8. LateWoken'
  <2> SUFFICES ASSUME pc' \in {"got", "timeout"}, list # <<>>
               PROVE  /\ behind <= MaxLag + MaxLag + MaxTicks + lag
                      /\ \A t \in Range(list) : timer[t].due >= -MaxLag - lag
    BY <1>1 DEF LateWoken
  <2>1. CASE pc \in {"got", "timeout"}
    BY <2>1 DEF Late, LateWoken
  <2>2. CASE pc = "blocked"
    <3>1. /\ behind + left <= MaxLag + MaxLag + MaxTicks
          /\ \A t \in Range(list) : timer[t].due >= left - MaxLag
      BY <2>2 DEF Late, LateBlocked
    <3> QED
      BY <3>1, OfInts
  <2> QED
    BY <1>1, <2>1, <2>2
<1> QED
  BY <1>5, <1>6, <1>7, <1>8 DEF Late

(* The task goes from one place to another without a change of the list.   *)
LEMMA HeadNotLast ==
    ASSUME TwoTimers, Inv
    PROVE  Len(list) = 2 => First(list) # list[2]
<1>1. list \in Seq(Timer) /\ (Len(list) = 2 => list # <<>> /\ Head(list) = list[1])
  <2>1. list \in Seq(Timer)
    BY DueOf
  <2> QED
    BY <2>1
<1> QED
  BY <1>1, Elements DEF First

LEMMA NullFirst ==
    ASSUME TwoTimers, Inv, First(list) = NULL
    PROVE  NoneMissed
<1>1. list = <<>>
  BY ListHead, TimerAssumption DEF First
<1> QED
  BY <1>1, Elements, DueOf DEF NoneMissed

LEMMA GotTwo ==
    ASSUME TwoTimers, Inv, Bounds, Paired, Late, Got \/ TimedOut
    PROVE  Paired' /\ Late'
<1>1. /\ behind' = 0 /\ lag' = 0 /\ UNCHANGED <<list, timer, inner>>
      /\ pc \in {"got", "timeout"}
      /\ (inner /\ pc' = "cb" /\ cur' = First(list)) \/ (~inner /\ pc' = "cmd")
  BY DEF Got, TimedOut, Paired
<1>2. ByDue'
  BY <1>1, OrderKept DEF Paired, Overtaken
<1>3. \A t \in Range(list) : Rem(t)' = timer[t].due
  BY <1>1, OfInts DEF Rem
<1>4. LateWork'
  <2>1. \A t \in Range(list) : timer[t].due >= -(MaxLag + MaxLag)
    <3>1. CASE list = <<>>
      BY <3>1 DEF Range
    <3>2. CASE list # <<>>
      BY <1>1, <3>2, OfInts DEF Late, LateWoken
    <3> QED
      BY <3>1, <3>2
  <2> QED
    BY <1>1, <1>3, <2>1 DEF LateWork
<1>5. LateRecv' /\ LateBlocked' /\ LateWoken'
  BY <1>1 DEF LateRecv, LateBlocked, LateWoken
<1>6. ASSUME pc' = "cmd" \/ (pc' = "cb" /\ cur' = NULL) PROVE NoneMissed'
  <2>1. list = <<>>
    BY <1>1, <1>6, ListHead, TimerAssumption DEF First, Paired
  <2> QED
    BY <1>1, <2>1 DEF NoneMissed, Range
<1>7. ~(pc' = "cb" /\ Len(list') = 2 /\ cur' = list'[2])
  BY <1>1, HeadNotLast
<1>8. ~inner' /\ pc' # "look" => list' = <<>>
  BY <1>1 DEF Paired
<1>9. Paired'
  BY <1>1, <1>2, <1>6, <1>7, <1>8 DEF Paired
<1> QED
  BY <1>4, <1>5, <1>9 DEF Late

LEMMA RecvTwo ==
    ASSUME TwoTimers, Inv, Bounds, Paired, Late, Recv
    PROVE  Paired' /\ Late'
<1>1. /\ UNCHANGED <<behind, list, timer, inner, cur>> /\ pc = "recv"
      /\ (pc' = "blocked" /\ left' = left) \/ (pc' = "got" /\ left' = 0 /\ lag' = lag)
  BY DEF Recv
<1>2. ByDue'
  BY <1>1, OrderKept DEF Paired, Overtaken
<1>3. Paired'
  BY <1>1, <1>2 DEF Paired
<1>4. LateWork' /\ LateRecv'
  BY <1>1 DEF LateWork, LateRecv
<1>5. LateBlocked'
  BY <1>1, OfInts DEF Late, LateRecv, LateBlocked
<1>6. LateWoken'
  BY <1>1, OfInts DEF Late, LateRecv, LateWoken
<1> QED
  BY <1>3, <1>4, <1>5, <1>6 DEF Late

LEMMA CmdTwo ==
    ASSUME TwoTimers, Inv, Inv', Bounds, Bounds', Paired, Late, Cmd
    PROVE  Paired' /\ Late'
<1>1. /\ UNCHANGED <<behind, inner, left, lag>> /\ pc = "cmd"
      /\ (inner /\ pc' = "cb" /\ cur' = First(list')) \/ (~inner /\ pc' = "look")
  BY DEF Cmd
<1>2. ByDue' /\ NoneMissed'
  BY <1>1, CmdOrder DEF Paired, Overtaken
<1>3. ~(pc' = "cb" /\ Len(list') = 2 /\ cur' = list'[2])
  <2>1. TwoTimers'
    BY DEF TwoTimers
  <2>2. (TwoTimers /\ Inv => (Len(list) = 2 => First(list) # list[2]))'
    BY HeadNotLast, PTL
  <2> QED
    BY <1>1, <2>1, <2>2
<1>4. Paired'
  BY <1>1, <1>2, <1>3 DEF Paired
<1>5. LateWork'
  <2>1. \A t \in Range(list') : Rem(t)' >= 0 /\ Rem(t)' \in Int
    <3>1. Range(list') \subseteq Timer /\ timer' \in [Timer -> Record] /\ behind' \in Nat
      BY DEF Inv, Data, Range
    <3> QED
      BY <1>2, <3>1 DEF NoneMissed, Rem, Record
  <2>2. \A t \in Range(list') : Rem(t)' >= -(MaxLag + MaxLag)
    BY <2>1, OfInts
  <2> QED
    BY <1>1, <2>2 DEF Late, LateWork
<1>6. LateRecv' /\ LateBlocked' /\ LateWoken'
  BY <1>1 DEF LateRecv, LateBlocked, LateWoken
<1> QED
  BY <1>4, <1>5, <1>6 DEF Late

LEMMA LookTwo ==
    ASSUME TwoTimers, Inv, Bounds, Paired, Late, Look
    PROVE  Paired' /\ Late'
<1>1. /\ UNCHANGED <<list, timer>> /\ pc = "look" /\ inner' = (list # <<>>) /\ lag' = 0
      /\ \/ list = <<>> /\ pc' = "recv"
         \/ list # <<>> /\ pc' = "recv" /\ left' = timer[Head(list)].due /\ behind' = behind
         \/ list # <<>> /\ pc' = "cb" /\ behind' = 0 /\ cur' = First(list)
  BY DEF Look
<1>2. ByDue /\ ByDue' /\ NoneMissed /\ behind <= lag
  BY <1>1, OrderKept DEF Paired, Overtaken, Late, LateWork
<1>3. \A t \in Range(list) : timer[t].due >= -MaxLag
  BY <1>2, OfInts DEF NoneMissed, Rem
<1>4. ~(pc' = "cb" /\ Len(list') = 2 /\ cur' = list'[2])
  BY <1>1, HeadNotLast
<1>5. pc' = "cb" => cur' # NULL
  BY <1>1, ListHead, TimerAssumption DEF First
<1>6. Paired'
  BY <1>1, <1>2, <1>4, <1>5 DEF Paired
<1>7. LateBlocked' /\ LateWoken'
  BY <1>1 DEF LateBlocked, LateWoken
<1>8. LateRecv'
  <2> SUFFICES ASSUME pc' = "recv", list # <<>>
               PROVE  /\ behind <= MaxLag + 0
                      /\ \A t \in Range(list) : timer[t].due >= timer[Head(list)].due - 0
    BY <1>1 DEF LateRecv
  <2>1. \A t \in Range(list) : timer[t].due >= timer[Head(list)].due
    BY <1>2, HeadFirst
  <2>2. timer[Head(list)].due \in Int
    BY ListHead, OfInts
  <2> QED
    BY <1>2, <2>1, <2>2, OfInts
<1>9. LateWork'
  <2> SUFFICES ASSUME pc' = "cb", behind' = 0, NEW t \in Range(list)
               PROVE  timer[t].due + 0 >= -(MaxLag + MaxLag)
    BY <1>1 DEF LateWork, Rem
  <2> QED
    BY <1>3, OfInts
<1> QED
  BY <1>6, <1>7, <1>8, <1>9 DEF Late

(* timer_cb_proc ends with a timer that is not due, and no other is. *)
LEMMA CbEndTwo ==
    ASSUME TwoTimers, Inv, Bounds, Paired, Late, CbEnd
    PROVE  Paired' /\ Late'
<1>1. /\ UNCHANGED <<behind, list, timer, inner, left, lag>> /\ pc = "cb" /\ inner
      /\ pc' \in {"cmd", "look"} /\ cur' = NULL
      /\ cur # NULL => cur \in Range(list) /\ Rem(cur) > 0
  BY OfInts DEF CbEnd, Expired, Paired, Inv, Place, Rem
<1>2. NULL \notin Timer
  BY TimerAssumption
<1>3. ByDue
  BY <1>1, <1>2, Elements, OfInts DEF Paired, Overtaken
<1>4. NoneMissed
  <2>1. CASE cur = NULL
    BY <1>1, <2>1 DEF Paired
  <2>2. CASE cur # NULL /\ Len(list) # 2
    <3>1. Range(list) = {cur}
      BY <1>1, <2>2, AtMostTwo, Elements
    <3> QED
      BY <1>1, <2>2, <3>1, OfInts DEF NoneMissed
  <2>3. CASE cur # NULL /\ Len(list) = 2
    <3>1. Rem(list[1]) > 0
      BY <1>1, <2>3, Elements DEF Paired
    <3>2. list # <<>> /\ Head(list) = list[1] /\ list[1] \in Range(list)
      <4>1. list \in Seq(Timer)
        BY DueOf
      <4> QED
        BY <2>3, <4>1, Elements
    <3>3. \A t \in Range(list) : timer[t].due >= timer[list[1]].due
      BY <1>3, <3>2, HeadFirst
    <3> SUFFICES ASSUME NEW t \in Range(list) PROVE Rem(t) >= 0
      BY DEF NoneMissed
    <3>4. timer[t].due \in Int /\ timer[list[1]].due \in Int /\ behind \in Int
      BY <3>2, OfInts
    <3> QED
      BY <3>1, <3>3, <3>4 DEF Rem
  <2> QED
    BY <2>1, <2>2, <2>3
<1>5. ByDue' /\ NoneMissed'
  BY <1>1, <1>3, <1>4, OrderKept
<1>6. Paired'
  BY <1>1, <1>5 DEF Paired
<1>7. LateWork' /\ LateRecv' /\ LateBlocked' /\ LateWoken'
  BY <1>1 DEF Late, LateWork, LateRecv, LateBlocked, LateWoken, Rem
<1> QED
  BY <1>6, <1>7 DEF Late

(* timer_cb_proc calls back the timer t. *)
LEMMA FiredRem ==
    ASSUME Inv, Bounds, NEW t \in Timer, Fire(t)
    PROVE  /\ t \in Range(list) /\ behind' = behind
           /\ \A u \in Range(list') : Rem(u)' = Rem(u) \/ u = t
           /\ \A u \in Range(list') \ {t} : u \in Range(list) /\ Rem(u)' = Rem(u)
           /\ t \in Range(list') => Rem(t)' > 0
<1>1. t \in Range(list) /\ behind' = behind
  BY TimerAssumption DEF Fire, Inv, Place
<1>2. /\ timer \in [Timer -> Record] /\ timer[t] \in Record /\ timer[t].round \in Nat
      /\ behind \in Nat /\ list \in Seq(Timer) /\ IsInjective(list)
  BY TimersOf, DueOf, CapIs
<1>3. Unlink(list, t) \in Seq(Timer) /\ Range(Unlink(list, t)) = Range(list) \ {t}
  BY <1>2, UnlinkOf
<1>4. \A u \in Timer \ {t} : timer'[u].due = timer[u].due
  BY <1>2 DEF Fire, Record
<1>5. Range(list') \ {t} \subseteq Range(list) \ {t} /\ Range(list) \subseteq Timer
  <2>1. CASE timer[t].round > 0
    BY <1>3, <2>1, PriInsertOf, DueOf DEF Fire
  <2>2. CASE ~(timer[t].round > 0)
    BY <1>3, <2>2, DueOf DEF Fire
  <2> QED
    BY <2>1, <2>2
<1>6. t \in Range(list') => Rem(t)' > 0
  <2>1. CASE timer[t].round > 0
    <3>1. timer'[t].due = timer[t].round - behind
      BY <1>2, <2>1 DEF Fire, Record
    <3> QED
      BY <1>1, <1>2, <2>1, <3>1 DEF Rem
  <2>2. CASE ~(timer[t].round > 0)
    BY <1>3, <2>2 DEF Fire
  <2> QED
    BY <2>1, <2>2
<1>7. \A u \in Range(list') \ {t} : u \in Range(list) /\ Rem(u)' = Rem(u)
  BY <1>1, <1>4, <1>5 DEF Rem
<1> QED
  BY <1>1, <1>6, <1>7

(* The other one was overtaken: t goes before it, and it is called next. *)
LEMMA BeforeOvertaken ==
    ASSUME Inv, NEW t \in Timer, NEW o \in Timer, t # o, NEW val,
           NEW l \in Seq(Timer), Len(l) = 1, l[1] = o, Rem(o) < 0
    PROVE  LET m == PriInsert(l, t, val)
           IN  Len(m) = 2 /\ m[1] = t /\ m[2] = o /\ After(m, t) = o
<1> DEFINE I == {i \in 1..Len(l) : timer[l[i]].due + behind < 0
                                   \/ timer[l[i]].due + behind > val}
           i == IF I # {} THEN Min(I) ELSE 0
           m == PriInsert(l, t, val)
<1>1. m = InsertBefore(l, i, t)
  BY DEF PriInsert, SelectInSeq
<1>2. 1 \in I /\ I \in SUBSET (1..1) /\ Len(l) \in Nat
  BY DEF Rem
<1> HIDE DEF I
<1>3. i \in 0..1 /\ (i = 0 => I = {})
  BY <1>2, FirstPlace
<1>4. i = 1
  BY <1>2, <1>3
<1> HIDE DEF i
<1>5. m = InsertAt(l, 1, t)
  BY <1>1, <1>4 DEF InsertBefore
<1> HIDE DEF m
<1>6. 1 \in 1..Len(l)
  OBVIOUS
<1>7. m \in Seq(Timer) /\ Len(m) = 2 /\ m[1] = t /\ m[2] = l[1]
  BY <1>5, <1>6, InsertedFirst
<1>8. Len(m) = 2 /\ m[1] = t /\ m[2] = o
  BY <1>7
<1>9. t \in Range(m)
  <2>1. 1 \in DOMAIN m
    BY <1>7, <1>8
  <2> QED
    BY <1>8, <2>1 DEF Range
<1>10. PICK k \in 1..Len(m) : k = SelectInSeq(m, LAMBDA u : u = t) /\ m[k] = t
  BY <1>7, <1>9, Found
<1>11. k = 1
  BY <1>8, <1>10
<1>12. After(m, t) = IF k = Len(m) THEN NULL ELSE m[k + 1]
  BY <1>10 DEF After
<1>13. After(m, t) = o
  BY <1>8, <1>11, <1>12
<1> QED
  BY <1>8, <1>13 DEF m

OneOrTwo ==
    /\ Len(list) = 1 => Range(list) = {list[1]}
    /\ Len(list) = 2 => Range(list) = {list[1], list[2]} /\ list[1] # list[2]

LEMMA Counting == TwoTimers /\ Inv => OneOrTwo
  BY Elements DEF OneOrTwo

LEMMA FireTwo ==
    ASSUME TwoTimers, Inv, Inv', Bounds, Paired, Late, NEW t \in Timer, Fire(t)
    PROVE  Paired' /\ Late'
<1>0. Range(list') \subseteq Timer
  BY DEF Inv, Data, Range
<1>1. /\ UNCHANGED <<behind, pc, inner, left, lag>> /\ pc = "cb" /\ cur = t /\ inner
  BY DEF Fire, Paired
<1>2. /\ t \in Range(list) /\ list \in Seq(Timer) /\ IsInjective(list)
      /\ NULL \notin Timer /\ Len(list) \in 1..2
  BY FiredRem, DueOf, AtMostTwo, Elements, TimerAssumption
<1>3. /\ \A u \in Range(list') \ {t} : u \in Range(list) /\ Rem(u)' = Rem(u)
      /\ t \in Range(list') => Rem(t)' > 0
  BY FiredRem
<1>4. /\ Len(list') \in 0..2
      /\ Len(list') = 1 => Range(list') = {list'[1]}
      /\ Len(list') = 2 => Range(list') = {list'[1], list'[2]} /\ list'[1] # list'[2]
  <2>1. TwoTimers'
    BY DEF TwoTimers
  <2>2. (TwoTimers /\ Inv => Len(list) \in 0..2)'
    BY AtMostTwo, PTL
  <2>3. (TwoTimers /\ Inv => OneOrTwo)'
    BY Counting, PTL
  <2> QED
    BY <2>1, <2>2, <2>3 DEF OneOrTwo
<1>5. LateWork'
  <2>1. \A u \in Range(list) : Rem(u) >= -(MaxLag + MaxLag)
    BY <1>1 DEF Late, LateWork
  <2>2. t \in Range(list') => Rem(t)' >= -(MaxLag + MaxLag)
    <3>1. t \in Range(list') => Rem(t)' > 0 /\ Rem(t)' \in Int
      <4>1. timer' \in [Timer -> Record] /\ behind' \in Nat
        BY DEF Inv, Data
      <4> QED
        BY <1>3, <4>1 DEF Rem, Record
    <3> QED
      BY <3>1, OfInts
  <2>3. \A u \in Range(list') : Rem(u)' >= -(MaxLag + MaxLag)
    BY <1>3, <2>1, <2>2
  <2> QED
    BY <1>1, <2>3 DEF Late, LateWork
<1>6. LateRecv' /\ LateBlocked' /\ LateWoken'
  BY <1>1 DEF LateRecv, LateBlocked, LateWoken
(* The second of two is called after the first was put back. *)
<1>7. ASSUME \A u \in Range(list) \ {t} : Rem(u) > 0 /\ Rem(u) \in Int, OrderedBut(list, Due, t)
      PROVE  Paired'
  <2>1. ByDue' /\ NoneMissed'
    BY <1>7, FireOrder
  <2>2. \A u \in Range(list') : timer'[u].due + behind' > 0
    BY <1>3, <1>7 DEF Rem
  <2>3. Len(list') = 2 => list'[1] \in Range(list')
    BY <1>4
  <2> QED
    BY <1>1, <2>1, <2>2, <2>3 DEF Paired, Rem
<1>8. CASE Len(list) = 1
  <2>1. Range(list) \ {t} = {} /\ DOMAIN list = {1} /\ list[1] = t
    BY <1>2, <1>8, Elements
  <2>2. OrderedBut(list, Due, t)
    BY <2>1 DEF OrderedBut
  <2> QED
    BY <1>5, <1>6, <1>7, <2>1, <2>2 DEF Late
<1>9. CASE Len(list) = 2 /\ t = list[2]
  <2>1. Range(list) \ {t} = {list[1]} /\ DOMAIN list = {1, 2} /\ list[1] \in Range(list)
    BY <1>2, <1>9, Elements
  <2>2. OrderedBut(list, Due, t)
    BY <1>9, <2>1 DEF OrderedBut
  <2>3. Rem(list[1]) > 0 /\ Rem(list[1]) \in Int
    BY <1>1, <1>9, <2>1, OfInts DEF Paired
  <2> QED
    BY <1>5, <1>6, <1>7, <2>1, <2>2, <2>3 DEF Late
<1>10. CASE Len(list) = 2 /\ t = list[1]
  <2> DEFINE o == list[2]
             rest == Unlink(list, t)
  <2>1. /\ Range(list) = {t, o} /\ t # o /\ o \in Timer /\ DOMAIN list = {1, 2}
        /\ Rem(o) \in Int
    BY <1>2, <1>10, Elements, OfInts
  <2>2. ByDue
    BY <1>1, <1>10, <2>1 DEF Paired, Overtaken
  <2>3. OrderedBut(list, Due, t)
    BY <2>2, OrderedOfLess DEF ByDue
  <2>4. /\ rest \in Seq(Timer) /\ Range(rest) = {o} /\ Len(rest) = 1 /\ rest[1] = o
    <3>1. rest \in Seq(Timer) /\ Range(rest) = Range(list) \ {t} /\ Len(rest) = 2 - 1
      BY <1>2, <1>10, UnlinkOf
    <3>2. rest[1] \in Range(rest)
      BY <3>1 DEF Range
    <3> QED
      BY <2>1, <3>1, <3>2
  <2> HIDE DEF rest
  <2>5. CASE timer[t].round > 0 /\ Rem(o) >= 0
    <3>1. ByDue' /\ NoneMissed'
      BY <2>1, <2>3, <2>5, FireOrder
    <3>2. cur' = After(list', t) /\ list' \in Seq(Timer) /\ t \in Range(list') /\ IsInjective(list')
      <4>1. list' = PriInsert(rest, t, timer[t].round) /\ cur' = After(list', t)
        BY <2>5 DEF Fire, rest
      <4> QED
        BY <2>4, <4>1, PriInsertOf DEF Inv, Data, ListMatchesState
    <3>3. cur' # NULL => cur' # t
      BY <3>2, AfterOf
    <3>4. Len(list') = 2 /\ cur' = list'[2] => list'[1] = t
      <4> SUFFICES ASSUME Len(list') = 2, cur' = list'[2] PROVE list'[1] = t
        OBVIOUS
      <4>1. Range(list') = {list'[1], list'[2]}
        BY <1>4
      <4>2. list'[2] # t
        <5>1. list'[2] \in Range(list')
          BY <4>1
        <5> QED
          BY <1>2, <1>0, <3>3, <5>1
      <4> QED
        BY <3>2, <4>1, <4>2
    <3>5. timer'[t].due + behind' > 0
      BY <1>3, <3>2 DEF Rem
    <3>6. Paired'
      BY <1>1, <3>1, <3>4, <3>5 DEF Paired, Rem
    <3> QED
      BY <1>5, <1>6, <3>6 DEF Late
  <2>6. CASE timer[t].round > 0 /\ Rem(o) < 0
    <3>1. list' = PriInsert(rest, t, timer[t].round) /\ cur' = After(list', t)
      BY <2>6 DEF Fire, rest
    <3>2. Len(list') = 2 /\ list'[1] = t /\ list'[2] = o /\ cur' = o
      BY <2>1, <2>4, <2>6, <3>1, BeforeOvertaken
    <3>3. t \in Range(list') /\ o \in Range(list')
      BY <1>4, <3>2
    <3>4. timer'[o].due + behind' < 0 /\ timer'[t].due + behind' > 0
      BY <1>3, <2>1, <2>6, <3>3 DEF Rem
    <3>5. Overtaken'
      BY <1>1, <3>2, <3>4 DEF Overtaken, Rem
    <3>6. cur' # NULL
      BY <1>2, <2>1, <3>2
    <3>7. Paired'
      BY <1>1, <3>2, <3>4, <3>5, <3>6 DEF Paired, Rem
    <3> QED
      BY <1>5, <1>6, <3>7 DEF Late
  <2>7. CASE ~(timer[t].round > 0)
    <3>1. list' = rest /\ cur' = After(list, t)
      BY <2>7 DEF Fire, rest
    <3>2. cur' = o
      <4>1. PICK k \in 1..Len(list) : k = SelectInSeq(list, LAMBDA u : u = t) /\ list[k] = t
        BY <1>2, Found
      <4>2. k = 1
        BY <1>10, <2>1, <4>1
      <4> QED
        BY <1>10, <3>1, <4>1, <4>2 DEF After
    <3>3. DOMAIN list' = {1} /\ Len(list') = 1
      BY <2>4, <3>1
    <3>4. ByDue'
      BY <3>3 DEF ByDue, Ordered
    <3>5. Paired'
      BY <1>1, <1>2, <2>1, <3>2, <3>3, <3>4 DEF Paired
    <3> QED
      BY <1>5, <1>6, <3>5 DEF Late
  <2>8. timer[t].round \in Nat
    BY TimersOf, CapIs
  <2> QED
    BY <2>1, <2>5, <2>6, <2>7, <2>8
<1>11. t = list[1] \/ (Len(list) = 2 /\ t = list[2])
  BY <1>2, Elements
<1> QED
  BY <1>2, <1>8, <1>9, <1>10, <1>11

LEMMA NextTwo ==
    ASSUME TwoTimers, Seldom, Inv, Inv', Bounds, Bounds', Paired, Late, [Next]_vars
    PROVE  Paired' /\ Late'
<1>1. CASE UNCHANGED vars
  <2>1. UNCHANGED <<behind, list, timer, pc, inner, left, cur, lag>>
    BY <1>1 DEF vars, task
  <2>2. (ByDue => ByDue') /\ (NoneMissed => NoneMissed')
    BY <2>1, OrderKept
  <2>3. Overtaken => Overtaken'
    BY <2>1 DEF Overtaken, Rem
  <2>4. Paired'
    BY <2>1, <2>2, <2>3 DEF Paired, Rem
  <2>5. Late'
    BY <2>1 DEF Late, LateWork, LateRecv, LateBlocked, LateWoken, Rem
  <2> QED
    BY <2>4, <2>5
<1>2. CASE TimerTask
  BY <1>2, RecvTwo, GotTwo, CmdTwo, LookTwo, CbEndTwo, FireTwo DEF TimerTask
<1> QED
  BY <1>1, <1>2, TickTwo, CallersTwo DEF Next

LEMMA TwoHold ==
    ASSUME TwoTimers, Seldom
    PROVE  Spec => [](Inv /\ Bounds /\ Idle /\ Paired /\ Late)
<1>1. Init => Paired /\ Late
  BY InitTwo
<1>2. Inv /\ Bounds /\ Inv' /\ Bounds' /\ Paired /\ Late /\ [Next]_vars => Paired' /\ Late'
  BY NextTwo
<1> QED
  BY <1>1, <1>2, BoundsHold, IdleHolds, PTL DEF Spec

(* However late the task is, up to what the model counts: two timers are   *)
(* called when they are due or as late as the task, for one that expired   *)
(* and was passed over is called before the task waits again.  It takes a  *)
(* third timer to break the order for good, which is what MCTimerLate does.*)
THEOREM WokenForTwo ==
    ASSUME TwoTimers, Seldom PROVE Spec => []WokenInTime
<1>1. Inv /\ Bounds /\ Paired /\ Late => WokenInTime
  <2> SUFFICES ASSUME Inv, Bounds, Paired, Late, pc = "blocked", NEW t \in Range(list)
               PROVE  inner /\ timer[t].due - left >= -MaxLag
    BY DEF WokenInTime
  <2>1. list # <<>>
    BY DEF Range
  <2>2. inner /\ timer[t].due >= left - MaxLag
    BY <2>1 DEF Paired, Late, LateBlocked, Bounds
  <2> QED
    BY <2>2, OfInts
<1> QED
  BY <1>1, TwoHold, PTL

(* k_timer.h: of two timers, the list is sorted when the task waits. *)
THEOREM SortedForTwo ==
    ASSUME TwoTimers, Seldom PROVE Spec => []SortedByMatch
<1>1. Inv /\ Paired => SortedByMatch
  <2>1. Paired /\ pc = "blocked" => ByDue
    BY DEF Paired, Overtaken
  <2>2. pc # "blocked" => SortedByMatch
    BY DEF SortedByMatch
  <2> QED
    BY <2>1, <2>2, SortedOf
<1> QED
  BY <1>1, TwoHold, PTL

(* Nor is one of them ever overdue by as much as the model counts. *)
THEOREM TypeOKForTwo ==
    ASSUME TwoTimers, Seldom PROVE Spec => []TypeOK
<1>1. Inv /\ Bounds /\ Idle /\ Paired /\ Late => TypeOK
  <2> SUFFICES ASSUME Inv, Bounds, Idle, Paired, Late, NEW t \in Timer
               PROVE  timer[t].due > -Cap
    BY TypedOf DEF TypeOK
  <2>1. CASE ~timer[t].active
    BY <2>1, CapIs DEF Idle
  <2>2. CASE timer[t].active
    <3>1. t \in Range(list) /\ list # <<>>
      BY <2>2 DEF Inv, Data, ListMatchesState, Range
    <3>2. CASE pc \in {"cb", "cmd", "look"}
      BY <3>1, <3>2, OfInts, CapIs DEF Late, LateWork, Rem, Seldom
    <3>3. CASE pc = "recv"
      BY <3>1, <3>3, OfInts, CapIs DEF Late, LateRecv, Seldom
    <3>4. CASE pc = "blocked"
      BY <3>1, <3>4, OfInts, CapIs DEF Late, LateBlocked, Seldom
    <3>5. CASE pc \in {"got", "timeout"}
      BY <3>1, <3>5, OfInts, CapIs DEF Late, LateWoken, Seldom
    <3> QED
      BY <3>2, <3>3, <3>4, <3>5 DEF Bounds
  <2> QED
    BY <2>1, <2>2, TimersOf
<1> QED
  BY <1>1, TwoHold, PTL
============================================================================
