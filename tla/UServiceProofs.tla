--------------------------- MODULE UServiceProofs ---------------------------
(***************************************************************************)
(* Proofs that buffers are shared safely between callers and services, and *)
(* that calls implement CallSpec: for any tasks, calls, heap, queue length *)
(* and number of tries.                                                    *)
(***************************************************************************)
EXTENDS UServiceProperties, FiniteSetTheorems, TLAPS

(* Where the service side has the buffer of a request. *)
InQueue(b) == \E t \in Utask : \E i \in 1..Len(queue[t]) : queue[t][i].data = b
InCur(b)   == \E t \in Utask : cur[t] # NULL /\ cur[t].data = b
InKept(b)  == \E r \in Left : r.data = b
AtService(b) == InQueue(b) \/ InCur(b) \/ InKept(b)
AtCaller(b)  == \E c \in Caller : call[c].pc # "idle" /\ call[c].data = b

(* The request of a call has been put into the queue. *)
Sent(c) == call[c].pc = "wait" \/ (call[c].pc = "deinit" /\ call[c].ret # "refused")
Unsent(c) == call[c].pc # "idle" /\ ~Sent(c)

(* The service side has no buffer twice, and no two calls share one. *)
QueueApart ==
    \A t, u \in Utask : \A i \in 1..Len(queue[t]), j \in 1..Len(queue[u]) :
        queue[t][i].data \in Buf /\ queue[t][i].data = queue[u][j].data
            => t = u /\ i = j
CurApart ==
    \A t, u \in Utask :
        cur[t] # NULL /\ cur[u] # NULL /\ cur[t].data \in Buf
        /\ cur[t].data = cur[u].data => t = u
KeptApart == \A r, s \in Left : r.data \in Buf /\ r.data = s.data => r = s
PlacesApart ==
    \A b \in Buf : /\ ~(InQueue(b) /\ InCur(b))
                   /\ ~(InQueue(b) /\ InKept(b))
                   /\ ~(InCur(b) /\ InKept(b))
CallsApart ==
    \A c, d \in Caller :
        call[c].pc # "idle" /\ call[d].pc # "idle" /\ call[c].data \in Buf
        /\ call[c].data = call[d].data => c = d
Apart == QueueApart /\ CurApart /\ KeptApart /\ PlacesApart /\ CallsApart

(* The semaphore of a request that is not answered has not been given. *)
Silent ==
    /\ \A b \in Buf : InQueue(b) => heap[b].sem = 0
    /\ \A t \in Utask : cur[t] # NULL /\ cur[t].data \in Buf /\ ~cur[t].done
           => heap[cur[t].data].sem = 0
    /\ \A r \in Left : r.data \in Buf /\ ~r.done => heap[r.data].sem = 0
    /\ \A c \in Caller : Unsent(c) /\ call[c].data \in Buf
           => heap[call[c].data].sem = 0

(* A call that sends has somewhere to send to, one that waits a buffer. *)
Underway ==
    \A c \in Caller : /\ call[c].pc = "send" => call[c].to \in Utask
                      /\ call[c].pc = "wait" => call[c].data \in Buf

(* Who still has a buffer.  One that is in the cache has one user left. *)
Shared ==
    /\ \A b \in Buf : AtCaller(b) \/ AtService(b) => heap[b].kind # "free"
    /\ \A b \in Buf : heap[b].gc => ~(AtCaller(b) /\ AtService(b))
    /\ \A b \in Buf : heap[b].kind # "free" /\ ~heap[b].gc => AtCaller(b)
    /\ \A c \in Caller : \A b \in Buf :
           Unsent(c) /\ call[c].data = b => ~AtService(b) /\ ~heap[b].gc
    /\ \A c \in Caller : \A b \in Buf :
           Sent(c) /\ call[c].data = b => heap[b].gc \/ AtService(b)

Inv == TypeOK /\ Apart /\ Silent /\ Underway /\ Shared

(* What was dropped is not kept any more, and nobody answers it. *)
OnceLeft == kept \cap dropped = {} /\ \A r \in dropped : ~r.done

(* A buffer nobody will give up any more.  Only Return makes one. *)
Stray(b)   == heap[b].kind # "free" /\ ~AtCaller(b) /\ ~AtService(b)
NoNewStray == \A b \in Buf : Stray(b)' => Stray(b)

-----------------------------------------------------------------------------
(* What the places hold after each kind of step. *)
LEMMA InitInv == Init => Inv
<1> SUFFICES ASSUME Init PROVE Inv
  OBVIOUS
<1>1. \A b : ~InQueue(b) /\ ~InCur(b) /\ ~InKept(b) /\ ~AtCaller(b)
  BY DEF Init, Left, InQueue, InCur, InKept, AtCaller, NoCall
<1>2. TypeOK
  BY UServiceAssumption DEF Init, Left, TypeOK, Freed, NoCall, RequestType, CallType
<1>3. Apart
  BY <1>1 DEF Init, Left, Apart, QueueApart, CurApart, KeptApart, PlacesApart,
              CallsApart, NoCall
<1>4. Silent
  BY <1>1 DEF Init, Left, Silent, Unsent, Sent, NoCall
<1>5. Shared
  BY <1>1 DEF Init, Left, Shared, AtService, Unsent, Sent, NoCall, Freed
<1>6. Underway
  BY DEF Init, Left, Underway, NoCall
<1> QED
  BY <1>2, <1>3, <1>4, <1>5, <1>6 DEF Inv

-----------------------------------------------------------------------------
(* Sequences. *)
LEMMA AppendIndex ==
    ASSUME NEW S, NEW q \in Seq(S), NEW e \in S
    PROVE  /\ Append(q, e) \in Seq(S) /\ Len(Append(q, e)) = Len(q) + 1
           /\ \A i \in 1..Len(q) : Append(q, e)[i] = q[i]
           /\ Append(q, e)[Len(q) + 1] = e
  OBVIOUS

LEMMA TailIndex ==
    ASSUME NEW S, NEW q \in Seq(S), q # <<>>
    PROVE  /\ Tail(q) \in Seq(S) /\ Len(Tail(q)) = Len(q) - 1 /\ Len(q) >= 1
           /\ Head(q) = q[1] /\ Head(q) \in S
           /\ \A i \in 1..Len(Tail(q)) : Tail(q)[i] = q[i + 1]
  OBVIOUS

(* What a step that leaves a place alone leaves true. *)
LEMMA SameQueue == ASSUME UNCHANGED queue PROVE
    /\ QueueApart' <=> QueueApart
    /\ \A b : InQueue(b)' <=> InQueue(b)
  BY DEF QueueApart, InQueue

LEMMA SameCur == ASSUME UNCHANGED cur PROVE
    /\ CurApart' <=> CurApart
    /\ \A b : InCur(b)' <=> InCur(b)
  BY DEF CurApart, InCur

LEMMA SameKept == ASSUME UNCHANGED Left PROVE
    /\ KeptApart' <=> KeptApart
    /\ \A b : InKept(b)' <=> InKept(b)
  BY DEF KeptApart, InKept

LEMMA SameCall == ASSUME UNCHANGED call PROVE
    /\ CallsApart' <=> CallsApart
    /\ \A b : AtCaller(b)' <=> AtCaller(b)
    /\ \A c : Sent(c)' <=> Sent(c)
    /\ \A c : Unsent(c)' <=> Unsent(c)
  BY DEF CallsApart, AtCaller, Sent, Unsent

(* A step of a call that keeps its buffer. *)
LEMMA SameBuffer ==
    ASSUME NEW c \in Caller, NEW e, call \in [Caller -> CallType],
           call[c].pc # "idle", e.pc # "idle", e.data = call[c].data,
           call' = [call EXCEPT ![c] = e]
    PROVE  /\ CallsApart' <=> CallsApart
           /\ \A b : AtCaller(b)' <=> AtCaller(b)
           /\ \A d \in Caller \ {c} : call'[d] = call[d]
           /\ call'[c] = e
  BY DEF CallsApart, AtCaller

LEMMA DeinitTyped ==
    ASSUME TypeOK, NEW b \in Buf \cup {NULL}
    PROVE  /\ RpcDeinit(b) \in [Buf -> [kind : Kind \cup {"free"}, sem : {0, 1}, gc : BOOLEAN]]
           /\ \A x \in Buf \ {b} : RpcDeinit(b)[x] = heap[x]
           /\ b \in Buf /\ heap[b].gc => RpcDeinit(b)[b] = Freed
           /\ b \in Buf /\ ~heap[b].gc =>
                 RpcDeinit(b)[b] = [heap[b] EXCEPT !.gc = TRUE]
           /\ \A x \in Buf : heap[x].sem = 0 => RpcDeinit(b)[x].sem = 0
<1>1. CASE b = NULL
  BY <1>1, UServiceAssumption DEF TypeOK, RpcDeinit
<1>2. CASE b # NULL
  BY <1>2 DEF TypeOK, RpcDeinit, Freed
<1> QED
  BY <1>1, <1>2

-----------------------------------------------------------------------------
(* The caller. *)
LEMMA BeginInv ==
    ASSUME Inv, NEW c \in Caller, NEW t \in Utask, NEW k \in Kind, Begin(c, t, k)
    PROVE  Inv' /\ NoNewStray
<1> DEFINE b == IF k = "bare" THEN NULL ELSE CHOOSE x \in FreeBuf : TRUE
           own == OwnTask(c, t, k)
           e == [pc    |-> IF own THEN "deinit" ELSE "send",
                 to    |-> t,
                 data  |-> b,
                 tries |-> IF own THEN 0 ELSE Tries,
                 ret   |-> IF own THEN "refused" ELSE "none"]
<1>1. /\ call[c].pc = "idle" /\ UNCHANGED <<queue, cur, Left>>
      /\ heap' = IF b = NULL THEN heap ELSE [heap EXCEPT ![b] = NewBuf(k)]
      /\ call' = [call EXCEPT ![c] = e]
  BY DEF Begin, Left
<1>2. b = NULL \/ (k # "bare" /\ b \in Buf /\ heap[b].kind = "free")
  BY DEF Begin, Left, FreeBuf
<1>3. e \in CallType
  BY <1>2, UServiceAssumption DEF CallType
<1>4. e.pc # "idle" /\ e.data = b /\ e.to \in Utask /\ ~(e.pc = "wait") /\ (e.pc = "deinit" => e.ret = "refused")
  OBVIOUS
<1> HIDE DEF b, e, own
<1>5. TypeOK'
  BY <1>1, <1>2, <1>3, UServiceAssumption DEF Inv, TypeOK, NewBuf, Kind
<1>6. call'[c] = e /\ \A d \in Caller \ {c} : call'[d] = call[d]
  BY <1>1 DEF Inv, TypeOK
<1>7. b \in Buf => ~AtCaller(b) /\ ~AtService(b)
  BY <1>2, UServiceAssumption DEF Inv, Shared
<1>8. \A x : AtService(x)' <=> AtService(x)
  BY <1>1, SameQueue, SameCur, SameKept DEF AtService
<1>9. \A x \in Buf : AtCaller(x)' <=> AtCaller(x) \/ x = b
  BY <1>1, <1>4, <1>6 DEF AtCaller
<1>10. CallsApart'
  BY <1>1, <1>4, <1>6, <1>7 DEF CallsApart, AtCaller, Inv, Apart
<1>11. Apart'
  BY <1>1, <1>10, SameQueue, SameCur, SameKept DEF Inv, Apart, PlacesApart
<1>12. Unsent(c)' /\ ~Sent(c)' /\ \A d \in Caller \ {c} : (Unsent(d)' <=> Unsent(d)) /\ (Sent(d)' <=> Sent(d))
  BY <1>4, <1>6 DEF Unsent, Sent
<1>13. \A x \in Buf \ {b} : heap'[x] = heap[x]
  BY <1>1, <1>2 DEF Inv, TypeOK
<1>14. b \in Buf => heap'[b] = NewBuf(k)
  BY <1>1, <1>2, UServiceAssumption DEF Inv, TypeOK
<1>15. Silent'
  <2>1. \A x \in Buf : InQueue(x)' => heap'[x].sem = 0
    BY <1>1, <1>7, <1>13, <1>14, SameQueue DEF Inv, Silent, AtService, NewBuf
  <2>2. \A u \in Utask : cur'[u] # NULL /\ cur'[u].data \in Buf /\ ~cur'[u].done
           => heap'[cur'[u].data].sem = 0
    BY <1>1, <1>7, <1>13, <1>14 DEF Inv, Silent, AtService, InCur, NewBuf
  <2>3. \A r \in Left' : r.data \in Buf /\ ~r.done => heap'[r.data].sem = 0
    BY <1>1, <1>7, <1>13, <1>14 DEF Inv, Silent, AtService, InKept, NewBuf
  <2>4. \A d \in Caller : Unsent(d)' /\ call'[d].data \in Buf => heap'[call'[d].data].sem = 0
    BY <1>4, <1>6, <1>12, <1>13, <1>14 DEF Inv, Silent, NewBuf
  <2> QED
    BY <2>1, <2>2, <2>3, <2>4 DEF Silent
<1>16. Shared'
  <2>1. b \in Buf => heap'[b].kind # "free" /\ ~heap'[b].gc
    BY <1>14 DEF NewBuf, Kind
  <2>2. \A d \in Caller \ {c} : Unsent(d) \/ Sent(d) => call[d].pc # "idle"
    BY DEF Unsent, Sent
  <2>3. \A d \in Caller \ {c} : (Unsent(d) \/ Sent(d)) /\ call[d].data \in Buf => call[d].data # b
    BY <2>2, <1>7 DEF AtCaller
  <2> QED
    BY <2>1, <2>2, <2>3, <1>4, <1>6, <1>7, <1>8, <1>9, <1>12, <1>13 DEF Inv, Shared
<1>17. Underway'
  BY <1>4, <1>6 DEF Inv, Underway
<1>18. NoNewStray
  BY <1>8, <1>9, <1>13 DEF NoNewStray, Stray
<1> QED
  BY <1>18, <1>5, <1>11, <1>15, <1>16, <1>17 DEF Inv

LEMMA BeginNoMemInv ==
    ASSUME Inv, NEW c \in Caller, NEW t \in Utask, NEW k \in Kind, BeginNoMem(c, t, k)
    PROVE  Inv' /\ NoNewStray
<1> DEFINE e == [NoCall EXCEPT !.pc = "deinit", !.ret = "refused"]
<1>1. /\ call[c].pc = "idle" /\ UNCHANGED <<heap, queue, cur, Left>>
      /\ call' = [call EXCEPT ![c] = e]
  BY DEF BeginNoMem, Left
<1>2. e \in CallType /\ e.pc = "deinit" /\ e.ret = "refused" /\ e.data = NULL
  <2>1. NoCall \in CallType /\ NoCall.data = NULL
    BY UServiceAssumption DEF NoCall, CallType
  <2> QED
    BY <2>1 DEF CallType
<1> HIDE DEF e
<1>3. TypeOK'
  BY <1>1, <1>2 DEF Inv, TypeOK
<1>4. call'[c] = e /\ \A d \in Caller \ {c} : call'[d] = call[d]
  BY <1>1 DEF Inv, TypeOK
<1>5. NULL \notin Buf
  BY UServiceAssumption
<1>6. \A x : AtService(x)' <=> AtService(x)
  BY <1>1, SameQueue, SameCur, SameKept DEF AtService
<1>7. \A x \in Buf : AtCaller(x)' <=> AtCaller(x)
  BY <1>1, <1>2, <1>4, <1>5 DEF AtCaller
<1>8. Apart'
  <2>1. CallsApart'
    BY <1>2, <1>4, <1>5 DEF Inv, Apart, CallsApart
  <2> QED
    BY <2>1, <1>1, SameQueue, SameCur, SameKept DEF Inv, Apart, PlacesApart
<1>9. \A d \in Caller \ {c} : (Unsent(d)' <=> Unsent(d)) /\ (Sent(d)' <=> Sent(d))
  BY <1>4 DEF Unsent, Sent
<1>10. Silent'
  BY <1>1, <1>2, <1>4, <1>5, <1>9, SameQueue DEF Inv, Silent
<1>11. Shared'
  BY <1>1, <1>2, <1>4, <1>5, <1>6, <1>7, <1>9 DEF Inv, Shared
<1>12. Underway'
  BY <1>2, <1>4 DEF Inv, Underway
<1>13. NoNewStray
  BY <1>1, <1>6, <1>7 DEF NoNewStray, Stray
<1> QED
  BY <1>13, <1>3, <1>8, <1>10, <1>11, <1>12 DEF Inv

(* A call goes on: it keeps its buffer, which nobody else touches. *)
LEMMA CallGoesOn ==
    ASSUME Inv, NEW c \in Caller, NEW e \in CallType,
           call[c].pc # "idle", e.pc # "idle", e.data = call[c].data,
           Unsent(c) <=> e.pc = "send" \/ (e.pc = "deinit" /\ e.ret = "refused"),
           e.pc = "send" => e.to \in Utask, e.pc = "wait" => e.data \in Buf,
           call' = [call EXCEPT ![c] = e],
           UNCHANGED <<heap, queue, cur, Left>>
    PROVE  Inv' /\ NoNewStray
<1>1. TypeOK'
  BY DEF Inv, TypeOK
<1>2. /\ call'[c] = e /\ \A d \in Caller \ {c} : call'[d] = call[d]
      /\ CallsApart' /\ \A b : AtCaller(b)' <=> AtCaller(b)
  BY SameBuffer DEF Inv, TypeOK, Apart
<1>3. \A d \in Caller : (Unsent(d)' <=> Unsent(d)) /\ (Sent(d)' <=> Sent(d))
                        /\ call'[d].data = call[d].data
  <2>1. e.pc \in {"send", "wait", "deinit"}
    BY DEF CallType
  <2> QED
    BY <1>2, <2>1 DEF Unsent, Sent
<1>4. \A x : AtService(x)' <=> AtService(x)
  BY SameQueue, SameCur, SameKept DEF AtService
<1>5. Apart'
  BY <1>2, SameQueue, SameCur, SameKept DEF Inv, Apart, PlacesApart
<1>6. Silent'
  BY <1>2, <1>3, SameQueue DEF Inv, Silent
<1>7. Shared'
  BY <1>2, <1>3, <1>4 DEF Inv, Shared
<1>8. Underway'
  BY <1>2 DEF Inv, Underway
<1>9. NoNewStray
  BY <1>2, <1>4 DEF NoNewStray, Stray
<1> QED
  BY <1>9, <1>1, <1>5, <1>6, <1>7, <1>8 DEF Inv

LEMMA SendFullInv ==
    ASSUME Inv, NEW c \in Caller, SendFull(c)
    PROVE  Inv' /\ NoNewStray
<1> DEFINE again == [call[c] EXCEPT !.tries = call[c].tries - 1]
           last  == [call[c] EXCEPT !.pc = "deinit", !.tries = 0, !.ret = "refused"]
<1>1. call[c].pc = "send" /\ call[c] \in CallType /\ Unsent(c)
      /\ call[c].to \in Utask /\ UNCHANGED <<heap, queue, cur, Left>>
  BY DEF SendFull, Left, Inv, TypeOK, Underway, Unsent, Sent
<1>2. CASE call[c].tries > 1
  <2>1. call' = [call EXCEPT ![c] = again]
    BY <1>2 DEF SendFull, Left
  <2>2. again \in CallType /\ again.data = call[c].data /\ again.pc = "send"
        /\ again.to \in Utask
    BY <1>1, <1>2, UServiceAssumption DEF CallType
  <2> HIDE DEF again
  <2> QED
    BY <1>1, <2>1, <2>2, CallGoesOn
<1>3. CASE ~(call[c].tries > 1)
  <2>1. call' = [call EXCEPT ![c] = last]
    BY <1>3 DEF SendFull, Left
  <2>2. last \in CallType /\ last.data = call[c].data /\ last.pc = "deinit"
        /\ last.ret = "refused"
    <3>1. 0 \in 0..Tries
      BY UServiceAssumption
    <3> QED
      BY <1>1, <3>1 DEF CallType
  <2> HIDE DEF last
  <2> QED
    BY <1>1, <2>1, <2>2, CallGoesOn
<1> QED
  BY <1>2, <1>3

LEMMA TimedOutInv ==
    ASSUME Inv, NEW c \in Caller, TimedOut(c)
    PROVE  Inv' /\ NoNewStray
<1> DEFINE e == [call[c] EXCEPT !.pc = "deinit", !.ret = "timeout"]
<1>1. /\ call[c].pc = "wait" /\ call[c] \in CallType
      /\ call' = [call EXCEPT ![c] = e] /\ UNCHANGED <<heap, queue, cur, Left>>
  BY DEF TimedOut, Left, Inv, TypeOK
<1>2. e \in CallType /\ e.data = call[c].data /\ e.pc = "deinit" /\ e.ret = "timeout"
  BY <1>1 DEF CallType
<1>3. ~Unsent(c)
  BY <1>1 DEF Unsent, Sent
<1> QED
  BY <1>1, <1>2, <1>3, CallGoesOn

LEMMA AnsweredInv ==
    ASSUME Inv, NEW c \in Caller, Answered(c)
    PROVE  Inv' /\ NoNewStray
<1> DEFINE e == [call[c] EXCEPT !.pc = "deinit", !.ret = "ok"]
           b == call[c].data
<1>1. /\ call[c].pc = "wait" /\ call[c] \in CallType /\ b \in Buf
      /\ heap[b].sem > 0 /\ call' = [call EXCEPT ![c] = e]
      /\ UNCHANGED <<queue, cur, Left>>
  BY DEF Answered, Left, Inv, TypeOK, Underway
<1>2. e \in CallType /\ e.data = b /\ e.pc = "deinit" /\ e.ret = "ok"
  BY <1>1 DEF CallType
<1>3. /\ heap' \in [Buf -> [kind : Kind \cup {"free"}, sem : {0, 1}, gc : BOOLEAN]]
      /\ \A x \in Buf : /\ heap'[x].kind = heap[x].kind /\ heap'[x].gc = heap[x].gc
                        /\ heap[x].sem = 0 => heap'[x].sem = 0
  <2>1. heap' = [heap EXCEPT ![b].sem = heap[b].sem - 1]
    BY DEF Answered, Left
  <2>2. heap[b].sem = 1
    BY <1>1 DEF Inv, TypeOK
  <2>3. heap' = [heap EXCEPT ![b].sem = 0]
    BY <2>1, <2>2
  <2> QED
    BY <2>3, <1>1 DEF Inv, TypeOK
<1> HIDE DEF e, b
<1>4. TypeOK'
  BY <1>1, <1>2, <1>3 DEF Inv, TypeOK
<1>5. /\ call'[c] = e /\ \A d \in Caller \ {c} : call'[d] = call[d]
      /\ CallsApart' /\ \A x : AtCaller(x)' <=> AtCaller(x)
  BY <1>1, <1>2, SameBuffer DEF Inv, TypeOK, Apart, b
<1>6. \A d \in Caller : (Unsent(d)' <=> Unsent(d)) /\ (Sent(d)' <=> Sent(d))
                        /\ call'[d].data = call[d].data
  BY <1>1, <1>2, <1>5 DEF Unsent, Sent, b
<1>7. \A x : AtService(x)' <=> AtService(x)
  BY <1>1, SameQueue, SameCur, SameKept DEF AtService
<1>8. Apart'
  BY <1>1, <1>5, SameQueue, SameCur, SameKept DEF Inv, Apart, PlacesApart
<1>9. Silent'
  BY <1>1, <1>3, <1>6, SameQueue DEF Inv, Silent
<1>10. Underway'
  BY <1>2, <1>5 DEF Inv, Underway
<1>11. Shared'
  BY <1>3, <1>5, <1>6, <1>7 DEF Inv, Shared
<1>12. NoNewStray
  BY <1>3, <1>5, <1>7 DEF NoNewStray, Stray
<1> QED
  BY <1>12, <1>4, <1>8, <1>9, <1>10, <1>11 DEF Inv

(* The request is in the queue; a call that waits has its buffer still,    *)
(* the others have it too until they return.                               *)
LEMMA SendInv ==
    ASSUME Inv, NEW c \in Caller, Send(c)
    PROVE  Inv' /\ NoNewStray
<1> DEFINE b == call[c].data
           to == call[c].to
           r == Request(c, b)
           e == IF HasSem(b) THEN [call[c] EXCEPT !.pc = "wait", !.tries = 0]
                ELSE [call[c] EXCEPT !.pc = "deinit", !.tries = 0, !.ret = "ok"]
<1>1. /\ call[c].pc = "send" /\ call[c] \in CallType /\ to \in Utask
      /\ b \in Buf \cup {NULL} /\ NULL \notin Buf /\ Unsent(c)
  BY UServiceAssumption DEF Send, Left, Inv, TypeOK, Underway, CallType, Unsent, Sent
<1>2. /\ Len(queue[to]) < Depth /\ UNCHANGED <<heap, cur, Left>>
      /\ queue' = [queue EXCEPT ![to] = Append(queue[to], r)]
      /\ call' = [call EXCEPT ![c] = e]
  BY <1>1, UServiceAssumption DEF Send, Left, Full, Inv, TypeOK
<1>3. e \in CallType /\ e.data = b
      /\ ((e.pc = "wait" /\ b \in Buf) \/ (e.pc = "deinit" /\ e.ret = "ok"))
  <2>1. 0 \in 0..Tries
    BY UServiceAssumption
  <2>2. CASE HasSem(b)
    BY <1>1, <2>1, <2>2 DEF CallType, HasSem
  <2>3. CASE ~HasSem(b)
    BY <1>1, <2>1, <2>3 DEF CallType
  <2> QED
    BY <2>2, <2>3
<1>4. r \in RequestType /\ r.data = b /\ ~r.done
  BY <1>1 DEF Request, RequestType
<1> HIDE DEF e, r
<1>5. /\ queue'[to] \in Seq(RequestType) /\ Len(queue'[to]) = Len(queue[to]) + 1
      /\ \A i \in 1..Len(queue[to]) : queue'[to][i] = queue[to][i]
      /\ queue'[to][Len(queue[to]) + 1] = r
      /\ \A u \in Utask \ {to} : queue'[u] = queue[u]
      /\ DOMAIN queue' = Utask /\ Len(queue[to]) \in Nat
  <2>1. queue[to] \in Seq(RequestType) /\ DOMAIN queue = Utask
    BY <1>1 DEF Inv, TypeOK
  <2>2. queue'[to] = Append(queue[to], r) /\ DOMAIN queue' = Utask
        /\ \A u \in Utask \ {to} : queue'[u] = queue[u]
    BY <1>1, <1>2, <2>1
  <2> QED
    BY <2>1, <2>2, <1>4, AppendIndex
<1> HIDE DEF b, to
<1>6. TypeOK'
  <2>1. \A u \in Utask : queue'[u] \in Seq(RequestType) /\ Len(queue'[u]) <= Depth
    BY <1>1, <1>2, <1>5, UServiceAssumption DEF Inv, TypeOK
  <2>2. call' \in [Caller -> CallType]
    BY <1>2, <1>3 DEF Inv, TypeOK
  <2> QED
    BY <1>2, <1>5, <2>1, <2>2 DEF Inv, TypeOK
<1>7. /\ call'[c] = e /\ \A d \in Caller \ {c} : call'[d] = call[d]
      /\ CallsApart' /\ \A x : AtCaller(x)' <=> AtCaller(x)
  BY <1>1, <1>2, <1>3, SameBuffer DEF Inv, TypeOK, Apart, b
<1>8. /\ ~Unsent(c)' /\ Sent(c)' /\ ~Sent(c)
      /\ \A d \in Caller \ {c} : (Unsent(d)' <=> Unsent(d)) /\ (Sent(d)' <=> Sent(d))
      /\ \A d \in Caller : call'[d].data = call[d].data
  BY <1>1, <1>3, <1>7 DEF Unsent, Sent, b
<1>9. b \in Buf => ~AtService(b) /\ ~heap[b].gc /\ heap[b].sem = 0 /\ AtCaller(b)
  BY <1>1 DEF Inv, Shared, Silent, b, AtCaller
<1>10. \A x \in Buf : InQueue(x)' <=> InQueue(x) \/ x = b
  <2> TAKE x \in Buf
  <2>1. InQueue(x) => InQueue(x)'
    BY <1>1, <1>5 DEF InQueue
  <2>2. x = b => InQueue(x)'
    <3>1. Len(queue[to]) + 1 \in 1..Len(queue'[to])
      BY <1>5
    <3> QED
      BY <1>1, <1>4, <1>5, <3>1 DEF InQueue
  <2>3. InQueue(x)' => InQueue(x) \/ x = b
    <3>1. SUFFICES ASSUME NEW u \in Utask, NEW i \in 1..Len(queue'[u]), queue'[u][i].data = x
                   PROVE  InQueue(x) \/ x = b
      BY DEF InQueue
    <3>2. CASE u = to /\ i = Len(queue[to]) + 1
      BY <1>4, <1>5, <3>1, <3>2
    <3>3. CASE u = to /\ i # Len(queue[to]) + 1
      <4>1. i \in 1..Len(queue[to])
        BY <1>5, <3>3
      <4> QED
        BY <1>1, <1>5, <3>1, <3>3, <4>1 DEF InQueue
    <3>4. CASE u # to
      BY <1>5, <3>1, <3>4 DEF InQueue
    <3> QED
      BY <3>2, <3>3, <3>4
  <2> QED
    BY <2>1, <2>2, <2>3
<1>11. QueueApart'
  <2>1. SUFFICES ASSUME NEW u \in Utask, NEW v \in Utask,
                        NEW i \in 1..Len(queue'[u]), NEW j \in 1..Len(queue'[v]),
                        queue'[u][i].data \in Buf, queue'[u][i].data = queue'[v][j].data
                 PROVE  u = v /\ i = j
    BY DEF QueueApart
  <2>2. \A w \in Utask : \A k \in 1..Len(queue'[w]) :
            \/ k \in 1..Len(queue[w]) /\ queue'[w][k] = queue[w][k]
            \/ w = to /\ k = Len(queue[to]) + 1 /\ queue'[w][k] = r
    BY <1>5
  <2>3. \A w \in Utask : \A k \in 1..Len(queue[w]) : b \in Buf => queue[w][k].data # b
    BY <1>9 DEF AtService, InQueue
  <2>4. CASE i \in 1..Len(queue[u]) /\ j \in 1..Len(queue[v])
    <3>1. queue'[u][i] = queue[u][i] /\ queue'[v][j] = queue[v][j]
      BY <2>4, <2>2, <1>5
    <3> QED
      BY <2>1, <2>4, <3>1 DEF Inv, Apart, QueueApart
  <2>5. CASE i \notin 1..Len(queue[u]) /\ j \notin 1..Len(queue[v])
    BY <2>2, <2>5
  <2>6. CASE i \in 1..Len(queue[u]) /\ j \notin 1..Len(queue[v])
    <3>1. queue'[v][j].data = b /\ queue'[u][i] = queue[u][i]
      BY <2>2, <2>6, <1>4, <1>5
    <3> QED
      BY <2>1, <2>3, <2>6, <3>1
  <2>7. CASE i \notin 1..Len(queue[u]) /\ j \in 1..Len(queue[v])
    <3>1. queue'[u][i].data = b /\ queue'[v][j] = queue[v][j]
      BY <2>2, <2>7, <1>4, <1>5
    <3> QED
      BY <2>1, <2>3, <2>7, <3>1
  <2> QED
    BY <2>4, <2>5, <2>6, <2>7
<1>12. Apart'
  BY <1>1, <1>2, <1>7, <1>9, <1>10, <1>11, SameCur, SameKept
     DEF Inv, Apart, PlacesApart, AtService
<1>13. \A x \in Buf : AtService(x)' <=> AtService(x) \/ x = b
  BY <1>2, <1>10, SameCur, SameKept DEF AtService
<1>14. Silent'
  BY <1>2, <1>8, <1>9, <1>10 DEF Inv, Silent
<1>15. Underway'
  BY <1>3, <1>7 DEF Inv, Underway
<1>16. Shared'
  <2>1. \A d \in Caller \ {c} : Unsent(d) /\ call[d].data \in Buf => call[d].data # b
    <3>1. \A d \in Caller : Unsent(d) => call[d].pc # "idle"
      BY DEF Unsent
    <3> QED
      BY <1>1, <3>1 DEF Inv, Apart, CallsApart, b
  <2> QED
    BY <2>1, <1>2, <1>7, <1>8, <1>9, <1>13 DEF Inv, Shared, b
<1>17. NoNewStray
  BY <1>2, <1>7, <1>13 DEF NoNewStray, Stray
<1> QED
  BY <1>17, <1>6, <1>12, <1>14, <1>15, <1>16 DEF Inv

LEMMA ReturnInv ==
    ASSUME Inv, NEW c \in Caller, Return(c)
    PROVE  /\ Inv'
           /\ \A x \in Buf : Stray(x)' =>
                 Stray(x) \/ (call[c].ret = "refused" /\ x = call[c].data)
<1> DEFINE b == call[c].data
<1>1. /\ call[c].pc = "deinit" /\ b \in Buf \cup {NULL} /\ NULL \notin Buf
      /\ heap' = RpcDeinit(b) /\ call' = [call EXCEPT ![c] = NoCall]
      /\ UNCHANGED <<queue, cur, Left>>
  BY UServiceAssumption DEF Return, Left, Inv, TypeOK, CallType
<1>2. /\ heap' \in [Buf -> [kind : Kind \cup {"free"}, sem : {0, 1}, gc : BOOLEAN]]
      /\ \A x \in Buf \ {b} : heap'[x] = heap[x]
      /\ b \in Buf /\ heap[b].gc => heap'[b] = Freed
      /\ b \in Buf /\ ~heap[b].gc => heap'[b] = [heap[b] EXCEPT !.gc = TRUE]
      /\ \A x \in Buf : heap[x].sem = 0 => heap'[x].sem = 0
  BY <1>1, DeinitTyped DEF Inv
<1>3. NoCall \in CallType /\ NoCall.pc = "idle"
  BY UServiceAssumption DEF NoCall, CallType
<1>4. TypeOK'
  BY <1>1, <1>2, <1>3 DEF Inv, TypeOK
<1>5. call'[c] = NoCall /\ \A d \in Caller \ {c} : call'[d] = call[d]
  BY <1>1 DEF Inv, TypeOK
<1>6. ~Unsent(c)' /\ ~Sent(c)'
      /\ \A d \in Caller \ {c} : (Unsent(d)' <=> Unsent(d)) /\ (Sent(d)' <=> Sent(d))
  BY <1>3, <1>5 DEF Unsent, Sent
<1>7. \A d \in Caller \ {c} : call[d].pc # "idle" /\ call[d].data \in Buf
          => call[d].data # b
  BY <1>1 DEF Inv, Apart, CallsApart
<1>8. \A d \in Caller : Unsent(d) \/ Sent(d) => call[d].pc # "idle"
  BY DEF Unsent, Sent
<1> HIDE DEF b
<1>9. \A x \in Buf : AtCaller(x)' <=> AtCaller(x) /\ x # b
  BY <1>1, <1>3, <1>5, <1>7 DEF AtCaller, b
<1>10. \A x : AtService(x)' <=> AtService(x)
  BY <1>1, SameQueue, SameCur, SameKept DEF AtService
<1>11. Apart'
  <2>1. CallsApart'
    BY <1>3, <1>5 DEF Inv, Apart, CallsApart
  <2> QED
    BY <2>1, <1>1, SameQueue, SameCur, SameKept DEF Inv, Apart, PlacesApart
<1>12. Silent'
  BY <1>1, <1>2, <1>5, <1>6, SameQueue DEF Inv, Silent
<1>13. Underway'
  BY <1>3, <1>5 DEF Inv, Underway
<1>14. Shared'
  <2>1. b \in Buf => AtCaller(b)
    BY <1>1 DEF AtCaller, b
  <2>2. b \in Buf /\ heap[b].gc => heap'[b].kind = "free" /\ ~heap'[b].gc /\ ~AtService(b)
    BY <1>2, <2>1 DEF Freed, Inv, Shared
  <2>3. b \in Buf /\ ~heap[b].gc => heap'[b].kind = heap[b].kind /\ heap'[b].gc
    BY <1>2 DEF Inv, TypeOK
  <2>4. b \in Buf => heap[b].kind # "free"
    BY <2>1 DEF Inv, Shared
  <2>5. \A x \in Buf : AtCaller(x)' \/ AtService(x)' => heap'[x].kind # "free"
    BY <1>2, <1>9, <1>10, <2>2, <2>3, <2>4 DEF Inv, Shared
  <2>6. \A x \in Buf : heap'[x].gc => ~(AtCaller(x)' /\ AtService(x)')
    BY <1>2, <1>9, <1>10 DEF Inv, Shared
  <2>7. \A x \in Buf : heap'[x].kind # "free" /\ ~heap'[x].gc => AtCaller(x)'
    BY <1>2, <1>9, <2>2, <2>3 DEF Inv, Shared
  <2>8. \A d \in Caller \ {c} : (Unsent(d) \/ Sent(d)) /\ call[d].data \in Buf
            => heap'[call[d].data] = heap[call[d].data]
    BY <1>2, <1>7, <1>8
  <2> QED
    BY <1>5, <1>6, <1>10, <2>5, <2>6, <2>7, <2>8 DEF Inv, Shared
<1>15. \A x \in Buf : Stray(x)' => Stray(x) \/ (call[c].ret = "refused" /\ x = b)
  <2>1. b \in Buf /\ heap[b].gc => heap'[b].kind = "free"
    BY <1>2 DEF Freed
  <2>2. b \in Buf /\ call[c].ret # "refused" => heap[b].gc \/ AtService(b)
    BY <1>1 DEF Inv, Shared, Sent, b
  <2> QED
    BY <1>2, <1>9, <1>10, <2>1, <2>2 DEF Stray
<1> QED
  BY <1>4, <1>11, <1>12, <1>13, <1>14, <1>15 DEF Inv, b

-----------------------------------------------------------------------------
(* The service side.  It moves a buffer about ... *)
LEMMA SharedStill ==
    ASSUME Inv, UNCHANGED call,
           \A x \in Buf : AtService(x)' <=> AtService(x),
           \A x \in Buf : heap'[x].kind = heap[x].kind /\ heap'[x].gc = heap[x].gc
    PROVE  Shared' /\ Underway' /\ NoNewStray
<1>1. Underway'
  BY DEF Inv, Underway
<1>2. Shared'
  BY SameCall DEF Inv, Shared
<1>3. NoNewStray
  BY SameCall DEF NoNewStray, Stray
<1> QED
  BY <1>3, <1>1, <1>2

(* ... and gives it up. *)
LEMMA SharedGivenUp ==
    ASSUME Inv, UNCHANGED call, NEW b \in Buf \cup {NULL}, heap' = RpcDeinit(b),
           b \in Buf => AtService(b),
           \A x \in Buf : AtService(x)' <=> AtService(x) /\ x # b
    PROVE  Shared' /\ Underway' /\ NoNewStray
<1>1. /\ \A x \in Buf \ {b} : heap'[x] = heap[x]
      /\ b \in Buf /\ heap[b].gc => heap'[b] = Freed
      /\ b \in Buf /\ ~heap[b].gc => heap'[b] = [heap[b] EXCEPT !.gc = TRUE]
  BY DeinitTyped DEF Inv
<1>2. b \in Buf /\ heap[b].gc => heap'[b].kind = "free" /\ ~heap'[b].gc /\ ~AtCaller(b)
  BY <1>1 DEF Freed, Inv, Shared
<1>3. b \in Buf /\ ~heap[b].gc => heap'[b].kind = heap[b].kind /\ heap'[b].gc
  BY <1>1 DEF Inv, TypeOK
<1>4. b \in Buf => heap[b].kind # "free"
  BY DEF Inv, Shared
<1>5. \A x \in Buf : AtCaller(x)' \/ AtService(x)' => heap'[x].kind # "free"
  BY <1>1, <1>2, <1>3, <1>4, SameCall DEF Inv, Shared
<1>6. \A x \in Buf : heap'[x].gc => ~(AtCaller(x)' /\ AtService(x)')
  BY <1>1, <1>2, <1>3, SameCall DEF Inv, Shared
<1>7. \A x \in Buf : heap'[x].kind # "free" /\ ~heap'[x].gc => AtCaller(x)'
  BY <1>1, <1>2, <1>3, SameCall DEF Inv, Shared
<1>8. \A c \in Caller : \A x \in Buf :
          Unsent(c)' /\ call'[c].data = x => ~AtService(x)' /\ ~heap'[x].gc
  <2>1. \A c \in Caller : \A x \in Buf :
            Unsent(c) /\ call[c].data = x => ~AtService(x) /\ ~heap[x].gc
    BY DEF Inv, Shared
  <2> QED
    BY <1>1, <2>1, SameCall
<1>9. \A c \in Caller : \A x \in Buf :
          Sent(c)' /\ call'[c].data = x => heap'[x].gc \/ AtService(x)'
  <2>1. \A c \in Caller : \A x \in Buf :
            Sent(c) /\ call[c].data = x
                => AtCaller(x) /\ (heap[x].gc \/ AtService(x))
    BY DEF Inv, Shared, Sent, AtCaller
  <2> QED
    BY <1>1, <1>2, <1>3, <2>1, SameCall
<1>10. Underway'
  BY DEF Inv, Underway
<1>11. NoNewStray
  BY <1>1, <1>2, <1>3, SameCall DEF NoNewStray, Stray, Inv, Shared
<1> QED
  BY <1>11, <1>5, <1>6, <1>7, <1>8, <1>9, <1>10 DEF Shared

LEMMA RecvInv ==
    ASSUME Inv, NEW t \in Utask, Recv(t)
    PROVE  Inv' /\ NoNewStray
<1> DEFINE r == Head(queue[t])
           b == r.data
<1>1. /\ cur[t] = NULL /\ queue[t] # <<>> /\ UNCHANGED <<heap, Left, call>>
      /\ cur' = [cur EXCEPT ![t] = r]
      /\ queue' = [queue EXCEPT ![t] = Tail(queue[t])]
  BY DEF Recv, Left, Handling
<1>2. /\ queue[t] \in Seq(RequestType) /\ Len(queue[t]) <= Depth
      /\ DOMAIN queue = Utask /\ cur \in [Utask -> RequestType \cup {NULL}]
  BY DEF Inv, TypeOK
<1>3. /\ r \in RequestType /\ r = queue[t][1] /\ Len(queue[t]) >= 1
      /\ Len(queue[t]) \in Nat
      /\ queue'[t] \in Seq(RequestType) /\ Len(queue'[t]) = Len(queue[t]) - 1
      /\ \A i \in 1..Len(queue'[t]) : queue'[t][i] = queue[t][i + 1]
      /\ \A u \in Utask \ {t} : queue'[u] = queue[u]
      /\ DOMAIN queue' = Utask
  <2>1. queue'[t] = Tail(queue[t]) /\ DOMAIN queue' = Utask
        /\ \A u \in Utask \ {t} : queue'[u] = queue[u]
    BY <1>1, <1>2
  <2> QED
    BY <2>1, <1>1, <1>2, TailIndex
<1> HIDE DEF r
<1>4. cur'[t] = r /\ \A u \in Utask \ {t} : cur'[u] = cur[u]
  BY <1>1, <1>2
<1>5. TypeOK'
  <2>1. \A u \in Utask : queue'[u] \in Seq(RequestType) /\ Len(queue'[u]) <= Depth
    <3>1. Len(queue'[t]) <= Depth
      BY <1>2, <1>3, UServiceAssumption
    <3> QED
      BY <1>3, <3>1 DEF Inv, TypeOK
  <2>2. cur' \in [Utask -> RequestType \cup {NULL}]
    BY <1>1, <1>2, <1>3
  <2> QED
    BY <1>1, <1>3, <2>1, <2>2 DEF Inv, TypeOK
<1>6. b \in Buf \cup {NULL} /\ r # NULL /\ NULL \notin Buf
      /\ (b \in Buf => InQueue(b) /\ heap[b].sem = 0)
  <2>1. b \in Buf \cup {NULL} /\ NULL \notin Buf
    BY <1>3, UServiceAssumption DEF RequestType
  <2>2. InQueue(b)
    <3>1. 1 \in 1..Len(queue[t])
      BY <1>3
    <3> QED
      BY <1>3, <3>1 DEF InQueue
  <2>3. r # NULL
    BY <1>3, UServiceAssumption DEF RequestType
  <2> QED
    BY <2>1, <2>2, <2>3 DEF Inv, Silent
<1>7. \A x \in Buf : InCur(x)' <=> InCur(x) \/ x = b
  BY <1>1, <1>4, <1>6 DEF InCur
<1>8. \A u \in Utask : \A i \in 1..Len(queue'[u]) :
          \/ u # t /\ i \in 1..Len(queue[u]) /\ queue'[u][i] = queue[u][i]
          \/ u = t /\ i + 1 \in 1..Len(queue[t]) /\ queue'[u][i] = queue[t][i + 1]
  BY <1>3
<1>9. \A x \in Buf : InQueue(x)' <=> InQueue(x) /\ x # b
  <2> TAKE x \in Buf
  <2>1. ASSUME InQueue(x)' PROVE InQueue(x) /\ x # b
    <3>0. PICK u \in Utask : \E i \in 1..Len(queue'[u]) : queue'[u][i].data = x
      BY <2>1 DEF InQueue
    <3>1. PICK i \in 1..Len(queue'[u]) : queue'[u][i].data = x
      BY <3>0
    <3>2. CASE u # t
      <4>1. i \in 1..Len(queue[u]) /\ queue[u][i].data = x
        BY <1>8, <3>1, <3>2
      <4>2. x # b
        BY <1>3, <3>2, <4>1 DEF Inv, Apart, QueueApart
      <4> QED
        BY <4>1, <4>2 DEF InQueue
    <3>3. CASE u = t
      <4>1. i \in Nat /\ i >= 1 /\ i + 1 \in 1..Len(queue[t]) /\ queue[t][i + 1].data = x
        BY <1>8, <1>3, <3>1, <3>3
      <4>2. 1 \in 1..Len(queue[t]) /\ i + 1 # 1
        BY <1>3, <4>1
      <4>3. x # b
        BY <1>3, <4>1, <4>2 DEF Inv, Apart, QueueApart
      <4> QED
        BY <4>1, <4>3 DEF InQueue
    <3> QED
      BY <3>2, <3>3
  <2>2. ASSUME InQueue(x), x # b PROVE InQueue(x)'
    <3>0. PICK u \in Utask : \E i \in 1..Len(queue[u]) : queue[u][i].data = x
      BY <2>2 DEF InQueue
    <3>1. PICK i \in 1..Len(queue[u]) : queue[u][i].data = x
      BY <3>0
    <3>2. CASE u # t
      BY <1>3, <3>1, <3>2 DEF InQueue
    <3>3. CASE u = t
      <4>1. i # 1
        BY <1>3, <2>2, <3>1, <3>3
      <4>2. i - 1 \in 1..Len(queue'[t]) /\ (i - 1) + 1 = i
        BY <1>3, <3>1, <3>3, <4>1
      <4>3. queue'[t][i - 1] = queue[t][i]
        BY <1>3, <4>2
      <4> QED
        BY <3>1, <3>3, <4>2, <4>3 DEF InQueue
    <3> QED
      BY <3>2, <3>3
  <2> QED
    BY <2>1, <2>2
<1>10. QueueApart'
  <2>1. SUFFICES ASSUME NEW u \in Utask, NEW v \in Utask,
                        NEW i \in 1..Len(queue'[u]), NEW j \in 1..Len(queue'[v]),
                        queue'[u][i].data \in Buf, queue'[u][i].data = queue'[v][j].data
                 PROVE  u = v /\ i = j
    BY DEF QueueApart
  <2>2. CASE u = t /\ v = t
    <3>1. i + 1 \in 1..Len(queue[t]) /\ queue'[u][i] = queue[t][i + 1]
          /\ j + 1 \in 1..Len(queue[t]) /\ queue'[v][j] = queue[t][j + 1]
      BY <1>8, <2>2
    <3>2. i + 1 = j + 1
      BY <2>1, <3>1 DEF Inv, Apart, QueueApart
    <3>3. i \in Nat /\ j \in Nat
      BY <1>3, <2>2
    <3> QED
      BY <2>2, <3>2, <3>3
  <2>3. CASE u # t /\ v # t
    <3>1. i \in 1..Len(queue[u]) /\ queue'[u][i] = queue[u][i]
          /\ j \in 1..Len(queue[v]) /\ queue'[v][j] = queue[v][j]
      BY <1>8, <2>3
    <3> QED
      BY <2>1, <3>1 DEF Inv, Apart, QueueApart
  <2>4. CASE u = t /\ v # t
    <3>1. i + 1 \in 1..Len(queue[t]) /\ queue'[u][i] = queue[t][i + 1]
          /\ j \in 1..Len(queue[v]) /\ queue'[v][j] = queue[v][j]
      BY <1>8, <2>4
    <3> QED
      BY <2>1, <2>4, <3>1 DEF Inv, Apart, QueueApart
  <2>5. CASE u # t /\ v = t
    <3>1. i \in 1..Len(queue[u]) /\ queue'[u][i] = queue[u][i]
          /\ j + 1 \in 1..Len(queue[t]) /\ queue'[v][j] = queue[t][j + 1]
      BY <1>8, <2>5
    <3> QED
      BY <2>1, <2>5, <3>1 DEF Inv, Apart, QueueApart
  <2> QED
    BY <2>2, <2>3, <2>4, <2>5
<1> HIDE DEF b
<1>11. CurApart'
  <2>1. \A u \in Utask : cur[u] # NULL /\ b \in Buf => cur[u].data # b
    BY <1>6 DEF Inv, Apart, PlacesApart, InCur
  <2>2. \A u \in Utask \ {t} : cur'[u] = cur[u]
    BY <1>4
  <2> QED
    BY <2>1, <1>4, <1>6 DEF Inv, Apart, CurApart, b
<1>12. Apart'
  BY <1>1, <1>6, <1>7, <1>9, <1>10, <1>11, SameKept, SameCall
     DEF Inv, Apart, PlacesApart
<1>13. \A x \in Buf : AtService(x)' <=> AtService(x)
  BY <1>1, <1>6, <1>7, <1>9, SameKept DEF AtService
<1>14. Silent'
  BY <1>1, <1>4, <1>6, <1>9, SameCall DEF Inv, Silent, b
<1>15. Shared' /\ Underway' /\ NoNewStray
  BY <1>1, <1>13, SharedStill
<1> QED
  BY <1>5, <1>12, <1>14, <1>15 DEF Inv

LEMMA SignalTyped ==
    ASSUME TypeOK, NEW b \in Buf \cup {NULL}, b \in Buf => heap[b].sem = 0
    PROVE  /\ Signal(b) \in [Buf -> [kind : Kind \cup {"free"}, sem : {0, 1}, gc : BOOLEAN]]
           /\ \A x \in Buf \ {b} : Signal(b)[x] = heap[x]
           /\ \A x \in Buf : /\ Signal(b)[x].kind = heap[x].kind
                             /\ Signal(b)[x].gc = heap[x].gc
<1>1. CASE HasSem(b)
  <2>1. b \in Buf
    BY <1>1 DEF HasSem
  <2>2. Signal(b) = [heap EXCEPT ![b].sem = heap[b].sem + 1]
    BY <1>1 DEF Signal
  <2>3. heap[b].sem + 1 = 1
    BY <2>1
  <2>4. Signal(b) = [heap EXCEPT ![b].sem = 1]
    BY <2>2, <2>3
  <2> QED
    BY <2>1, <2>4 DEF TypeOK
<1>2. CASE ~HasSem(b)
  BY <1>2 DEF Signal, TypeOK
<1> QED
  BY <1>1, <1>2

(* What the task t handles, and where else it is not. *)
LEMMA InHand ==
    ASSUME Inv, NEW t \in Utask, Handling(t)
    PROVE  /\ cur[t] \in RequestType /\ cur[t].data \in Buf \cup {NULL}
           /\ NULL \notin Buf /\ NULL \notin RequestType
           /\ \A u \in Utask \ {t} : cur[u] # NULL /\ cur[t].data \in Buf
                  => cur[u].data # cur[t].data
           /\ \A b \in Buf : b = cur[t].data =>
                  InCur(b) /\ ~InQueue(b) /\ ~InKept(b) /\ AtService(b)
<1>1. cur[t] \in RequestType /\ cur[t] # NULL
  BY DEF Inv, TypeOK, Handling
<1> QED
  BY <1>1, UServiceAssumption
     DEF Inv, Apart, CurApart, PlacesApart, InCur, AtService, RequestType

LEMMA ReplyInv ==
    ASSUME Inv, NEW t \in Utask, Reply(t)
    PROVE  Inv' /\ NoNewStray
<1> DEFINE b == cur[t].data
           e == IF b = NULL THEN NULL ELSE [cur[t] EXCEPT !.done = TRUE]
<1>1. /\ Handling(t) /\ ~cur[t].done /\ UNCHANGED <<queue, Left, call>>
      /\ heap' = Signal(b) /\ cur' = [cur EXCEPT ![t] = e]
  BY DEF Reply, Left
<1>2. /\ cur[t] \in RequestType /\ b \in Buf \cup {NULL} /\ NULL \notin Buf
      /\ NULL \notin RequestType
      /\ \A u \in Utask \ {t} : cur[u] # NULL /\ b \in Buf => cur[u].data # b
      /\ \A x \in Buf : x = b => InCur(x) /\ ~InQueue(x) /\ ~InKept(x) /\ AtService(x)
  BY <1>1, InHand
<1>3. b \in Buf => heap[b].sem = 0
  BY <1>1 DEF Inv, Silent, Handling
<1>4. /\ heap' \in [Buf -> [kind : Kind \cup {"free"}, sem : {0, 1}, gc : BOOLEAN]]
      /\ \A x \in Buf \ {b} : heap'[x] = heap[x]
      /\ \A x \in Buf : heap'[x].kind = heap[x].kind /\ heap'[x].gc = heap[x].gc
  BY <1>1, <1>2, <1>3, SignalTyped DEF Inv
<1>5. e \in RequestType \cup {NULL} /\ (b \in Buf => e # NULL /\ e.data = b /\ e.done)
      /\ (b \notin Buf => e = NULL)
  <2>1. CASE b = NULL
    BY <1>2, <2>1
  <2>2. CASE b # NULL
    BY <1>2, <2>2 DEF RequestType
  <2> QED
    BY <2>1, <2>2
<1> HIDE DEF e
<1>6. cur'[t] = e /\ \A u \in Utask \ {t} : cur'[u] = cur[u]
  BY <1>1 DEF Inv, TypeOK
<1>7. TypeOK'
  BY <1>1, <1>4, <1>5 DEF Inv, TypeOK
<1>8. \A x \in Buf : InCur(x)' <=> InCur(x)
  BY <1>1, <1>2, <1>5, <1>6 DEF InCur, Handling
<1> HIDE DEF b
<1>9. CurApart'
  BY <1>2, <1>5, <1>6 DEF Inv, Apart, CurApart
<1>10. Apart'
  BY <1>1, <1>8, <1>9, SameQueue, SameKept, SameCall DEF Inv, Apart, PlacesApart
<1>11. \A x \in Buf : AtService(x)' <=> AtService(x)
  BY <1>1, <1>8, SameQueue, SameKept DEF AtService
<1>12. Silent'
  <2>1. \A x \in Buf : InQueue(x)' => heap'[x].sem = 0
    BY <1>1, <1>2, <1>4, SameQueue DEF Inv, Silent
  <2>2. \A u \in Utask : cur'[u] # NULL /\ cur'[u].data \in Buf /\ ~cur'[u].done
           => heap'[cur'[u].data].sem = 0
    BY <1>2, <1>4, <1>5, <1>6 DEF Inv, Silent
  <2>3. \A r \in Left' : r.data \in Buf /\ ~r.done => heap'[r.data].sem = 0
    BY <1>1, <1>2, <1>4 DEF Inv, Silent, InKept
  <2>4. \A c \in Caller : Unsent(c)' /\ call'[c].data \in Buf => heap'[call'[c].data].sem = 0
    BY <1>1, <1>2, <1>4, SameCall DEF Inv, Silent, Shared
  <2> QED
    BY <2>1, <2>2, <2>3, <2>4 DEF Silent
<1>13. Shared' /\ Underway' /\ NoNewStray
  BY <1>1, <1>4, <1>11, SharedStill
<1> QED
  BY <1>7, <1>10, <1>12, <1>13 DEF Inv

(* t has nothing in hand any more. *)
LEMMA HandEmpty ==
    ASSUME Inv, NEW t \in Utask, Handling(t), cur' = [cur EXCEPT ![t] = NULL]
    PROVE  /\ cur' \in [Utask -> RequestType \cup {NULL}] /\ CurApart'
           /\ cur'[t] = NULL /\ \A u \in Utask \ {t} : cur'[u] = cur[u]
           /\ \A x \in Buf : InCur(x)' <=> InCur(x) /\ x # cur[t].data
<1>1. /\ cur' \in [Utask -> RequestType \cup {NULL}]
      /\ cur'[t] = NULL /\ \A u \in Utask \ {t} : cur'[u] = cur[u]
  BY DEF Inv, TypeOK
<1>2. CurApart'
  BY <1>1 DEF Inv, Apart, CurApart
<1>3. \A x \in Buf : InCur(x)' <=> InCur(x) /\ x # cur[t].data
  BY <1>1, InHand DEF InCur
<1> QED
  BY <1>1, <1>2, <1>3

LEMMA ReplyDeinitInv ==
    ASSUME Inv, NEW t \in Utask, ReplyDeinit(t)
    PROVE  Inv' /\ NoNewStray
<1> DEFINE b == cur[t].data
<1>1. /\ Handling(t) /\ UNCHANGED <<queue, Left, call>>
      /\ heap' = RpcDeinit(b) /\ cur' = [cur EXCEPT ![t] = NULL]
  BY DEF ReplyDeinit, Left
<1>2. /\ b \in Buf \cup {NULL} /\ NULL \notin Buf
      /\ \A x \in Buf : x = b => InCur(x) /\ ~InQueue(x) /\ ~InKept(x) /\ AtService(x)
  BY <1>1, InHand
<1>3. /\ heap' \in [Buf -> [kind : Kind \cup {"free"}, sem : {0, 1}, gc : BOOLEAN]]
      /\ \A x \in Buf : heap[x].sem = 0 => heap'[x].sem = 0
  BY <1>1, <1>2, DeinitTyped DEF Inv
<1>4. /\ cur' \in [Utask -> RequestType \cup {NULL}] /\ CurApart'
      /\ cur'[t] = NULL /\ \A u \in Utask \ {t} : cur'[u] = cur[u]
      /\ \A x \in Buf : InCur(x)' <=> InCur(x) /\ x # b
  BY <1>1, HandEmpty
<1> HIDE DEF b
<1>5. TypeOK'
  BY <1>1, <1>3, <1>4 DEF Inv, TypeOK
<1>6. Apart'
  BY <1>1, <1>4, SameQueue, SameKept, SameCall DEF Inv, Apart, PlacesApart
<1>7. Silent'
  BY <1>1, <1>3, <1>4, SameQueue, SameCall DEF Inv, Silent
<1>8. \A x \in Buf : AtService(x)' <=> AtService(x) /\ x # b
  BY <1>1, <1>2, <1>4, SameQueue, SameKept DEF AtService
<1>9. Shared' /\ Underway' /\ NoNewStray
  BY <1>1, <1>2, <1>8, SharedGivenUp
<1> QED
  BY <1>5, <1>6, <1>7, <1>9 DEF Inv

LEMMA KeepInv ==
    ASSUME Inv, NEW t \in Utask, Keep(t) \/ Drop(t)
    PROVE  Inv' /\ NoNewStray
<1> DEFINE b == cur[t].data
<1>1. /\ Handling(t) /\ ~cur[t].done /\ UNCHANGED <<heap, queue, call>>
      /\ Left' = IF b = NULL THEN Left ELSE Left \cup {cur[t]}
      /\ cur' = [cur EXCEPT ![t] = NULL]
  BY DEF Keep, Drop, Left
<1>2. /\ cur[t] \in RequestType /\ b \in Buf \cup {NULL} /\ NULL \notin Buf
      /\ \A x \in Buf : x = b => InCur(x) /\ ~InQueue(x) /\ ~InKept(x) /\ AtService(x)
  BY <1>1, InHand
<1>3. /\ cur' \in [Utask -> RequestType \cup {NULL}] /\ CurApart'
      /\ cur'[t] = NULL /\ \A u \in Utask \ {t} : cur'[u] = cur[u]
      /\ \A x \in Buf : InCur(x)' <=> InCur(x) /\ x # b
  BY <1>1, HandEmpty
<1>4. Left' \subseteq RequestType /\ Left' \subseteq Left \cup {cur[t]}
      /\ Left \subseteq Left' /\ (b \in Buf => cur[t] \in Left')
  BY <1>1, <1>2 DEF Inv, TypeOK
<1>5. \A x \in Buf : InKept(x)' <=> InKept(x) \/ x = b
  BY <1>1, <1>2, <1>4 DEF InKept
<1>6. KeptApart'
  BY <1>1, <1>2, <1>4 DEF Inv, Apart, KeptApart, InKept
<1>7. TypeOK'
  BY <1>1, <1>3, <1>4 DEF Inv, TypeOK
<1>8. Silent'
  <2>1. \A r \in Left' : r.data \in Buf /\ ~r.done => heap'[r.data].sem = 0
    BY <1>1, <1>4 DEF Inv, Silent, Handling
  <2> QED
    BY <2>1, <1>1, <1>3, SameQueue, SameCall DEF Inv, Silent
<1> HIDE DEF b
<1>9. Apart'
  BY <1>1, <1>2, <1>3, <1>5, <1>6, SameQueue, SameCall DEF Inv, Apart, PlacesApart
<1>10. \A x \in Buf : AtService(x)' <=> AtService(x)
  BY <1>1, <1>2, <1>3, <1>5, SameQueue DEF AtService
<1>11. Shared' /\ Underway' /\ NoNewStray
  BY <1>1, <1>10, SharedStill
<1> QED
  BY <1>7, <1>8, <1>9, <1>11 DEF Inv

LEMMA KeptReplyInv ==
    ASSUME Inv, OnceLeft, NEW r \in kept, KeptReply(r)
    PROVE  Inv' /\ NoNewStray
<1> r \in Left
  BY DEF Left
<1> DEFINE b == r.data
           d == [r EXCEPT !.done = TRUE]
<1>1. /\ ~r.done /\ UNCHANGED <<queue, cur, call>>
      /\ heap' = Signal(b) /\ Left' = (Left \ {r}) \cup {d}
  BY DEF KeptReply, OnceLeft, Left
<1>2. /\ r \in RequestType /\ b \in Buf \cup {NULL} /\ NULL \notin Buf
      /\ d \in RequestType /\ d.data = b /\ d.done
  BY UServiceAssumption DEF Inv, TypeOK, RequestType
<1>3. b \in Buf => /\ heap[b].sem = 0 /\ InKept(b) /\ ~InQueue(b) /\ ~InCur(b)
                   /\ AtService(b)
  BY <1>1 DEF Inv, Silent, Apart, PlacesApart, InKept, AtService
<1>4. /\ heap' \in [Buf -> [kind : Kind \cup {"free"}, sem : {0, 1}, gc : BOOLEAN]]
      /\ \A x \in Buf \ {b} : heap'[x] = heap[x]
      /\ \A x \in Buf : heap'[x].kind = heap[x].kind /\ heap'[x].gc = heap[x].gc
  BY <1>1, <1>2, <1>3, SignalTyped DEF Inv
<1>5. \A s \in Left \ {r} : b \in Buf => s.data # b
  BY DEF Inv, Apart, KeptApart
<1> HIDE DEF d
<1>6. TypeOK'
  BY <1>1, <1>2, <1>4 DEF Inv, TypeOK
<1>7. \A x \in Buf : InKept(x)' <=> InKept(x)
  BY <1>1, <1>2 DEF InKept
<1>8. KeptApart'
  BY <1>1, <1>2, <1>5 DEF Inv, Apart, KeptApart
<1>9. Apart'
  BY <1>1, <1>7, <1>8, SameQueue, SameCur, SameCall DEF Inv, Apart, PlacesApart
<1>10. \A x \in Buf : AtService(x)' <=> AtService(x)
  BY <1>1, <1>7, SameQueue, SameCur DEF AtService
<1> HIDE DEF b
<1>11. Silent'
  <2>1. \A x \in Buf : InQueue(x)' => heap'[x].sem = 0
    BY <1>1, <1>3, <1>4, SameQueue DEF Inv, Silent
  <2>2. \A u \in Utask : cur'[u] # NULL /\ cur'[u].data \in Buf /\ ~cur'[u].done
           => heap'[cur'[u].data].sem = 0
    BY <1>1, <1>3, <1>4 DEF Inv, Silent, InCur
  <2>3. \A s \in Left' : s.data \in Buf /\ ~s.done => heap'[s.data].sem = 0
    BY <1>1, <1>2, <1>4, <1>5 DEF Inv, Silent
  <2>4. \A c \in Caller : Unsent(c)' /\ call'[c].data \in Buf => heap'[call'[c].data].sem = 0
    BY <1>1, <1>3, <1>4, SameCall DEF Inv, Silent, Shared
  <2> QED
    BY <2>1, <2>2, <2>3, <2>4 DEF Silent
<1>12. Shared' /\ Underway' /\ NoNewStray
  BY <1>1, <1>4, <1>10, SharedStill
<1> QED
  BY <1>6, <1>9, <1>11, <1>12 DEF Inv

LEMMA KeptDeinitInv ==
    ASSUME Inv, OnceLeft, NEW r \in kept, KeptDeinit(r)
    PROVE  Inv' /\ NoNewStray
<1> r \in Left
  BY DEF Left
<1> DEFINE b == r.data
<1>1. /\ UNCHANGED <<queue, cur, call>>
      /\ heap' = RpcDeinit(b) /\ Left' = Left \ {r}
  BY DEF KeptDeinit, OnceLeft, Left
<1>2. r \in RequestType /\ b \in Buf \cup {NULL} /\ NULL \notin Buf
  BY UServiceAssumption DEF Inv, TypeOK, RequestType
<1>3. b \in Buf => InKept(b) /\ ~InQueue(b) /\ ~InCur(b) /\ AtService(b)
  BY DEF Inv, Apart, PlacesApart, InKept, AtService
<1>4. /\ heap' \in [Buf -> [kind : Kind \cup {"free"}, sem : {0, 1}, gc : BOOLEAN]]
      /\ \A x \in Buf : heap[x].sem = 0 => heap'[x].sem = 0
  BY <1>1, <1>2, DeinitTyped DEF Inv
<1>5. \A x \in Buf : InKept(x)' <=> InKept(x) /\ x # b
  BY <1>1 DEF InKept, Inv, Apart, KeptApart
<1>6. TypeOK'
  BY <1>1, <1>4 DEF Inv, TypeOK
<1>7. KeptApart'
  BY <1>1 DEF Inv, Apart, KeptApart
<1> HIDE DEF b
<1>8. Apart'
  BY <1>1, <1>5, <1>7, SameQueue, SameCur, SameCall DEF Inv, Apart, PlacesApart
<1>9. Silent'
  BY <1>1, <1>4, SameQueue, SameCall DEF Inv, Silent
<1>10. \A x \in Buf : AtService(x)' <=> AtService(x) /\ x # b
  BY <1>1, <1>3, <1>5, SameQueue, SameCur DEF AtService
<1>11. Shared' /\ Underway' /\ NoNewStray
  BY <1>1, <1>2, <1>3, <1>10, SharedGivenUp
<1> QED
  BY <1>6, <1>8, <1>9, <1>11 DEF Inv

-----------------------------------------------------------------------------
(* A step that moves no buffer. *)
LEMMA NothingMoves ==
    ASSUME Inv, UNCHANGED <<heap, queue, cur, Left, call>>
    PROVE  Inv' /\ NoNewStray
<1>1. \A x : AtService(x)' <=> AtService(x)
  BY SameQueue, SameCur, SameKept DEF AtService
<1>2. Apart'
  BY SameQueue, SameCur, SameKept, SameCall DEF Inv, Apart, PlacesApart
<1>3. Silent'
  BY SameQueue, SameCall DEF Inv, Silent
<1>4. TypeOK'
  BY DEF Inv, TypeOK
<1> QED
  BY <1>1, <1>2, <1>3, <1>4, SharedStill DEF Inv

LEMMA ForgetInv ==
    ASSUME Inv, NEW r \in kept, Forget(r)
    PROVE  Inv' /\ NoNewStray
<1>1. UNCHANGED <<heap, queue, cur, Left, call>>
  BY DEF Forget, Left
<1> QED
  BY <1>1, NothingMoves

LEMMA NextOnceLeft ==
    ASSUME Inv, OnceLeft, [Next]_vars
    PROVE  OnceLeft'
<1>1. CASE UNCHANGED <<kept, dropped>>
  BY <1>1 DEF OnceLeft
<1>2. ASSUME NEW t \in Utask, Keep(t) \/ Drop(t)
      PROVE  OnceLeft'
  <2>1. cur[t] # NULL /\ ~cur[t].done /\ cur[t].data \in Buf \cup {NULL}
    BY <1>2 DEF Keep, Drop, Handling, Inv, TypeOK, RequestType
  <2>2. cur[t].data # NULL => cur[t] \notin Left
    BY <2>1 DEF Inv, Apart, PlacesApart, InCur, InKept
  <2> QED
    BY <1>2, <2>1, <2>2 DEF Keep, Drop, OnceLeft, Left
<1>3. ASSUME NEW r \in kept, KeptReply(r)
      PROVE  OnceLeft'
  <2>1. [r EXCEPT !.done = TRUE].done
    BY DEF Inv, TypeOK, Left, RequestType
  <2> QED
    BY <1>3, <2>1 DEF KeptReply, OnceLeft
<1>4. ASSUME NEW r \in kept, KeptDeinit(r) \/ Forget(r)
      PROVE  OnceLeft'
  BY <1>4 DEF KeptDeinit, Forget, OnceLeft
<1>5. ASSUME NEW c \in Caller, NEW t \in Utask, NEW k \in Kind,
             Begin(c, t, k) \/ BeginNoMem(c, t, k)
      PROVE  UNCHANGED <<kept, dropped>>
  BY <1>5 DEF Begin, BeginNoMem
<1>6. ASSUME NEW c \in Caller, CallStep(c)
      PROVE  UNCHANGED <<kept, dropped>>
  BY <1>6 DEF CallStep, Send, SendFull, Answered, TimedOut, Return
<1>7. ASSUME NEW t \in Utask, Recv(t) \/ Reply(t) \/ ReplyDeinit(t)
      PROVE  UNCHANGED <<kept, dropped>>
  BY <1>7 DEF Recv, Reply, ReplyDeinit
<1> QED
  BY <1>1, <1>2, <1>3, <1>4, <1>5, <1>6, <1>7 DEF Next, vars

LEMMA NextInv ==
    ASSUME Inv, OnceLeft, [Next]_vars
    PROVE  /\ Inv'
           /\ \A x \in Buf : Stray(x)' => Stray(x) \/
                 \E c \in Caller : /\ call[c].pc = "deinit" /\ call[c].ret = "refused"
                                   /\ call[c].data = x
<1>1. CASE UNCHANGED vars
  <2>1. UNCHANGED <<heap, queue, cur, Left, call>>
    BY <1>1 DEF vars, Left
  <2> QED
    BY <2>1, NothingMoves DEF NoNewStray
<1>2. ASSUME NEW c \in Caller, NEW t \in Utask, NEW k \in Kind,
             Begin(c, t, k) \/ BeginNoMem(c, t, k)
      PROVE  Inv' /\ NoNewStray
  BY <1>2, BeginInv, BeginNoMemInv
<1>3. ASSUME NEW c \in Caller, Send(c) \/ SendFull(c) \/ Answered(c) \/ TimedOut(c)
      PROVE  Inv' /\ NoNewStray
  BY <1>3, SendInv, SendFullInv, AnsweredInv, TimedOutInv
<1>4. ASSUME NEW c \in Caller, Return(c)
      PROVE  /\ Inv' /\ call[c].pc = "deinit"
             /\ \A x \in Buf : Stray(x)' =>
                   Stray(x) \/ (call[c].ret = "refused" /\ x = call[c].data)
  BY <1>4, ReturnInv DEF Return, Left
<1>5. ASSUME NEW t \in Utask, Recv(t) \/ Reply(t) \/ ReplyDeinit(t) \/ Keep(t) \/ Drop(t)
      PROVE  Inv' /\ NoNewStray
  BY <1>5, RecvInv, ReplyInv, ReplyDeinitInv, KeepInv
<1>6. ASSUME NEW r \in kept, KeptReply(r) \/ KeptDeinit(r) \/ Forget(r)
      PROVE  Inv' /\ NoNewStray
  BY <1>6, KeptReplyInv, KeptDeinitInv, ForgetInv
<1>7. CASE \E c \in Caller : Return(c)
  BY <1>4, <1>7
<1>8. CASE Next /\ ~\E c \in Caller : Return(c)
  <2>1. Inv' /\ NoNewStray
    BY <1>2, <1>3, <1>5, <1>6, <1>8 DEF Next, CallStep
  <2> QED
    BY <2>1 DEF NoNewStray
<1> QED
  BY <1>1, <1>7, <1>8

(* In every reachable state the places a buffer can be in are apart. *)
LEMMA InvAlways == Spec => [](Inv /\ OnceLeft)
<1>1. Init => OnceLeft
  BY DEF Init, OnceLeft
<1>2. Inv /\ OnceLeft /\ [Next]_vars => Inv' /\ OnceLeft'
  BY NextInv, NextOnceLeft
<1> QED
  BY InitInv, <1>1, <1>2, PTL DEF Spec

(* A request that is kept, and not forgotten, may still be answered. *)
WithKeeper(b) == \E r \in kept : r.data = b

LEMMA HeldPlaces ==
    TypeOK => \A b \in Buf : b \in Held <=> AtCaller(b) \/ InQueue(b) \/ InCur(b) \/ WithKeeper(b)
<1> SUFFICES ASSUME TypeOK, NEW b \in Buf
             PROVE  b \in Held <=> AtCaller(b) \/ InQueue(b) \/ InCur(b) \/ WithKeeper(b)
  OBVIOUS
<1>1. b # NULL
  BY UServiceAssumption
<1>2. b \in CallerHolds <=> AtCaller(b)
  BY DEF CallerHolds, AtCaller
<1>3. b \in UNION {{r.data : r \in Range(queue[t])} : t \in Utask} <=> InQueue(b)
  <2>1. \A t \in Utask : DOMAIN queue[t] = 1..Len(queue[t])
    BY DEF TypeOK
  <2> QED
    BY <2>1 DEF InQueue, Range
<1>4. b \in {cur[t].data : t \in {u \in Utask : Handling(u)}} <=> InCur(b)
  BY DEF InCur, Handling
<1>5. b \in {r.data : r \in kept} <=> WithKeeper(b)
  BY DEF WithKeeper
<1> QED
  BY <1>1, <1>2, <1>3, <1>4, <1>5 DEF Held, ServiceHolds

(* Every variable keeps its type, for any number of tasks, buffers and     *)
(* tries: a queue never holds more than queue_count requests, and no       *)
(* semaphore is given twice. *)
THEOREM TypeCorrect == Spec => []TypeOK
  BY InvAlways, PTL DEF Inv

(* No buffer is used after rpc_deinit has freed it. *)
THEOREM BuffersLive == Spec => []HeldIsLive
<1>1. Inv => HeldIsLive
  <2> SUFFICES ASSUME Inv, NEW b \in Held PROVE heap[b].kind # "free"
    BY DEF HeldIsLive
  <2>1. b \in Buf
    <3>1. b # NULL
      BY DEF Held
    <3>2. CASE b \in CallerHolds
      BY <3>1, <3>2 DEF CallerHolds, Inv, TypeOK, CallType
    <3>3. CASE b \in ServiceHolds
      <4>1. \A r \in RequestType : r.data \in Buf \cup {NULL}
        BY DEF RequestType
      <4>2. \A t \in Utask : \A r \in Range(queue[t]) : r \in RequestType
        BY DEF Inv, TypeOK, Range
      <4>3. \A t \in Utask : Handling(t) => cur[t] \in RequestType
        BY DEF Inv, TypeOK, Handling
      <4>4. \A r \in kept : r \in RequestType
        BY DEF Inv, TypeOK, Left
      <4>5. CASE b \in UNION {{r.data : r \in Range(queue[t])} : t \in Utask}
        BY <3>1, <4>1, <4>2, <4>5
      <4>6. CASE b \in {cur[t].data : t \in {u \in Utask : Handling(u)}}
        BY <3>1, <4>1, <4>3, <4>6
      <4>7. CASE b \in {r.data : r \in kept}
        BY <3>1, <4>1, <4>4, <4>7
      <4> QED
        BY <3>3, <4>5, <4>6, <4>7 DEF ServiceHolds
    <3> QED
      BY <3>2, <3>3 DEF Held
  <2> QED
    BY <2>1, HeldPlaces DEF Inv, Shared, AtService, InKept, WithKeeper, Left
<1> QED
  BY <1>1, InvAlways, PTL

(* A buffer is lost only when its request was refused, or was left         *)
(* unanswered by the service and is kept by nobody.                        *)
THEOREM OnlyUnansweredLost == Spec => LostOnlyUnanswered
<1>1. (TypeOK => \A b \in Buf : b \in Held <=> AtCaller(b) \/ InQueue(b) \/ InCur(b) \/ WithKeeper(b))'
  BY HeldPlaces, PTL
<1>2. Inv /\ OnceLeft /\ [Next]_vars => [\A b \in Lost' \ Lost : Refused(b) \/ Ignored(b)']_vars
  <2> SUFFICES ASSUME Inv, OnceLeft, [Next]_vars
      PROVE  [\A b \in Lost' \ Lost : Refused(b) \/ Ignored(b)']_vars
    OBVIOUS
  <2>1. \A b \in Buf : Stray(b) => b \in Lost
    BY HeldPlaces DEF Inv, Lost, Stray, AtService, InKept, WithKeeper, Left
  <2>2. Inv'
    BY NextInv
  <2>3. \A b \in Lost' : b \in Buf /\ (Stray(b)' \/ Ignored(b)')
    BY <1>1, <2>2 DEF Inv, Lost, Stray, AtService, InKept, WithKeeper, Left, Ignored
  <2> QED
    BY <2>1, <2>3, NextInv DEF Refused
<1> QED
  BY <1>2, InvAlways, PTL DEF Spec, LostOnlyUnanswered
-----------------------------------------------------------------------------
(***************************************************************************)
(* The refinement.  What CallSpec calls loose is counted at three places,  *)
(* which Few, finitely many service tasks, keeps finite.                   *)
(***************************************************************************)
InLine(c) == {p \in Utask \X (1..Depth) :
                p[2] \in DOMAIN queue[p[1]] /\ Loose(c, queue[p[1]][p[2]])}
AtHand(c) == {t \in Utask : Handling(t) /\ Loose(c, cur[t])}
Laid(c)   == {r \in Left : Loose(c, r)}

(* Nothing is answered in the queue; who waits, waits for a semaphore,     *)
(* and, while it is not given, for a request that is still to be answered; *)
(* the result is known when the call ends.                                 *)
Fresh == \A t \in Utask : \A i \in 1..Len(queue[t]) : ~queue[t][i].done
Told  == \A c \in Caller : call[c].ret = "none" <=> call[c].pc # "deinit"
Attended(c) ==
    Waiting(c) => /\ HasSem(call[c].data)
                  /\ heap[call[c].data].sem = 0 => ~CarriedOut(c)
RefInv == Inv /\ Fresh /\ Told /\ (\A c \in Caller : Attended(c)) /\ IsFiniteSet(Left)

Few == IsFiniteSet(Utask)

LEMMA Counting ==
    Few /\ TypeOK /\ IsFiniteSet(Left) =>
        \A c \in Caller :
            /\ IsFiniteSet(InLine(c)) /\ Cardinality(InLine(c)) \in Nat
            /\ IsFiniteSet(AtHand(c)) /\ Cardinality(AtHand(c)) \in Nat
            /\ IsFiniteSet(Laid(c)) /\ Cardinality(Laid(c)) \in Nat
            /\ LooseCount(c) = Cardinality(InLine(c)) + Cardinality(AtHand(c)) + Cardinality(Laid(c))
<1> SUFFICES ASSUME Few, TypeOK, IsFiniteSet(Left), NEW c \in Caller
             PROVE  /\ IsFiniteSet(InLine(c)) /\ Cardinality(InLine(c)) \in Nat
                    /\ IsFiniteSet(AtHand(c)) /\ Cardinality(AtHand(c)) \in Nat
                    /\ IsFiniteSet(Laid(c)) /\ Cardinality(Laid(c)) \in Nat
                    /\ LooseCount(c) = Cardinality(InLine(c)) + Cardinality(AtHand(c)) + Cardinality(Laid(c))
  OBVIOUS
<1>1. IsFiniteSet(InLine(c))
  <2>1. Depth \in Int /\ 1 \in Int
    BY UServiceAssumption
  <2>2. IsFiniteSet(1..Depth)
    BY <2>1, FS_Interval
  <2>3. IsFiniteSet(Utask \X (1..Depth))
    BY <2>2, FS_Product DEF Few
  <2>4. InLine(c) \in SUBSET (Utask \X (1..Depth))
    BY DEF InLine
  <2> QED
    BY <2>3, <2>4, FS_Subset
<1>2. IsFiniteSet(AtHand(c))
  <2>1. AtHand(c) \in SUBSET Utask
    BY DEF AtHand
  <2> QED
    BY <2>1, FS_Subset DEF Few
<1>3. IsFiniteSet(Laid(c))
  <2>1. Laid(c) \in SUBSET Left
    BY DEF Laid
  <2> QED
    BY <2>1, FS_Subset
<1>4. LooseCount(c) = Cardinality(InLine(c)) + Cardinality(AtHand(c)) + Cardinality(Laid(c))
  BY DEF LooseCount, InLine, AtHand, Laid
<1> QED
  BY <1>1, <1>2, <1>3, <1>4, FS_CardinalityType

LEMMA CountingNext ==
    (Few /\ TypeOK /\ IsFiniteSet(Left) =>
        \A c \in Caller :
            /\ IsFiniteSet(InLine(c)) /\ Cardinality(InLine(c)) \in Nat
            /\ IsFiniteSet(AtHand(c)) /\ Cardinality(AtHand(c)) \in Nat
            /\ IsFiniteSet(Laid(c)) /\ Cardinality(Laid(c)) \in Nat
            /\ LooseCount(c) = Cardinality(InLine(c)) + Cardinality(AtHand(c)) + Cardinality(Laid(c)))'
  BY Counting, PTL

(* What a step looks like to CallSpec: nothing changes for a caller, or    *)
(* one of its actions is taken.                                            *)
Same(c) == Mine(c)' = Mine(c) /\ LooseCount(c)' = LooseCount(c) /\ call'[c].ret = call[c].ret

Goes(c, from, to) ==
    /\ Mine(c) = from /\ Mine(c)' = to
    /\ LooseCount(c)' = LooseCount(c) /\ call'[c].ret = call[c].ret
Ends(c, r, l) ==
    /\ call[c].ret = "none" /\ call'[c].ret = r /\ Mine(c)' = "none"
    /\ LooseCount(c)' = LooseCount(c) + l
LoosesOne(c) ==
    /\ LooseCount(c) > 0 /\ LooseCount(c)' = LooseCount(c) - 1
    /\ Mine(c)' = Mine(c) /\ call'[c].ret = call[c].ret
Change(c) ==
    \/ Same(c)
    \/ Goes(c, "none", "asked") /\ call[c].ret = "none"
    \/ Goes(c, "asked", "waiting")
    \/ Goes(c, "waiting", "carried out")
    \/ LoosesOne(c)
    \/ Mine(c) = "asked" /\ Ends(c, "ok", 1)
    \/ Mine(c) = "carried out" /\ Ends(c, "ok", 0)
    \/ Mine(c) = "waiting" /\ Ends(c, "timeout", 1)
    \/ Mine(c) \in {"none", "asked"} /\ Ends(c, "refused", 0)
    \/ /\ call[c].ret # "none" /\ call'[c].ret = "none"
       /\ Mine(c)' = Mine(c) /\ LooseCount(c)' = LooseCount(c)

Mapped == [Abstract!Next]_(Abstract!vars)

LEMMA Stutters == ASSUME \A d \in Caller : Same(d) PROVE Mapped
  BY DEF Mapped, Same, Abstract!vars

LEMMA Steps ==
    ASSUME NEW c \in Caller, \A d \in Caller \ {c} : Same(d), Change(c)
    PROVE  Mapped
<1> DEFINE m == [d \in Caller |-> Mine(d)]
           l == [d \in Caller |-> LooseCount(d)]
           r == [d \in Caller |-> call[d].ret]
<1>1. /\ m[c] = Mine(c) /\ l[c] = LooseCount(c) /\ r[c] = call[c].ret
      /\ m' = [m EXCEPT ![c] = Mine(c)'] /\ l' = [l EXCEPT ![c] = LooseCount(c)']
      /\ r' = [r EXCEPT ![c] = call'[c].ret]
  BY DEF Same
<1>2. /\ Mine(c)' = Mine(c) => m' = m
      /\ LooseCount(c)' = LooseCount(c) => l' = l
      /\ call'[c].ret = call[c].ret => r' = r
  BY DEF Same
<1>3. CASE Same(c)
  BY <1>3, Stutters
<1>4. CASE Goes(c, "none", "asked") /\ call[c].ret = "none"
  BY <1>1, <1>2, <1>4 DEF Mapped, Goes, Abstract!Next, Abstract!Ask
<1>5. CASE Goes(c, "asked", "waiting")
  BY <1>1, <1>2, <1>5 DEF Mapped, Goes, Abstract!Next, Abstract!Accept
<1>6. CASE Goes(c, "waiting", "carried out")
  BY <1>1, <1>2, <1>6 DEF Mapped, Goes, Abstract!Next, Abstract!CarryOut
<1>7. CASE LoosesOne(c)
  BY <1>1, <1>2, <1>7 DEF Mapped, LoosesOne, Abstract!Next, Abstract!CarryOutLoose
<1>8. CASE Mine(c) = "asked" /\ Ends(c, "ok", 1)
  BY <1>1, <1>2, <1>8 DEF Mapped, Ends, Abstract!Next, Abstract!Post, Abstract!End
<1>9. CASE Mine(c) = "carried out" /\ Ends(c, "ok", 0)
  BY <1>1, <1>2, <1>9 DEF Mapped, Ends, Abstract!Next, Abstract!Succeed, Abstract!End
<1>10. CASE Mine(c) = "waiting" /\ Ends(c, "timeout", 1)
  BY <1>1, <1>2, <1>10 DEF Mapped, Ends, Abstract!Next, Abstract!GiveUp, Abstract!End
<1>11. CASE Mine(c) \in {"none", "asked"} /\ Ends(c, "refused", 0)
  BY <1>1, <1>2, <1>11 DEF Mapped, Ends, Abstract!Next, Abstract!Refuse, Abstract!End
<1>12. CASE /\ call[c].ret # "none" /\ call'[c].ret = "none"
            /\ Mine(c)' = Mine(c) /\ LooseCount(c)' = LooseCount(c)
  BY <1>1, <1>2, <1>12 DEF Mapped, Abstract!Next, Abstract!Return
<1> QED
  BY <1>3, <1>4, <1>5, <1>6, <1>7, <1>8, <1>9, <1>10, <1>11, <1>12 DEF Change

(* A caller is only concerned by its own call and the places. *)
LEMMA OwnSame ==
    ASSUME NEW d \in Caller, Waiting(d)' <=> Waiting(d),
           Waiting(d) => call'[d].data = call[d].data
    PROVE  \A r : (Own(d, r)' <=> Own(d, r)) /\ (Loose(d, r)' <=> Loose(d, r))
  BY DEF Own, Loose

LEMMA Quiet ==
    ASSUME NEW d \in Caller, UNCHANGED <<queue, cur, Left>>,
           Waiting(d)' <=> Waiting(d), Waiting(d) => call'[d].data = call[d].data
    PROVE  LooseCount(d)' = LooseCount(d) /\ (CarriedOut(d)' <=> CarriedOut(d))
<1>1. \A r : (Own(d, r)' <=> Own(d, r)) /\ (Loose(d, r)' <=> Loose(d, r))
  BY OwnSame
<1>2. InLine(d)' = InLine(d) /\ AtHand(d)' = AtHand(d) /\ Laid(d)' = Laid(d)
  BY <1>1 DEF InLine, AtHand, Laid, Handling
<1>3. LooseCount(d)' = LooseCount(d)
  BY <1>2 DEF LooseCount, InLine, AtHand, Laid
<1>4. CarriedOut(d)' <=> CarriedOut(d)
  BY <1>1 DEF CarriedOut, Handling
<1> QED
  BY <1>3, <1>4

LEMMA AttendedStill ==
    ASSUME NEW d \in Caller, UNCHANGED <<queue, cur, Left>>,
           Waiting(d)' <=> Waiting(d), Waiting(d) => call'[d].data = call[d].data,
           Waiting(d) => heap'[call[d].data] = heap[call[d].data],
           Attended(d)
    PROVE  Attended(d)'
<1>1. CarriedOut(d)' <=> CarriedOut(d)
  BY Quiet
<1> QED
  BY <1>1 DEF Attended, HasSem

(* A step of the call of c that leaves the places as they are. *)
LEMMA CallerStep ==
    ASSUME RefInv, Inv', NEW c \in Caller, UNCHANGED <<queue, cur, Left>>,
           \A d \in Caller \ {c} : call'[d] = call[d],
           \A d \in Caller \ {c} : Waiting(d) => heap'[call[d].data] = heap[call[d].data],
           ~Waiting(c)', call'[c].ret = "none" <=> call'[c].pc # "deinit"
    PROVE  RefInv' /\ \A d \in Caller \ {c} : Same(d)
<1>1. \A d \in Caller \ {c} : (Waiting(d)' <=> Waiting(d)) /\ call'[d].data = call[d].data
  BY DEF Waiting
<1>2. ASSUME NEW d \in Caller \ {c} PROVE Attended(d)' /\ Same(d)
  <2>1. LooseCount(d)' = LooseCount(d) /\ (CarriedOut(d)' <=> CarriedOut(d))
    BY <1>1, Quiet
  <2>2. Attended(d)'
    BY <1>1, AttendedStill DEF RefInv
  <2>3. Same(d)
    BY <2>1 DEF Same, Mine
  <2> QED
    BY <2>2, <2>3
<1>3. Attended(c)'
  BY DEF Attended
<1>4. Fresh' /\ IsFiniteSet(Left')
  BY DEF RefInv, Fresh
<1>5. Told'
  BY DEF RefInv, Told
<1> QED
  BY <1>2, <1>3, <1>4, <1>5 DEF RefInv

LEMMA LooseNat ==
    ASSUME Few, RefInv, NEW c \in Caller
    PROVE  LooseCount(c) \in Nat /\ LooseCount(c) + 0 = LooseCount(c)
<1>1. LooseCount(c) = Cardinality(InLine(c)) + Cardinality(AtHand(c)) + Cardinality(Laid(c))
      /\ Cardinality(InLine(c)) \in Nat /\ Cardinality(AtHand(c)) \in Nat
      /\ Cardinality(Laid(c)) \in Nat
  BY Counting DEF RefInv, Inv
<1> QED
  BY <1>1

LEMMA BeginMapped ==
    ASSUME Few, RefInv, NEW c \in Caller, NEW t \in Utask, NEW k \in Kind, Begin(c, t, k)
    PROVE  RefInv' /\ Mapped
<1> DEFINE b == IF k = "bare" THEN NULL ELSE CHOOSE x \in FreeBuf : TRUE
           own == OwnTask(c, t, k)
<1>1. /\ call[c].pc = "idle" /\ UNCHANGED <<queue, cur, Left>>
      /\ heap' = IF b = NULL THEN heap ELSE [heap EXCEPT ![b] = NewBuf(k)]
      /\ call' = [call EXCEPT ![c] =
                [pc    |-> IF own THEN "deinit" ELSE "send",
                 to    |-> t,
                 data  |-> b,
                 tries |-> IF own THEN 0 ELSE Tries,
                 ret   |-> IF own THEN "refused" ELSE "none"]]
  BY DEF Begin, Left
<1>2. b = NULL \/ b \in FreeBuf
  BY DEF Begin, Left
<1> HIDE DEF b, own
<1>3. /\ \A d \in Caller \ {c} : call'[d] = call[d]
      /\ call'[c].pc = IF own THEN "deinit" ELSE "send"
      /\ call'[c].ret = IF own THEN "refused" ELSE "none"
  BY <1>1 DEF RefInv, Inv, TypeOK
<1>4. \A d \in Caller : Waiting(d) => heap'[call[d].data] = heap[call[d].data]
  <2> SUFFICES ASSUME NEW d \in Caller, Waiting(d)
               PROVE  heap'[call[d].data] = heap[call[d].data]
    OBVIOUS
  <2>1. call[d].data \in Buf
    BY DEF RefInv, Inv, Underway, Waiting
  <2>2. heap[call[d].data].kind # "free"
    BY <2>1 DEF RefInv, Inv, Shared, AtCaller, Waiting
  <2>3. call[d].data # b
    BY <1>2, <2>1, <2>2, UServiceAssumption DEF FreeBuf
  <2> QED
    BY <1>1, <2>1, <2>3 DEF RefInv, Inv, TypeOK
<1>5. Inv'
  BY BeginInv DEF RefInv
<1>6. ~Waiting(c)' /\ ~Waiting(c)
  BY <1>1, <1>3 DEF Waiting
<1>7. RefInv' /\ \A d \in Caller \ {c} : Same(d)
  BY <1>1, <1>3, <1>4, <1>5, <1>6, CallerStep
<1>8. LooseCount(c)' = LooseCount(c)
  BY <1>1, <1>6, Quiet
<1>9. call[c].ret = "none" /\ Mine(c) = "none" /\ LooseCount(c) + 0 = LooseCount(c)
  BY <1>1, LooseNat DEF RefInv, Told, Mine
<1>10. CASE own
  <2>1. Ends(c, "refused", 0) /\ Mine(c) = "none"
    BY <1>3, <1>8, <1>9, <1>10 DEF Ends, Mine
  <2> QED
    BY <1>7, <2>1, Steps DEF Change
<1>11. CASE ~own
  <2>1. Goes(c, "none", "asked")
    BY <1>3, <1>8, <1>9, <1>11 DEF Goes, Mine
  <2> QED
    BY <1>7, <1>9, <2>1, Steps DEF Change
<1> QED
  BY <1>10, <1>11, <1>7

LEMMA BeginNoMemMapped ==
    ASSUME Few, RefInv, NEW c \in Caller, NEW t \in Utask, NEW k \in Kind, BeginNoMem(c, t, k)
    PROVE  RefInv' /\ Mapped
<1>1. /\ call[c].pc = "idle" /\ UNCHANGED <<heap, queue, cur, Left>>
      /\ call' = [call EXCEPT ![c] = [NoCall EXCEPT !.pc = "deinit", !.ret = "refused"]]
  BY DEF BeginNoMem, Left
<1>2. /\ \A d \in Caller \ {c} : call'[d] = call[d]
      /\ call'[c].pc = "deinit" /\ call'[c].ret = "refused"
  BY <1>1 DEF RefInv, Inv, TypeOK, NoCall
<1>3. Inv'
  BY BeginNoMemInv DEF RefInv
<1>4. ~Waiting(c)' /\ ~Waiting(c)
  BY <1>1, <1>2 DEF Waiting
<1>5. RefInv' /\ \A d \in Caller \ {c} : Same(d)
  BY <1>1, <1>2, <1>3, <1>4, CallerStep
<1>6. LooseCount(c)' = LooseCount(c)
  BY <1>1, <1>4, Quiet
<1>7. call[c].ret = "none" /\ Mine(c) = "none" /\ LooseCount(c) + 0 = LooseCount(c)
  BY <1>1, LooseNat DEF RefInv, Told, Mine
<1>8. Ends(c, "refused", 0)
  BY <1>2, <1>6, <1>7 DEF Ends, Mine
<1> QED
  BY <1>5, <1>7, <1>8, Steps DEF Change

LEMMA SendFullMapped ==
    ASSUME Few, RefInv, NEW c \in Caller, SendFull(c)
    PROVE  RefInv' /\ Mapped
<1>1. /\ call[c].pc = "send" /\ UNCHANGED <<heap, queue, cur, Left>>
      /\ \A d \in Caller \ {c} : call'[d] = call[d]
      /\ \/ call'[c].pc = "send" /\ call'[c].ret = call[c].ret
         \/ call'[c].pc = "deinit" /\ call'[c].ret = "refused"
  BY DEF SendFull, Left, RefInv, Inv, TypeOK, CallType
<1>2. Inv'
  BY SendFullInv DEF RefInv
<1>3. ~Waiting(c)' /\ ~Waiting(c) /\ call[c].ret = "none"
  BY <1>1 DEF Waiting, RefInv, Told
<1>4. RefInv' /\ \A d \in Caller \ {c} : Same(d)
  BY <1>1, <1>2, <1>3, CallerStep
<1>5. LooseCount(c)' = LooseCount(c) /\ LooseCount(c) + 0 = LooseCount(c)
  BY <1>1, <1>3, Quiet, LooseNat
<1>6. Same(c) \/ (Mine(c) = "asked" /\ Ends(c, "refused", 0))
  BY <1>1, <1>3, <1>5 DEF Ends, Mine, Same
<1> QED
  BY <1>4, <1>6, Steps DEF Change

LEMMA ReturnMapped ==
    ASSUME Few, RefInv, NEW c \in Caller, Return(c)
    PROVE  RefInv' /\ Mapped
<1>1. /\ call[c].pc = "deinit" /\ UNCHANGED <<queue, cur, Left>>
      /\ heap' = RpcDeinit(call[c].data)
      /\ \A d \in Caller \ {c} : call'[d] = call[d]
      /\ call'[c].pc = "idle" /\ call'[c].ret = "none"
  BY DEF Return, Left, RefInv, Inv, TypeOK, NoCall
<1>2. Inv'
  BY ReturnInv DEF RefInv
<1>3. ~Waiting(c)' /\ ~Waiting(c) /\ call[c].ret # "none"
  BY <1>1 DEF Waiting, RefInv, Told
<1>4. \A d \in Caller \ {c} : Waiting(d) => heap'[call[d].data] = heap[call[d].data]
  <2> SUFFICES ASSUME NEW d \in Caller \ {c}, Waiting(d)
               PROVE  heap'[call[d].data] = heap[call[d].data]
    OBVIOUS
  <2>1. call[d].data \in Buf /\ call[d].data # call[c].data
    BY <1>1 DEF RefInv, Inv, Underway, Waiting, Apart, CallsApart
  <2>2. call[c].data \in Buf \cup {NULL}
    BY DEF RefInv, Inv, TypeOK, CallType
  <2> QED
    BY <1>1, <2>1, <2>2, DeinitTyped DEF RefInv, Inv
<1>5. RefInv' /\ \A d \in Caller \ {c} : Same(d)
  BY <1>1, <1>2, <1>3, <1>4, CallerStep
<1>6. LooseCount(c)' = LooseCount(c) /\ Mine(c)' = Mine(c)
  BY <1>1, <1>3, Quiet DEF Mine
<1> QED
  BY <1>1, <1>3, <1>5, <1>6, Steps DEF Change

LEMMA AnsweredMapped ==
    ASSUME Few, RefInv, NEW c \in Caller, Answered(c)
    PROVE  RefInv' /\ Mapped
<1> DEFINE b == call[c].data
<1>1. /\ Waiting(c) /\ heap[b].sem > 0 /\ UNCHANGED <<queue, cur, Left>>
      /\ heap' = [heap EXCEPT ![b].sem = @ - 1]
      /\ \A d \in Caller \ {c} : call'[d] = call[d]
      /\ call'[c].pc = "deinit" /\ call'[c].ret = "ok"
  BY DEF Answered, Left, Waiting, RefInv, Inv, TypeOK, CallType
<1>2. Inv'
  BY AnsweredInv DEF RefInv
<1>3. ~Waiting(c)' /\ call[c].ret = "none" /\ b \in Buf /\ ~(heap[b].sem = 0)
  BY <1>1 DEF Waiting, RefInv, Told, Inv, Underway
<1>4. \A d \in Caller \ {c} : Waiting(d) => heap'[call[d].data] = heap[call[d].data]
  <2> SUFFICES ASSUME NEW d \in Caller \ {c}, Waiting(d)
               PROVE  heap'[call[d].data] = heap[call[d].data]
    OBVIOUS
  <2>1. call[d].data \in Buf /\ call[d].data # b
    BY <1>1 DEF RefInv, Inv, Underway, Waiting, Apart, CallsApart
  <2> QED
    BY <1>1, <2>1
<1>5. RefInv' /\ \A d \in Caller \ {c} : Same(d)
  BY <1>1, <1>2, <1>3, <1>4, CallerStep
<1>6. CarriedOut(c)
  <2>1. \A t \in Utask : \A r \in Range(queue[t]) : r.data # b
    <3> SUFFICES ASSUME NEW t \in Utask, NEW r \in Range(queue[t]), r.data = b PROVE FALSE
      OBVIOUS
    <3>1. PICK i \in 1..Len(queue[t]) : queue[t][i] = r
      BY DEF Range, RefInv, Inv, TypeOK
    <3>2. InQueue(b)
      BY <3>1 DEF InQueue
    <3> QED
      BY <1>3, <3>2 DEF RefInv, Inv, Silent
  <2>2. \A t \in Utask : cur[t] # NULL /\ cur[t].data = b => cur[t].done
    BY <1>3 DEF RefInv, Inv, Silent
  <2>3. \A r \in Left : r.data = b => r.done
    BY <1>3 DEF RefInv, Inv, Silent
  <2> QED
    BY <2>1, <2>2, <2>3 DEF CarriedOut, Own, Handling
<1>7. InLine(c)' = InLine(c)
  <2>1. \A t \in Utask : \A i \in DOMAIN queue[t] : ~Own(c, queue[t][i])
    BY <1>6 DEF CarriedOut, Range
  <2>2. \A r : ~Own(c, r) => (Loose(c, r)' <=> Loose(c, r))
    BY <1>3 DEF Loose, Own
  <2> QED
    BY <1>1, <2>1, <2>2 DEF InLine
<1>8. AtHand(c)' = AtHand(c)
  <2>1. \A t \in Utask : Handling(t) => (Loose(c, cur[t])' <=> Loose(c, cur[t]))
    BY <1>1, <1>3, <1>6 DEF Loose, Own, CarriedOut, Waiting
  <2> QED
    BY <1>1, <2>1 DEF AtHand, Handling
<1>9. Laid(c)' = Laid(c)
  <2>1. \A r \in Left : Loose(c, r)' <=> Loose(c, r)
    BY <1>1, <1>3, <1>6 DEF Loose, Own, CarriedOut, Waiting
  <2> QED
    BY <1>1, <2>1 DEF Laid
<1>10. LooseCount(c)' = LooseCount(c) + 0
  BY <1>7, <1>8, <1>9, LooseNat DEF LooseCount, InLine, AtHand, Laid
<1>11. Mine(c) = "carried out" /\ Ends(c, "ok", 0)
  BY <1>1, <1>3, <1>6, <1>10 DEF Mine, Ends, Waiting
<1> QED
  BY <1>5, <1>11, Steps DEF Change

(* A request that is waited for and not answered is at one place.          *)
OwnLine(c) == {p \in Utask \X (1..Depth) :
                 p[2] \in DOMAIN queue[p[1]] /\ Own(c, queue[p[1]][p[2]])}
OwnHand(c) == {t \in Utask : Handling(t) /\ Own(c, cur[t]) /\ ~cur[t].done}
OwnLaid(c) == {r \in Left : Own(c, r) /\ ~r.done}

LEMMA OneOpen ==
    ASSUME RefInv, NEW c \in Caller, Waiting(c), ~CarriedOut(c)
    PROVE  \/ (\E p : OwnLine(c) = {p}) /\ OwnHand(c) = {} /\ OwnLaid(c) = {}
           \/ OwnLine(c) = {} /\ (\E t : OwnHand(c) = {t}) /\ OwnLaid(c) = {}
           \/ OwnLine(c) = {} /\ OwnHand(c) = {} /\ \E r : OwnLaid(c) = {r}
<1> DEFINE b == call[c].data
<1>1. b \in Buf /\ \A r : Own(c, r) => r.data = b
  BY DEF Own, RefInv, Inv, Underway, Waiting
<1>2. \A t \in Utask : DOMAIN queue[t] = 1..Len(queue[t]) /\ DOMAIN queue[t] \subseteq 1..Depth
  <2> TAKE t \in Utask
  <2>1. queue[t] \in Seq(RequestType) /\ Len(queue[t]) <= Depth /\ Depth \in Nat
    BY UServiceAssumption DEF RefInv, Inv, TypeOK
  <2> QED
    BY <2>1
<1>3. /\ OwnLine(c) # {} => InQueue(b)
      /\ OwnHand(c) # {} => InCur(b)
      /\ OwnLaid(c) # {} => InKept(b)
  <2>1. ASSUME NEW p \in OwnLine(c) PROVE InQueue(b)
    <3>1. p[1] \in Utask /\ p[2] \in 1..Len(queue[p[1]]) /\ queue[p[1]][p[2]].data = b
      BY <1>1, <1>2 DEF OwnLine
    <3> QED
      BY <3>1 DEF InQueue
  <2> QED
    BY <1>1, <2>1 DEF OwnHand, OwnLaid, InCur, InKept, Handling
<1>4. ~(InQueue(b) /\ InCur(b)) /\ ~(InQueue(b) /\ InKept(b)) /\ ~(InCur(b) /\ InKept(b))
  BY <1>1 DEF RefInv, Inv, Apart, PlacesApart
<1>5. \A p, q \in OwnLine(c) : p = q
  <2> SUFFICES ASSUME NEW p \in OwnLine(c), NEW q \in OwnLine(c) PROVE p = q
    OBVIOUS
  <2>1. /\ p \in Utask \X (1..Depth) /\ q \in Utask \X (1..Depth)
        /\ p[2] \in 1..Len(queue[p[1]]) /\ q[2] \in 1..Len(queue[q[1]])
        /\ queue[p[1]][p[2]].data = b /\ queue[q[1]][q[2]].data = b
    BY <1>1, <1>2 DEF OwnLine
  <2>2. p[1] = q[1] /\ p[2] = q[2]
    BY <1>1, <2>1 DEF RefInv, Inv, Apart, QueueApart
  <2> QED
    BY <2>1, <2>2
<1>6. \A t, u \in OwnHand(c) : t = u
  BY <1>1 DEF OwnHand, Handling, RefInv, Inv, Apart, CurApart
<1>7. \A r, s \in OwnLaid(c) : r = s
  BY <1>1 DEF OwnLaid, RefInv, Inv, Apart, KeptApart
<1>8. OwnLine(c) # {} \/ OwnHand(c) # {} \/ OwnLaid(c) # {}
  <2>1. ASSUME NEW t \in Utask, NEW r \in Range(queue[t]), Own(c, r) PROVE OwnLine(c) # {}
    <3>1. PICK i \in DOMAIN queue[t] : queue[t][i] = r
      BY DEF Range
    <3>2. <<t, i>> \in OwnLine(c)
      BY <1>2, <2>1, <3>1 DEF OwnLine
    <3> QED
      BY <3>2
  <2> QED
    BY <2>1 DEF CarriedOut, OwnHand, OwnLaid
<1>9. ASSUME NEW S, S # {}, \A x, y \in S : x = y PROVE \E x : S = {x}
  <2>1. PICK x : x \in S
    BY <1>9
  <2> QED
    BY <1>9, <2>1
<1> HIDE DEF b
<1>10. CASE OwnLine(c) # {}
  <2>1. OwnHand(c) = {} /\ OwnLaid(c) = {}
    BY <1>3, <1>4, <1>10
  <2>2. \E p : OwnLine(c) = {p}
    BY <1>5, <1>9, <1>10
  <2> QED
    BY <2>1, <2>2
<1>11. CASE OwnHand(c) # {}
  <2>1. OwnLine(c) = {} /\ OwnLaid(c) = {}
    BY <1>3, <1>4, <1>11
  <2>2. \E t : OwnHand(c) = {t}
    BY <1>6, <1>9, <1>11
  <2> QED
    BY <2>1, <2>2
<1>12. CASE OwnLaid(c) # {}
  <2>1. OwnLine(c) = {} /\ OwnHand(c) = {}
    BY <1>3, <1>4, <1>12
  <2>2. \E r : OwnLaid(c) = {r}
    BY <1>7, <1>9, <1>12
  <2> QED
    BY <2>1, <2>2
<1> QED
  BY <1>8, <1>10, <1>11, <1>12

LEMMA TimedOutMapped ==
    ASSUME Few, RefInv, NEW c \in Caller, TimedOut(c)
    PROVE  RefInv' /\ Mapped
<1> DEFINE b == call[c].data
<1>1. /\ Waiting(c) /\ heap[b].sem = 0 /\ UNCHANGED <<heap, queue, cur, Left>>
      /\ \A d \in Caller \ {c} : call'[d] = call[d]
      /\ call'[c].pc = "deinit" /\ call'[c].ret = "timeout"
  BY DEF TimedOut, Left, Waiting, RefInv, Inv, TypeOK, CallType
<1>2. Inv'
  BY TimedOutInv DEF RefInv
<1>3. ~Waiting(c)' /\ call[c].ret = "none" /\ ~CarriedOut(c)
  BY <1>1 DEF Waiting, RefInv, Told, Attended
<1>4. RefInv' /\ \A d \in Caller \ {c} : Same(d)
  BY <1>1, <1>2, <1>3, CallerStep
<1>5. \A r : ~r.done => (Loose(c, r)' <=> Loose(c, r) \/ Own(c, r))
  BY <1>3 DEF Loose, Own
<1>6. \A r : r.done => ~Loose(c, r)' /\ ~Loose(c, r)
  BY DEF Loose
<1>7. InLine(c)' = InLine(c) \cup OwnLine(c) /\ InLine(c) \cap OwnLine(c) = {}
  <2>1. \A t \in Utask : \A i \in DOMAIN queue[t] : ~queue[t][i].done
    BY DEF RefInv, Fresh, Inv, TypeOK
  <2> QED
    BY <1>1, <1>5, <2>1 DEF InLine, OwnLine, Loose
<1>8. AtHand(c)' = AtHand(c) \cup OwnHand(c) /\ AtHand(c) \cap OwnHand(c) = {}
  BY <1>1, <1>5, <1>6 DEF AtHand, OwnHand, Handling, Loose
<1>9. Laid(c)' = Laid(c) \cup OwnLaid(c) /\ Laid(c) \cap OwnLaid(c) = {}
  BY <1>1, <1>5, <1>6 DEF Laid, OwnLaid, Loose
<1>10. LooseCount(c)' = LooseCount(c) + 1
  <2>1. /\ IsFiniteSet(InLine(c)) /\ Cardinality(InLine(c)) \in Nat
        /\ IsFiniteSet(AtHand(c)) /\ Cardinality(AtHand(c)) \in Nat
        /\ IsFiniteSet(Laid(c)) /\ Cardinality(Laid(c)) \in Nat
        /\ LooseCount(c) = Cardinality(InLine(c)) + Cardinality(AtHand(c)) + Cardinality(Laid(c))
    BY Counting DEF RefInv, Inv
  <2>2. LooseCount(c)' = Cardinality(InLine(c)') + Cardinality(AtHand(c)') + Cardinality(Laid(c)')
    BY DEF LooseCount, InLine, AtHand, Laid
  <2>3. ASSUME NEW S, NEW T, NEW x, IsFiniteSet(S), Cardinality(S) \in Nat, T = {x}, S \cap T = {}
        PROVE  Cardinality(S \cup T) = Cardinality(S) + 1
    BY <2>3, FS_AddElement
  <2>4. ASSUME NEW S, NEW T, T = {} PROVE S \cup T = S
    BY <2>4
  <2>5. CASE (\E p : OwnLine(c) = {p}) /\ OwnHand(c) = {} /\ OwnLaid(c) = {}
    <3>1. AtHand(c)' = AtHand(c) /\ Laid(c)' = Laid(c)
      BY <1>8, <1>9, <2>5
    <3>2. Cardinality(InLine(c)') = Cardinality(InLine(c)) + 1
      BY <1>7, <2>1, <2>3, <2>5
    <3> QED
      BY <2>1, <2>2, <3>1, <3>2
  <2>6. CASE OwnLine(c) = {} /\ (\E t : OwnHand(c) = {t}) /\ OwnLaid(c) = {}
    <3>1. InLine(c)' = InLine(c) /\ Laid(c)' = Laid(c)
      BY <1>7, <1>9, <2>6
    <3>2. Cardinality(AtHand(c)') = Cardinality(AtHand(c)) + 1
      BY <1>8, <2>1, <2>3, <2>6
    <3> QED
      BY <2>1, <2>2, <3>1, <3>2
  <2>7. CASE OwnLine(c) = {} /\ OwnHand(c) = {} /\ \E r : OwnLaid(c) = {r}
    <3>1. InLine(c)' = InLine(c) /\ AtHand(c)' = AtHand(c)
      BY <1>7, <1>8, <2>7
    <3>2. Cardinality(Laid(c)') = Cardinality(Laid(c)) + 1
      BY <1>9, <2>1, <2>3, <2>7
    <3> QED
      BY <2>1, <2>2, <3>1, <3>2
  <2> QED
    BY <1>1, <1>3, <2>5, <2>6, <2>7, OneOpen
<1>11. Mine(c) = "waiting" /\ Ends(c, "timeout", 1)
  BY <1>1, <1>3, <1>10 DEF Mine, Ends, Waiting
<1> QED
  BY <1>4, <1>11, Steps DEF Change

LEMMA SendMapped ==
    ASSUME Few, RefInv, NEW c \in Caller, Send(c)
    PROVE  RefInv' /\ Mapped
<1> DEFINE b  == call[c].data
           u  == call[c].to
           q  == queue[u]
           n  == Len(q)
           r0 == Request(c, b)
<1>1. /\ call[c].pc = "send" /\ UNCHANGED <<heap, cur, Left>>
      /\ queue' = [queue EXCEPT ![u] = Append(q, r0)]
      /\ call' = [call EXCEPT ![c] =
            IF HasSem(@.data) THEN [@ EXCEPT !.pc = "wait", !.tries = 0]
            ELSE [@ EXCEPT !.pc = "deinit", !.tries = 0, !.ret = "ok"]]
      /\ ~(n >= Depth)
  BY DEF Send, Left, Full
<1>2. /\ \A d \in Caller \ {c} : call'[d] = call[d]
      /\ call'[c].data = b
      /\ HasSem(b) => call'[c].pc = "wait" /\ call'[c].ret = call[c].ret
      /\ ~HasSem(b) => call'[c].pc = "deinit" /\ call'[c].ret = "ok"
  BY <1>1 DEF RefInv, Inv, TypeOK, CallType
<1>3. /\ u \in Utask /\ b \in Buf \cup {NULL} /\ call[c].ret = "none" /\ ~Waiting(c)
      /\ q \in Seq(RequestType) /\ n \in Nat /\ n + 1 \in 1..Depth /\ DOMAIN q = 1..n
  <2>1. u \in Utask /\ b \in Buf \cup {NULL} /\ call[c].ret = "none" /\ ~Waiting(c)
    BY <1>1 DEF RefInv, Inv, TypeOK, CallType, Underway, Told, Waiting
  <2>2. q \in Seq(RequestType)
    BY <2>1 DEF RefInv, Inv, TypeOK
  <2> QED
    BY <1>1, <2>1, <2>2, UServiceAssumption
<1>4. r0 \in RequestType /\ r0.from = c /\ r0.data = b /\ ~r0.done
  BY <1>3 DEF Request, RequestType
<1>5. /\ DOMAIN queue'[u] = 1..n+1 /\ queue'[u][n+1] = r0
      /\ \A i \in 1..n : queue'[u][i] = q[i]
      /\ \A t \in Utask \ {u} : queue'[t] = queue[t]
  <2>1. queue'[u] = Append(q, r0) /\ \A t \in Utask \ {u} : queue'[t] = queue[t]
    BY <1>1, <1>3 DEF RefInv, Inv, TypeOK
  <2>2. /\ Append(q, r0) \in Seq(RequestType) /\ Len(Append(q, r0)) = n + 1
        /\ \A i \in 1..n : Append(q, r0)[i] = q[i] /\ Append(q, r0)[n+1] = r0
    BY <1>3, <1>4, AppendIndex
  <2>3. Append(q, r0)[n+1] = r0
    BY <1>3, <1>4, AppendIndex
  <2> QED
    BY <1>3, <2>1, <2>2, <2>3
<1> HIDE DEF r0, u, b
<1>6. Inv'
  BY SendInv DEF RefInv
<1>7. Fresh' /\ IsFiniteSet(Left')
  <2>1. \A t \in Utask : DOMAIN queue'[t] = 1..Len(queue'[t])
    BY <1>6 DEF Inv, TypeOK
  <2>2. ASSUME NEW t \in Utask, NEW i \in DOMAIN queue'[t] PROVE ~queue'[t][i].done
    <3>1. CASE t = u /\ i = n + 1
      BY <1>4, <1>5, <3>1
    <3>2. CASE t = u /\ i # n + 1
      <4>1. i \in 1..n
        BY <1>3, <1>5, <2>2, <3>2
      <4> QED
        BY <1>3, <1>5, <3>2, <4>1 DEF RefInv, Fresh
    <3>3. CASE t # u
      BY <1>5, <2>1, <2>2, <3>3 DEF RefInv, Fresh
    <3> QED
      BY <3>1, <3>2, <3>3
  <2> QED
    BY <1>1, <2>1, <2>2 DEF RefInv, Fresh
<1>8. Told'
  BY <1>1, <1>2, <1>3 DEF RefInv, Told
<1>9. \A t \in Utask : \A i : i \in DOMAIN queue'[t] <=> i \in DOMAIN queue[t] \/ (t = u /\ i = n + 1)
  BY <1>3, <1>5
<1>10. \A t \in Utask : \A i \in DOMAIN queue[t] : queue'[t][i] = queue[t][i]
  BY <1>3, <1>5
<1> HIDE DEF q, n
<1>11. ~(n + 1 \in DOMAIN queue[u])
  BY <1>3 DEF q
(* The others. *)
<1>12. ASSUME NEW d \in Caller \ {c} PROVE Attended(d)' /\ Same(d)
  <2>1. \A r : (Own(d, r)' <=> Own(d, r)) /\ (Loose(d, r)' <=> Loose(d, r))
    BY <1>2, OwnSame DEF Waiting
  <2>2. ~Own(d, r0) /\ ~Loose(d, r0)
    BY <1>4 DEF Own, Loose
  <2>3. InLine(d)' = InLine(d)
    <3>1. \A p \in Utask \X (1..Depth) :
             p[2] \in DOMAIN queue'[p[1]] /\ Loose(d, queue'[p[1]][p[2]])
               <=> p[2] \in DOMAIN queue[p[1]] /\ Loose(d, queue[p[1]][p[2]])
      BY <1>5, <1>9, <1>10, <1>11, <2>2
    <3> QED
      BY <2>1, <3>1 DEF InLine
  <2>4. AtHand(d)' = AtHand(d) /\ Laid(d)' = Laid(d)
    BY <1>1, <2>1 DEF AtHand, Laid, Handling
  <2>5. LooseCount(d)' = LooseCount(d)
    BY <2>3, <2>4 DEF LooseCount, InLine, AtHand, Laid
  <2>6. CarriedOut(d)' <=> CarriedOut(d)
    <3>1. (\A t \in Utask : \A r \in Range(queue'[t]) : ~Own(d, r))
             <=> (\A t \in Utask : \A r \in Range(queue[t]) : ~Own(d, r))
      BY <1>5, <1>9, <1>10, <2>2 DEF Range
    <3> QED
      BY <1>1, <2>1, <3>1 DEF CarriedOut, Handling
  <2> QED
    BY <1>1, <1>2, <2>5, <2>6 DEF RefInv, Attended, HasSem, Waiting, Same, Mine
<1>13. AtHand(c) = {t \in Utask : Handling(t) /\ cur[t].from = c /\ ~cur[t].done}
       /\ Laid(c) = {r \in Left : r.from = c /\ ~r.done}
       /\ InLine(c) = {p \in Utask \X (1..Depth) : p[2] \in DOMAIN queue[p[1]]
                /\ queue[p[1]][p[2]].from = c /\ ~queue[p[1]][p[2]].done}
  BY <1>3 DEF AtHand, Laid, InLine, Loose, Own
<1>14. CASE HasSem(b)
  <2>1. Waiting(c)' /\ b \in Buf
    BY <1>2, <1>3, <1>14 DEF Waiting, HasSem
  <2>2. \A r : Own(c, r)' <=> r.from = c /\ r.data = b
    BY <1>2, <2>1 DEF Own
  <2>3. ~AtService(b)
    BY <1>1, <2>1 DEF RefInv, Inv, Shared, Unsent, Sent, b
  <2>4. \A t \in Utask : \A i \in DOMAIN queue[t] : queue[t][i].data # b
    <3>1. \A t \in Utask : DOMAIN queue[t] = 1..Len(queue[t])
      BY DEF RefInv, Inv, TypeOK
    <3> QED
      BY <2>3, <3>1 DEF AtService, InQueue
  <2>5. /\ \A t \in Utask : cur[t] # NULL => cur[t].data # b
        /\ \A r \in Left : r.data # b
    BY <2>3 DEF AtService, InCur, InKept
  <2>6. AtHand(c)' = AtHand(c) /\ Laid(c)' = Laid(c)
    BY <1>1, <1>13, <2>2, <2>5 DEF AtHand, Laid, Loose, Handling
  <2>7. InLine(c)' = InLine(c)
    <3>1. \A p \in Utask \X (1..Depth) :
             (/\ p[2] \in DOMAIN queue'[p[1]] /\ queue'[p[1]][p[2]].from = c
              /\ ~queue'[p[1]][p[2]].done /\ queue'[p[1]][p[2]].data # b)
               <=> (/\ p[2] \in DOMAIN queue[p[1]] /\ queue[p[1]][p[2]].from = c
                    /\ ~queue[p[1]][p[2]].done)
      BY <1>4, <1>5, <1>9, <1>10, <1>11, <2>4
    <3> QED
      BY <1>13, <2>2, <3>1 DEF InLine, Loose
  <2>8. LooseCount(c)' = LooseCount(c)
    BY <2>6, <2>7 DEF LooseCount, InLine, AtHand, Laid
  <2>9. ~CarriedOut(c)'
    <3>1. r0 \in Range(queue'[u])
      BY <1>3, <1>5 DEF Range
    <3> QED
      BY <1>3, <1>4, <2>2, <3>1 DEF CarriedOut
  <2>10. Attended(c)'
    BY <1>1, <1>2, <1>14, <2>9 DEF Attended, HasSem
  <2>11. Goes(c, "asked", "waiting")
    BY <1>1, <1>2, <1>14, <2>1, <2>8, <2>9 DEF Goes, Mine, Waiting
  <2>12. RefInv'
    BY <1>6, <1>7, <1>8, <1>12, <2>10 DEF RefInv
  <2> QED
    BY <1>12, <2>11, <2>12, Steps DEF Change
<1>15. CASE ~HasSem(b)
  <2>1. ~Waiting(c)'
    BY <1>2, <1>15 DEF Waiting
  <2>2. \A r : ~Own(c, r)'
    BY <2>1 DEF Own
  <2>3. AtHand(c)' = AtHand(c) /\ Laid(c)' = Laid(c)
    BY <1>1, <1>13, <2>2 DEF AtHand, Laid, Loose, Handling
  <2>4. InLine(c)' = InLine(c) \cup {<<u, n + 1>>} /\ <<u, n + 1>> \notin InLine(c)
    <3>1. \A p \in Utask \X (1..Depth) :
             (/\ p[2] \in DOMAIN queue'[p[1]] /\ queue'[p[1]][p[2]].from = c
              /\ ~queue'[p[1]][p[2]].done)
               <=> \/ /\ p[2] \in DOMAIN queue[p[1]] /\ queue[p[1]][p[2]].from = c
                      /\ ~queue[p[1]][p[2]].done
                   \/ p = <<u, n + 1>>
      BY <1>3, <1>4, <1>5, <1>9, <1>10, <1>11
    <3>2. InLine(c)' = {p \in Utask \X (1..Depth) : p[2] \in DOMAIN queue'[p[1]]
                /\ queue'[p[1]][p[2]].from = c /\ ~queue'[p[1]][p[2]].done}
      BY <2>2 DEF InLine, Loose
    <3>3. <<u, n + 1>> \in Utask \X (1..Depth)
      BY <1>3
    <3> QED
      BY <1>11, <1>13, <3>1, <3>2, <3>3
  <2>5. LooseCount(c)' = LooseCount(c) + 1
    <3>1. /\ IsFiniteSet(InLine(c)) /\ Cardinality(InLine(c)) \in Nat
          /\ Cardinality(AtHand(c)) \in Nat /\ Cardinality(Laid(c)) \in Nat
          /\ LooseCount(c) = Cardinality(InLine(c)) + Cardinality(AtHand(c)) + Cardinality(Laid(c))
      BY Counting DEF RefInv, Inv
    <3>2. LooseCount(c)' = Cardinality(InLine(c)') + Cardinality(AtHand(c)') + Cardinality(Laid(c)')
      BY DEF LooseCount, InLine, AtHand, Laid
    <3>3. Cardinality(InLine(c)') = Cardinality(InLine(c)) + 1
      BY <2>4, <3>1, FS_AddElement
    <3> QED
      BY <2>3, <3>1, <3>2, <3>3
  <2>6. Attended(c)'
    BY <2>1 DEF Attended
  <2>7. Mine(c) = "asked" /\ Ends(c, "ok", 1)
    BY <1>1, <1>2, <1>3, <1>15, <2>5 DEF Ends, Mine
  <2>8. RefInv'
    BY <1>6, <1>7, <1>8, <1>12, <2>6 DEF RefInv
  <2> QED
    BY <1>12, <2>7, <2>8, Steps DEF Change
<1> QED
  BY <1>14, <1>15

LEMMA RecvMapped ==
    ASSUME Few, RefInv, NEW t \in Utask, Recv(t)
    PROVE  RefInv' /\ Mapped
<1> DEFINE q  == queue[t]
           n  == Len(q)
           r0 == Head(q)
<1>1. /\ ~Handling(t) /\ q # <<>> /\ UNCHANGED <<heap, Left, call>>
      /\ cur' = [cur EXCEPT ![t] = r0] /\ queue' = [queue EXCEPT ![t] = Tail(q)]
  BY DEF Recv, Left
<1>2. /\ q \in Seq(RequestType) /\ n \in Nat /\ n >= 1 /\ n <= Depth /\ Depth \in Nat
      /\ DOMAIN q = 1..n /\ r0 = q[1] /\ r0 \in RequestType /\ r0 # NULL
      /\ DOMAIN Tail(q) = 1..n-1 /\ \A i \in 1..n-1 : Tail(q)[i] = q[i+1]
  <2>1. q \in Seq(RequestType) /\ n <= Depth /\ Depth \in Nat
    BY UServiceAssumption DEF RefInv, Inv, TypeOK
  <2>2. /\ Tail(q) \in Seq(RequestType) /\ Len(Tail(q)) = n - 1 /\ n >= 1
        /\ r0 = q[1] /\ r0 \in RequestType
        /\ \A i \in 1..Len(Tail(q)) : Tail(q)[i] = q[i + 1]
    BY <1>1, <2>1, TailIndex
  <2>3. DOMAIN q = 1..n /\ n \in Nat /\ DOMAIN Tail(q) = 1..Len(Tail(q))
    BY <2>1, <2>2
  <2> QED
    BY <2>1, <2>2, <2>3, UServiceAssumption DEF RequestType
<1>3. /\ DOMAIN queue'[t] = 1..n-1 /\ \A i \in 1..n-1 : queue'[t][i] = queue[t][i+1]
      /\ \A v \in Utask \ {t} : queue'[v] = queue[v] /\ cur'[v] = cur[v]
      /\ cur'[t] = r0 /\ cur[t] = NULL
      /\ DOMAIN queue[t] = 1..n /\ r0 = queue[t][1]
  BY <1>1, <1>2 DEF RefInv, Inv, TypeOK, Handling
<1>4. ~r0.done
  BY <1>2, <1>3 DEF RefInv, Fresh
<1>5. Inv'
  BY RecvInv DEF RefInv
<1> HIDE DEF q, n, r0
<1>6. Fresh' /\ Told' /\ IsFiniteSet(Left')
  <2>1. \A v \in Utask : DOMAIN queue'[v] = 1..Len(queue'[v])
    BY <1>5 DEF Inv, TypeOK
  <2>2. ASSUME NEW v \in Utask, NEW i \in DOMAIN queue'[v] PROVE ~queue'[v][i].done
    <3>1. CASE v = t
      <4>1. i \in 1..n-1 /\ i+1 \in 1..n
        BY <1>2, <1>3, <2>2, <3>1
      <4>2. n = Len(queue[t])
        BY DEF n, q
      <4> QED
        BY <1>3, <3>1, <4>1, <4>2 DEF RefInv, Fresh
    <3>2. CASE v # t
      BY <1>3, <2>1, <2>2, <3>2 DEF RefInv, Fresh
    <3> QED
      BY <3>1, <3>2
  <2> QED
    BY <1>1, <2>1, <2>2 DEF RefInv, Fresh, Told
<1>7. ASSUME NEW d \in Caller PROVE Attended(d)' /\ Same(d)
  <2>1. \A r : (Own(d, r)' <=> Own(d, r)) /\ (Loose(d, r)' <=> Loose(d, r))
    BY <1>1, OwnSame DEF Waiting
  <2>2. Laid(d)' = Laid(d)
    BY <1>1, <2>1 DEF Laid
  <2>3. AtHand(d)' = AtHand(d) \cup {v \in {t} : Loose(d, r0)} /\ t \notin AtHand(d)
    BY <1>2, <1>3, <2>1 DEF AtHand, Handling
  <2> DEFINE head == <<t, 1>>
             S == InLine(d) \ {head}
             T == InLine(d)'
  <2>4. head \in InLine(d) <=> Loose(d, r0)
    <3>1. head \in Utask \X (1..Depth) /\ 1 \in DOMAIN queue[t]
      BY <1>2, <1>3
    <3> QED
      BY <1>3, <3>1 DEF InLine
  <2>5. /\ IsFiniteSet(InLine(d)) /\ Cardinality(InLine(d)) \in Nat
        /\ IsFiniteSet(AtHand(d)) /\ Cardinality(AtHand(d)) \in Nat /\ Cardinality(Laid(d)) \in Nat
        /\ LooseCount(d) = Cardinality(InLine(d)) + Cardinality(AtHand(d)) + Cardinality(Laid(d))
    BY Counting DEF RefInv, Inv
  <2>6. \A p : p \in S <=> /\ p \in Utask \X (1..Depth) /\ p[2] \in DOMAIN queue[p[1]]
                           /\ Loose(d, queue[p[1]][p[2]]) /\ p # head
    BY DEF InLine
  <2>7. \A p : p \in T <=> /\ p \in Utask \X (1..Depth) /\ p[2] \in DOMAIN queue'[p[1]]
                           /\ Loose(d, queue'[p[1]][p[2]])
    BY <2>1 DEF InLine
  <2> DEFINE f == [p \in S |-> IF p[1] = t THEN <<t, p[2] - 1>> ELSE p]
  <2>8. ASSUME NEW p \in S PROVE f[p] \in T
    <3>1. CASE p[1] = t
      <4>5. p \in Utask \X (1..Depth) /\ p[2] \in DOMAIN queue[p[1]] /\ p # head
        BY <2>6
      <4>6. p = <<p[1], p[2]>>
        BY <4>5
      <4>0. p = <<p[1], p[2]>> /\ p[1] = t /\ p[2] \in 1..n /\ p # <<t, 1>>
        BY <1>3, <3>1, <4>5, <4>6
      <4>1. p[2] \in 1..n /\ p[2] # 1 /\ p = <<t, p[2]>>
        BY <4>0
      <4>2. p[2] - 1 \in 1..n-1 /\ (p[2] - 1) + 1 = p[2] /\ p[2] - 1 \in 1..Depth
        BY <1>2, <4>1
      <4>3. Loose(d, queue'[t][p[2] - 1])
        BY <1>3, <2>6, <3>1, <4>2
      <4>4. f[p] = <<t, p[2] - 1>> /\ f[p][1] = t /\ f[p][2] = p[2] - 1
        BY <3>1
      <4> QED
        BY <1>3, <2>7, <4>2, <4>3, <4>4
    <3>2. CASE p[1] # t
      <4>1. f[p] = p
        BY <3>2
      <4> QED
        BY <1>3, <2>6, <2>7, <3>2, <4>1
    <3> QED
      BY <3>1, <3>2
  <2>9. ASSUME NEW p1 \in S, NEW p2 \in S, f[p1] = f[p2] PROVE p1 = p2
    <3>1. /\ p1 \in Utask \X (1..Depth) /\ p2 \in Utask \X (1..Depth)
          /\ p1 = <<p1[1], p1[2]>> /\ p2 = <<p2[1], p2[2]>> /\ p1[2] \in Int /\ p2[2] \in Int
      BY <1>2, <2>6
    <3>2. \A p \in S : f[p][1] = p[1] /\ f[p][2] = IF p[1] = t THEN p[2] - 1 ELSE p[2]
      OBVIOUS
    <3> QED
      BY <2>9, <3>1, <3>2
  <2>10. ASSUME NEW x \in T PROVE \E p \in S : f[p] = x
    <3>1. CASE x[1] = t
      <4>6. /\ x \in Utask \X (1..Depth) /\ x[2] \in DOMAIN queue'[x[1]]
            /\ Loose(d, queue'[x[1]][x[2]])
        BY <2>7
      <4>7. x = <<x[1], x[2]>>
        BY <4>6
      <4>0. x = <<x[1], x[2]>> /\ x[1] = t /\ x[2] \in 1..n-1 /\ Loose(d, queue'[x[1]][x[2]])
        BY <1>3, <3>1, <4>6, <4>7
      <4>1. x[2] \in 1..n-1 /\ x = <<t, x[2]>> /\ Loose(d, queue'[t][x[2]])
        BY <4>0
      <4>2. x[2] + 1 \in 1..n /\ x[2] + 1 # 1 /\ x[2] + 1 \in 1..Depth /\ (x[2] + 1) - 1 = x[2]
        BY <1>2, <4>1
      <4> DEFINE p == <<t, x[2] + 1>>
      <4>3. p[1] = t /\ p[2] = x[2] + 1 /\ p # head /\ p \in Utask \X (1..Depth)
        BY <4>2
      <4>4. p \in S
        BY <1>3, <2>6, <4>1, <4>2, <4>3
      <4>5. f[p] = x
        BY <4>1, <4>2, <4>3, <4>4
      <4> QED
        BY <4>4, <4>5
    <3>2. CASE x[1] # t
      <4>1. x \in S
        BY <1>3, <2>6, <2>7, <3>2
      <4> QED
        BY <3>2, <4>1
    <3> QED
      BY <3>1, <3>2
  <2>11. f \in [S -> T]
    BY <2>8
  <2> HIDE DEF f, S, T
  <2>12. f \in Bijection(S, T)
    BY <2>9, <2>10, <2>11 DEF Bijection, Injection, Surjection, IsInjective
  <2>13. IsFiniteSet(S) /\ Cardinality(S) =
            IF head \in InLine(d) THEN Cardinality(InLine(d)) - 1 ELSE Cardinality(InLine(d))
    BY <2>5, FS_RemoveElement DEF S
  <2>14. Cardinality(T) = Cardinality(S)
    BY <2>12, <2>13, FS_Bijection DEF ExistsBijection
  <2>15. Cardinality(AtHand(d)') =
            IF Loose(d, r0) THEN Cardinality(AtHand(d)) + 1 ELSE Cardinality(AtHand(d))
    <3>1. CASE Loose(d, r0)
      <4>1. AtHand(d)' = AtHand(d) \cup {t}
        BY <2>3, <3>1
      <4> QED
        BY <2>3, <2>5, <3>1, <4>1, FS_AddElement
    <3>2. CASE ~Loose(d, r0)
      <4>1. AtHand(d)' = AtHand(d)
        BY <2>3, <3>2
      <4> QED
        BY <3>2, <4>1
    <3> QED
      BY <3>1, <3>2
  <2>16. LooseCount(d)' = Cardinality(T) + Cardinality(AtHand(d)') + Cardinality(Laid(d))
    BY <2>2 DEF LooseCount, InLine, AtHand, Laid, T
  <2>17. LooseCount(d)' = LooseCount(d)
    <3>1. CASE Loose(d, r0)
      BY <2>4, <2>5, <2>13, <2>14, <2>15, <2>16, <3>1
    <3>2. CASE ~Loose(d, r0)
      BY <2>4, <2>5, <2>13, <2>14, <2>15, <2>16, <3>2
    <3> QED
      BY <3>1, <3>2
  <2>18. CarriedOut(d)' <=> CarriedOut(d)
    <3>1. (\A r \in Range(queue[t]) : ~Own(d, r))
             <=> (\A r \in Range(queue'[t]) : ~Own(d, r)) /\ ~Own(d, r0)
      <4>1. ASSUME NEW i \in 1..n PROVE i = 1 \/ (i - 1 \in 1..n-1 /\ (i - 1) + 1 = i)
        BY <1>2
      <4>2. ASSUME NEW i \in 1..n-1 PROVE i + 1 \in 1..n
        BY <1>2
      <4>3. 1 \in 1..n
        BY <1>2
      <4>4. \A r : r \in Range(queue[t]) <=> r \in Range(queue'[t]) \/ r = r0
        <5>1. ASSUME NEW r \in Range(queue[t]) PROVE r \in Range(queue'[t]) \/ r = r0
          <6>1. PICK i \in 1..n : queue[t][i] = r
            BY <1>3 DEF Range
          <6>2. CASE i = 1
            BY <1>3, <6>1, <6>2
          <6>3. CASE i # 1
            <7>1. queue'[t][i - 1] = r /\ i - 1 \in DOMAIN queue'[t]
              BY <1>3, <4>1, <6>1, <6>3
            <7> QED
              BY <7>1 DEF Range
          <6> QED
            BY <6>2, <6>3
        <5>2. ASSUME NEW r \in Range(queue'[t]) PROVE r \in Range(queue[t])
          <6>1. PICK i \in 1..n-1 : queue'[t][i] = r
            BY <1>3 DEF Range
          <6> QED
            BY <1>3, <4>2, <6>1 DEF Range
        <5>3. r0 \in Range(queue[t])
          BY <1>3, <4>3 DEF Range
        <5> QED
          BY <5>1, <5>2, <5>3
      <4> QED
        BY <4>4
    <3>2. \A v \in Utask \ {t} : Range(queue'[v]) = Range(queue[v])
      BY <1>3
    <3>4. (\A v \in Utask : \A r \in Range(queue[v]) : ~Own(d, r))
             <=> (\A v \in Utask : \A r \in Range(queue'[v]) : ~Own(d, r)) /\ ~Own(d, r0)
      BY <3>1, <3>2
    <3>5. (\A v \in Utask : cur'[v] # NULL /\ Own(d, cur'[v]) => cur'[v].done)
             <=> (\A v \in Utask : cur[v] # NULL /\ Own(d, cur[v]) => cur[v].done) /\ ~Own(d, r0)
      BY <1>2, <1>3, <1>4
    <3>6. CarriedOut(d)' <=> /\ \A v \in Utask : \A r \in Range(queue'[v]) : ~Own(d, r)
                             /\ \A v \in Utask : cur'[v] # NULL /\ Own(d, cur'[v]) => cur'[v].done
                             /\ \A r \in Left' : Own(d, r) => r.done
      BY <2>1 DEF CarriedOut, Handling
    <3>7. CarriedOut(d) <=> /\ \A v \in Utask : \A r \in Range(queue[v]) : ~Own(d, r)
                            /\ \A v \in Utask : cur[v] # NULL /\ Own(d, cur[v]) => cur[v].done
                            /\ \A r \in Left : Own(d, r) => r.done
      BY DEF CarriedOut, Handling
    <3> QED
      BY <1>1, <3>4, <3>5, <3>6, <3>7
  <2>19. Same(d)
    BY <1>1, <2>17, <2>18 DEF Same, Mine
  <2> QED
    BY <1>1, <2>18, <2>19 DEF RefInv, Attended, HasSem, Waiting
<1> QED
  BY <1>5, <1>6, <1>7, Stutters DEF RefInv

(* A step of the service side that leaves the queues and the calls: the    *)
(* request r0 is answered or thrown away, or nothing happens to any that   *)
(* is still open.                                                          *)
LEMMA Counted3 ==
    ASSUME Few, RefInv, NEW d \in Caller, InLine(d)' = InLine(d)
    PROVE  /\ AtHand(d)' = AtHand(d) /\ Laid(d)' = Laid(d) => LooseCount(d)' = LooseCount(d)
           /\ \A t : t \in AtHand(d) /\ AtHand(d)' = AtHand(d) \ {t} /\ Laid(d)' = Laid(d)
                  => LooseCount(d) > 0 /\ LooseCount(d)' = LooseCount(d) - 1
           /\ \A r : r \in Laid(d) /\ AtHand(d)' = AtHand(d) /\ Laid(d)' = Laid(d) \ {r}
                  => LooseCount(d) > 0 /\ LooseCount(d)' = LooseCount(d) - 1
           /\ \A t, r : t \in AtHand(d) /\ r \notin Laid(d)
                        /\ AtHand(d)' = AtHand(d) \ {t} /\ Laid(d)' = Laid(d) \cup {r}
                  => LooseCount(d)' = LooseCount(d)
<1>1. /\ IsFiniteSet(InLine(d)) /\ Cardinality(InLine(d)) \in Nat
      /\ IsFiniteSet(AtHand(d)) /\ Cardinality(AtHand(d)) \in Nat
      /\ IsFiniteSet(Laid(d)) /\ Cardinality(Laid(d)) \in Nat
      /\ LooseCount(d) = Cardinality(InLine(d)) + Cardinality(AtHand(d)) + Cardinality(Laid(d))
  BY Counting DEF RefInv, Inv
<1>2. LooseCount(d)' = Cardinality(InLine(d)) + Cardinality(AtHand(d)') + Cardinality(Laid(d)')
  BY DEF LooseCount, InLine, AtHand, Laid
<1>3. ASSUME NEW S, NEW x, IsFiniteSet(S), Cardinality(S) \in Nat, x \in S
      PROVE  Cardinality(S) > 0 /\ Cardinality(S \ {x}) = Cardinality(S) - 1
  <2>1. Cardinality(S \ {x}) = Cardinality(S) - 1
    BY <1>3, FS_RemoveElement
  <2>2. Cardinality(S) # 0
    BY <1>3, FS_EmptySet
  <2> QED
    BY <1>3, <2>1, <2>2
<1>4. ASSUME NEW S, NEW x, IsFiniteSet(S), x \notin S
      PROVE  Cardinality(S \cup {x}) = Cardinality(S) + 1
  BY <1>4, FS_AddElement
<1>5. ASSUME AtHand(d)' = AtHand(d), Laid(d)' = Laid(d) PROVE LooseCount(d)' = LooseCount(d)
  BY <1>1, <1>2, <1>5
<1>6. ASSUME NEW t, t \in AtHand(d), AtHand(d)' = AtHand(d) \ {t}, Laid(d)' = Laid(d)
      PROVE  LooseCount(d) > 0 /\ LooseCount(d)' = LooseCount(d) - 1
  <2>1. Cardinality(AtHand(d)) > 0 /\ Cardinality(AtHand(d) \ {t}) = Cardinality(AtHand(d)) - 1
    BY <1>1, <1>3, <1>6
  <2> QED
    BY <1>1, <1>2, <1>6, <2>1
<1>7. ASSUME NEW r, r \in Laid(d), AtHand(d)' = AtHand(d), Laid(d)' = Laid(d) \ {r}
      PROVE  LooseCount(d) > 0 /\ LooseCount(d)' = LooseCount(d) - 1
  <2>1. Cardinality(Laid(d)) > 0 /\ Cardinality(Laid(d) \ {r}) = Cardinality(Laid(d)) - 1
    BY <1>1, <1>3, <1>7
  <2> QED
    BY <1>1, <1>2, <1>7, <2>1
<1>8. ASSUME NEW t, NEW r, t \in AtHand(d), r \notin Laid(d),
             AtHand(d)' = AtHand(d) \ {t}, Laid(d)' = Laid(d) \cup {r}
      PROVE  LooseCount(d)' = LooseCount(d)
  <2>1. Cardinality(AtHand(d) \ {t}) = Cardinality(AtHand(d)) - 1
    BY <1>1, <1>3, <1>8
  <2>2. Cardinality(Laid(d) \cup {r}) = Cardinality(Laid(d)) + 1
    BY <1>1, <1>4, <1>8
  <2> QED
    BY <1>1, <1>2, <1>8, <2>1, <2>2
<1> QED
  BY <1>5, <1>6, <1>7, <1>8

LEMMA ServiceStep ==
    ASSUME RefInv, Inv', UNCHANGED <<queue, call>>, IsFiniteSet(Left'),
           \A d \in Caller : Waiting(d) =>
               /\ heap'[call[d].data].kind = heap[call[d].data].kind
               /\ heap'[call[d].data].sem = 0 => heap[call[d].data].sem = 0
               /\ heap'[call[d].data].sem = 0 /\ CarriedOut(d)' => CarriedOut(d)
    PROVE  RefInv' /\ \A d \in Caller : InLine(d)' = InLine(d)
<1>1. Fresh' /\ Told'
  BY DEF RefInv, Fresh, Told
<1>2. \A d \in Caller : InLine(d)' = InLine(d)
  BY DEF InLine, Loose, Own, Waiting
<1>3. ASSUME NEW d \in Caller PROVE Attended(d)'
  <2>1. Attended(d) /\ (Waiting(d)' <=> Waiting(d)) /\ call'[d] = call[d]
    BY DEF RefInv, Waiting
  <2> QED
    BY <2>1 DEF Attended, HasSem
<1> QED
  BY <1>1, <1>2, <1>3 DEF RefInv

(* The request is answered: for its caller it is carried out. *)
LEMMA SignalKeeps ==
    ASSUME RefInv, NEW b \in Buf \cup {NULL}, heap' = Signal(b), NEW d \in Caller, Waiting(d)
    PROVE  /\ heap'[call[d].data].kind = heap[call[d].data].kind
           /\ heap'[call[d].data].sem = 0 =>
                 heap[call[d].data].sem = 0 /\ call[d].data # b
<1>1. call[d].data \in Buf /\ HasSem(call[d].data) /\ heap[call[d].data].sem \in {0, 1}
      /\ heap \in [Buf -> [kind : Kind \cup {"free"}, sem : {0, 1}, gc : BOOLEAN]]
  BY DEF RefInv, Inv, Underway, Waiting, Attended, TypeOK
<1>2. CASE b = call[d].data
  <2>1. heap' = [heap EXCEPT ![b].sem = @ + 1]
    BY <1>1, <1>2 DEF Signal
  <2>2. heap'[b].sem = heap[b].sem + 1 /\ heap'[b].kind = heap[b].kind
    BY <1>1, <1>2, <2>1
  <2> QED
    BY <1>1, <1>2, <2>2
<1>3. CASE b # call[d].data
  <2>1. heap'[call[d].data] = heap[call[d].data]
    BY <1>1, <1>3 DEF Signal
  <2> QED
    BY <1>3, <2>1
<1> QED
  BY <1>2, <1>3

LEMMA DeinitKeeps ==
    ASSUME RefInv, NEW b \in Buf \cup {NULL}, b \in Buf => AtService(b),
           heap' = RpcDeinit(b), NEW d \in Caller, Waiting(d)
    PROVE  /\ heap'[call[d].data].kind = heap[call[d].data].kind
           /\ heap'[call[d].data].sem = heap[call[d].data].sem
<1>1. call[d].data \in Buf /\ AtCaller(call[d].data)
  BY DEF RefInv, Inv, Underway, Waiting, AtCaller
<1>2. CASE b = call[d].data
  <2>1. ~heap[b].gc
    BY <1>1, <1>2 DEF RefInv, Inv, Shared
  <2>2. heap'[b] = [heap[b] EXCEPT !.gc = TRUE]
    BY <1>1, <1>2, <2>1, DeinitTyped DEF RefInv, Inv
  <2>3. heap[b] \in [kind : Kind \cup {"free"}, sem : {0, 1}, gc : BOOLEAN]
    BY <1>1, <1>2 DEF RefInv, Inv, TypeOK
  <2> QED
    BY <1>2, <2>2, <2>3
<1>3. CASE b # call[d].data
  <2>1. heap'[call[d].data] = heap[call[d].data]
    BY <1>1, <1>3, DeinitTyped DEF RefInv, Inv
  <2> QED
    BY <2>1
<1> QED
  BY <1>2, <1>3

LEMMA ReplyMapped ==
    ASSUME Few, RefInv, NEW t \in Utask, Reply(t)
    PROVE  RefInv' /\ Mapped
<1> DEFINE r0 == cur[t]
           b  == r0.data
           r1 == IF b = NULL THEN NULL ELSE [r0 EXCEPT !.done = TRUE]
<1>1. /\ r0 # NULL /\ ~r0.done /\ heap' = Signal(b) /\ UNCHANGED <<queue, Left, call>>
      /\ cur' = [cur EXCEPT ![t] = r1]
  BY DEF Reply, Left, Handling
<1>0. PICK e \in Caller : r0.from = e
  BY <1>1 DEF RefInv, Inv, TypeOK, RequestType
<1>2. r0 \in RequestType /\ b \in Buf \cup {NULL}
  BY <1>1 DEF RefInv, Inv, TypeOK, RequestType
<1>3. /\ r1 # NULL => r1.done /\ r1.data = b /\ r1.from = e
      /\ cur'[t] = r1 /\ \A v \in Utask \ {t} : cur'[v] = cur[v]
  BY <1>0, <1>1, <1>2 DEF RequestType, RefInv, Inv, TypeOK
<1>4. Inv' /\ IsFiniteSet(Left')
  BY <1>1, ReplyInv DEF RefInv
<1>5. \A d \in Caller : \A r : (Own(d, r)' <=> Own(d, r)) /\ (Loose(d, r)' <=> Loose(d, r))
  BY <1>1 DEF Own, Loose, Waiting
<1>6. r0 = cur[t] /\ r0.from = e /\ r0.data = b
  BY <1>0
<1> HIDE DEF r0, b, r1
<1>7. ASSUME NEW d \in Caller, ~Own(d, r0) PROVE CarriedOut(d)' <=> CarriedOut(d)
  <2>1. r1 # NULL => ~Own(d, r1)
    BY <1>3, <1>6, <1>7 DEF Own
  <2>2. (\A v \in Utask : cur'[v] # NULL /\ Own(d, cur'[v]) => cur'[v].done)
             <=> (\A v \in Utask : cur[v] # NULL /\ Own(d, cur[v]) => cur[v].done)
    BY <1>3, <1>6, <1>7, <2>1
  <2> QED
    BY <1>1, <1>5, <2>2 DEF CarriedOut, Handling
<1>8. ASSUME NEW d \in Caller, Waiting(d)
      PROVE  /\ heap'[call[d].data].kind = heap[call[d].data].kind
             /\ heap'[call[d].data].sem = 0 => heap[call[d].data].sem = 0
             /\ heap'[call[d].data].sem = 0 /\ CarriedOut(d)' => CarriedOut(d)
  <2>1. /\ heap'[call[d].data].kind = heap[call[d].data].kind
        /\ heap'[call[d].data].sem = 0 =>
                 heap[call[d].data].sem = 0 /\ call[d].data # b
    BY <1>1, <1>2, <1>8, SignalKeeps
  <2>2. call[d].data # b => ~Own(d, r0)
    BY <1>6 DEF Own
  <2> QED
    BY <1>7, <2>1, <2>2
<1>9. RefInv' /\ \A d \in Caller : InLine(d)' = InLine(d)
  BY <1>1, <1>4, <1>8, ServiceStep
<1>10. \A d \in Caller : Laid(d)' = Laid(d)
  BY <1>1, <1>5 DEF Laid
<1>11. \A d \in Caller : AtHand(d)' = AtHand(d) \ {t}
  <2>1. \A d \in Caller : r1 # NULL => ~Loose(d, r1)
    BY <1>3 DEF Loose
  <2> QED
    BY <1>3, <1>5, <2>1 DEF AtHand, Handling
<1>12. \A d \in Caller : t \in AtHand(d) <=> d = e /\ ~Own(e, r0)
  BY <1>1, <1>2, <1>6 DEF AtHand, Handling, Loose, Own
<1>13. ASSUME NEW d \in Caller \ {e} PROVE Same(d)
  <2>1. ~Own(d, r0) /\ AtHand(d)' = AtHand(d)
    BY <1>6, <1>11, <1>12 DEF Own
  <2>2. LooseCount(d)' = LooseCount(d)
    BY <1>9, <1>10, <2>1, Counted3
  <2> QED
    BY <1>1, <1>7, <2>1, <2>2 DEF Same, Mine
<1>14. CASE Own(e, r0)
  <2>1. AtHand(e)' = AtHand(e)
    BY <1>2, <1>11, <1>12, <1>14
  <2>2. LooseCount(e)' = LooseCount(e)
    BY <1>2, <1>9, <1>10, <2>1, Counted3
  <2>3. Waiting(e) /\ ~CarriedOut(e) /\ t \in OwnHand(e)
    BY <1>1, <1>6, <1>14 DEF Own, CarriedOut, Handling, OwnHand
  <2>4. OwnLine(e) = {} /\ OwnLaid(e) = {} /\ \A v \in OwnHand(e) : v = t
    BY <1>2, <2>3, OneOpen
  <2>5. CarriedOut(e)'
    <3>1. \A v \in Utask : \A r \in Range(queue'[v]) : ~Own(e, r)
      <4> SUFFICES ASSUME NEW v \in Utask, NEW i \in DOMAIN queue[v], Own(e, queue[v][i])
                   PROVE  FALSE
        BY <1>1 DEF Range
      <4>1. queue[v] \in Seq(RequestType) /\ Len(queue[v]) <= Depth /\ Depth \in Nat
        BY UServiceAssumption DEF RefInv, Inv, TypeOK
      <4>2. i \in 1..Depth
        BY <4>1
      <4>3. <<v, i>> \in OwnLine(e)
        BY <4>2 DEF OwnLine
      <4> QED
        BY <2>4, <4>3
    <3>2. \A v \in Utask : cur'[v] # NULL /\ Own(e, cur'[v]) => cur'[v].done
      BY <1>3, <2>4 DEF OwnHand, Handling
    <3>3. \A r \in Left' : Own(e, r) => r.done
      BY <1>1, <2>4 DEF OwnLaid
    <3> QED
      BY <1>2, <1>5, <3>1, <3>2, <3>3 DEF CarriedOut, Handling
  <2>6. Goes(e, "waiting", "carried out")
    BY <1>1, <2>2, <2>3, <2>5 DEF Goes, Mine, Waiting
  <2> QED
    BY <1>2, <1>9, <1>13, <2>6, Steps DEF Change
<1>15. CASE ~Own(e, r0)
  <2>1. LooseCount(e) > 0 /\ LooseCount(e)' = LooseCount(e) - 1
    BY <1>2, <1>9, <1>10, <1>11, <1>12, <1>15, Counted3
  <2>2. LoosesOne(e)
    BY <1>1, <1>2, <1>7, <1>15, <2>1 DEF LoosesOne, Mine
  <2> QED
    BY <1>2, <1>9, <1>13, <2>2, Steps DEF Change
<1> QED
  BY <1>14, <1>15

LEMMA ReplyDeinitMapped ==
    ASSUME Few, RefInv, NEW t \in Utask, ReplyDeinit(t)
    PROVE  RefInv' /\ Mapped
<1> DEFINE r0 == cur[t]
           b  == r0.data
<1>1. /\ r0 # NULL /\ r0.done /\ heap' = RpcDeinit(b) /\ UNCHANGED <<queue, Left, call>>
      /\ cur' = [cur EXCEPT ![t] = NULL]
  BY DEF ReplyDeinit, Left, Handling
<1>2. b \in Buf \cup {NULL} /\ (b \in Buf => AtService(b))
  BY <1>1 DEF RefInv, Inv, TypeOK, RequestType, AtService, InCur
<1>3. cur'[t] = NULL /\ \A v \in Utask \ {t} : cur'[v] = cur[v]
  BY <1>1 DEF RefInv, Inv, TypeOK
<1>4. r0 = cur[t]
  OBVIOUS
<1> HIDE DEF r0, b
<1>5. Inv' /\ IsFiniteSet(Left')
  BY <1>1, ReplyDeinitInv DEF RefInv
<1>6. \A d \in Caller : \A r : (Own(d, r)' <=> Own(d, r)) /\ (Loose(d, r)' <=> Loose(d, r))
  BY <1>1 DEF Own, Loose, Waiting
<1>7. \A d \in Caller : CarriedOut(d)' <=> CarriedOut(d)
  <2> TAKE d \in Caller
  <2>1. (\A v \in Utask : cur'[v] # NULL /\ Own(d, cur'[v]) => cur'[v].done)
             <=> (\A v \in Utask : cur[v] # NULL /\ Own(d, cur[v]) => cur[v].done)
    BY <1>1, <1>3, <1>4
  <2> QED
    BY <1>1, <1>6, <2>1 DEF CarriedOut, Handling
<1>8. ASSUME NEW d \in Caller, Waiting(d)
      PROVE  /\ heap'[call[d].data].kind = heap[call[d].data].kind
             /\ heap'[call[d].data].sem = 0 => heap[call[d].data].sem = 0
             /\ heap'[call[d].data].sem = 0 /\ CarriedOut(d)' => CarriedOut(d)
  BY <1>1, <1>2, <1>7, <1>8, DeinitKeeps
<1>9. RefInv' /\ \A d \in Caller : InLine(d)' = InLine(d)
  BY <1>1, <1>5, <1>8, ServiceStep
<1>10. \A d \in Caller : Laid(d)' = Laid(d) /\ AtHand(d)' = AtHand(d)
  BY <1>1, <1>3, <1>4, <1>6 DEF Laid, AtHand, Handling, Loose
<1>11. \A d \in Caller : Same(d)
  BY <1>1, <1>7, <1>9, <1>10, Counted3 DEF Same, Mine
<1> QED
  BY <1>9, <1>11, Stutters

LEMMA KeepMapped ==
    ASSUME Few, RefInv, NEW t \in Utask, Keep(t) \/ Drop(t)
    PROVE  RefInv' /\ Mapped
<1> DEFINE r0 == cur[t]
           b  == r0.data
<1>1. /\ r0 # NULL /\ ~r0.done /\ UNCHANGED <<heap, queue, call>>
      /\ Left' = IF b = NULL THEN Left ELSE Left \cup {r0}
      /\ cur' = [cur EXCEPT ![t] = NULL]
  BY DEF Keep, Drop, Left, Handling
<1>0. PICK e \in Caller : r0.from = e
  BY <1>1 DEF RefInv, Inv, TypeOK, RequestType
<1>2. b \in Buf \cup {NULL} /\ (b \in Buf => r0 \notin Left)
  <2>1. b \in Buf \cup {NULL}
    BY <1>1 DEF RefInv, Inv, TypeOK, RequestType
  <2>2. b \in Buf => InCur(b)
    BY <1>1 DEF InCur
  <2>3. r0 \in Left => InKept(b)
    BY DEF InKept
  <2> QED
    BY <2>1, <2>2, <2>3 DEF RefInv, Inv, Apart, PlacesApart
<1>3. cur'[t] = NULL /\ \A v \in Utask \ {t} : cur'[v] = cur[v]
  BY <1>1 DEF RefInv, Inv, TypeOK
<1>4. r0 = cur[t] /\ r0.from = e /\ r0.data = b
  BY <1>0
<1> HIDE DEF r0, b
<1>5. Inv' /\ IsFiniteSet(Left')
  <2>1. IsFiniteSet(Left \cup {r0})
    BY FS_AddElement DEF RefInv
  <2> QED
    BY <1>1, <2>1, KeepInv DEF RefInv
<1>6. \A d \in Caller : \A r : (Own(d, r)' <=> Own(d, r)) /\ (Loose(d, r)' <=> Loose(d, r))
  BY <1>1 DEF Own, Loose, Waiting
<1>7. \A d \in Caller : b = NULL => ~Own(d, r0)
  BY <1>4, UServiceAssumption DEF Own, RefInv, Inv, Underway, Waiting
<1>8. \A d \in Caller : CarriedOut(d)' <=> CarriedOut(d)
  <2> TAKE d \in Caller
  <2>1. /\ \A v \in Utask : cur'[v] # NULL /\ Own(d, cur'[v]) => cur'[v].done
        /\ \A r \in Left' : Own(d, r) => r.done
        <=> /\ \A v \in Utask : cur[v] # NULL /\ Own(d, cur[v]) => cur[v].done
            /\ \A r \in Left : Own(d, r) => r.done
    BY <1>1, <1>3, <1>4, <1>7
  <2> QED
    BY <1>1, <1>6, <2>1 DEF CarriedOut, Handling
<1>9. RefInv' /\ \A d \in Caller : InLine(d)' = InLine(d)
  BY <1>1, <1>5, <1>8, ServiceStep
<1>10. \A d \in Caller : AtHand(d)' = AtHand(d) \ {t}
  BY <1>3, <1>6 DEF AtHand, Handling
<1>11. \A d \in Caller : t \in AtHand(d) <=> d = e /\ ~Own(e, r0)
  BY <1>1, <1>4 DEF AtHand, Handling, Loose, Own
<1>12. \A d \in Caller : Mine(d)' = Mine(d) /\ call'[d].ret = call[d].ret
  BY <1>1, <1>8 DEF Mine
<1>13. ASSUME NEW d \in Caller, d # e \/ Own(e, r0) PROVE Same(d)
  <2>1. ~Loose(d, r0) /\ AtHand(d)' = AtHand(d)
    BY <1>4, <1>10, <1>11, <1>13 DEF Loose
  <2>2. Laid(d)' = Laid(d)
    BY <1>1, <1>6, <2>1 DEF Laid
  <2>3. LooseCount(d)' = LooseCount(d)
    BY <1>9, <2>1, <2>2, Counted3
  <2> QED
    BY <1>12, <2>3 DEF Same
<1>14. CASE Own(e, r0)
  BY <1>9, <1>13, <1>14, Stutters
<1>15. CASE ~Own(e, r0) /\ b = NULL
  <2>1. Laid(e)' = Laid(e)
    BY <1>1, <1>6, <1>15 DEF Laid
  <2>2. LooseCount(e) > 0 /\ LooseCount(e)' = LooseCount(e) - 1
    BY <1>9, <1>10, <1>11, <1>15, <2>1, Counted3
  <2>3. LoosesOne(e)
    BY <1>12, <2>2 DEF LoosesOne
  <2> QED
    BY <1>9, <1>13, <2>3, Steps DEF Change
<1>16. CASE ~Own(e, r0) /\ b # NULL
  <2>1. Loose(e, r0) /\ r0 \notin Laid(e)
    BY <1>1, <1>2, <1>4, <1>16 DEF Loose, Laid
  <2>2. Laid(e)' = Laid(e) \cup {r0}
    BY <1>1, <1>6, <1>16, <2>1 DEF Laid
  <2>3. LooseCount(e)' = LooseCount(e)
    BY <1>9, <1>10, <1>11, <1>16, <2>1, <2>2, Counted3
  <2>4. Same(e)
    BY <1>12, <2>3 DEF Same
  <2> QED
    BY <1>9, <1>13, <2>4, Stutters
<1> QED
  BY <1>14, <1>15, <1>16

LEMMA KeptReplyMapped ==
    ASSUME Few, RefInv, OnceLeft, NEW r0 \in kept, KeptReply(r0)
    PROVE  RefInv' /\ Mapped
<1> r0 \in Left
  BY DEF Left
<1> DEFINE b  == r0.data
           r1 == [r0 EXCEPT !.done = TRUE]
<1>1. /\ ~r0.done /\ heap' = Signal(b) /\ UNCHANGED <<queue, cur, call>>
      /\ Left' = (Left \ {r0}) \cup {r1}
  BY DEF KeptReply, OnceLeft, Left
<1>0. PICK e \in Caller : r0.from = e
  BY DEF RefInv, Inv, TypeOK, RequestType
<1>2. r0 \in RequestType /\ b \in Buf \cup {NULL}
  BY DEF RefInv, Inv, TypeOK, RequestType
<1>3. r1.done /\ r1.data = b /\ r1.from = e
  BY <1>0, <1>2 DEF RequestType
<1>4. r0.data = b
  OBVIOUS
<1> HIDE DEF b, r1
<1>5. Inv' /\ IsFiniteSet(Left')
  <2>1. IsFiniteSet(Left \ {r0})
    BY FS_RemoveElement DEF RefInv
  <2>2. IsFiniteSet((Left \ {r0}) \cup {r1})
    BY <2>1, FS_AddElement
  <2> QED
    BY <1>1, <2>2, KeptReplyInv DEF RefInv
<1>6. \A d \in Caller : \A r : (Own(d, r)' <=> Own(d, r)) /\ (Loose(d, r)' <=> Loose(d, r))
  BY <1>1 DEF Own, Loose, Waiting
<1>7. ASSUME NEW d \in Caller, ~Own(d, r0) PROVE CarriedOut(d)' <=> CarriedOut(d)
  <2>1. (\A r \in Left' : Own(d, r) => r.done) <=> (\A r \in Left : Own(d, r) => r.done)
    BY <1>1, <1>3, <1>7
  <2> QED
    BY <1>1, <1>6, <2>1 DEF CarriedOut, Handling
<1>8. ASSUME NEW d \in Caller, Waiting(d)
      PROVE  /\ heap'[call[d].data].kind = heap[call[d].data].kind
             /\ heap'[call[d].data].sem = 0 => heap[call[d].data].sem = 0
             /\ heap'[call[d].data].sem = 0 /\ CarriedOut(d)' => CarriedOut(d)
  <2>1. /\ heap'[call[d].data].kind = heap[call[d].data].kind
        /\ heap'[call[d].data].sem = 0 =>
                 heap[call[d].data].sem = 0 /\ call[d].data # b
    BY <1>1, <1>2, <1>8, SignalKeeps
  <2>2. call[d].data # b => ~Own(d, r0)
    BY <1>4 DEF Own
  <2> QED
    BY <1>7, <2>1, <2>2
<1>9. RefInv' /\ \A d \in Caller : InLine(d)' = InLine(d)
  BY <1>1, <1>5, <1>8, ServiceStep
<1>10. \A d \in Caller : AtHand(d)' = AtHand(d)
  BY <1>1, <1>6 DEF AtHand, Handling
<1>11. \A d \in Caller : Laid(d)' = Laid(d) \ {r0}
  <2>1. \A d \in Caller : ~Loose(d, r1)
    BY <1>3 DEF Loose
  <2> QED
    BY <1>1, <1>6, <2>1 DEF Laid
<1>12. \A d \in Caller : r0 \in Laid(d) <=> d = e /\ ~Own(e, r0)
  BY <1>0, <1>1 DEF Laid, Loose, Own
<1>13. ASSUME NEW d \in Caller \ {e} PROVE Same(d)
  <2>1. ~Own(d, r0) /\ Laid(d)' = Laid(d)
    BY <1>0, <1>11, <1>12 DEF Own
  <2>2. LooseCount(d)' = LooseCount(d)
    BY <1>9, <1>10, <2>1, Counted3
  <2> QED
    BY <1>1, <1>7, <2>1, <2>2 DEF Same, Mine
<1>14. CASE Own(e, r0)
  <2>1. Laid(e)' = Laid(e)
    BY <1>11, <1>12, <1>14
  <2>2. LooseCount(e)' = LooseCount(e)
    BY <1>9, <1>10, <2>1, Counted3
  <2>3. Waiting(e) /\ ~CarriedOut(e) /\ r0 \in OwnLaid(e)
    BY <1>1, <1>14 DEF Own, CarriedOut, OwnLaid
  <2>4. OwnLine(e) = {} /\ OwnHand(e) = {} /\ \A r \in OwnLaid(e) : r = r0
    BY <2>3, OneOpen
  <2>5. CarriedOut(e)'
    <3>1. \A v \in Utask : \A r \in Range(queue'[v]) : ~Own(e, r)
      <4> SUFFICES ASSUME NEW v \in Utask, NEW i \in DOMAIN queue[v], Own(e, queue[v][i])
                   PROVE  FALSE
        BY <1>1 DEF Range
      <4>1. queue[v] \in Seq(RequestType) /\ Len(queue[v]) <= Depth /\ Depth \in Nat
        BY UServiceAssumption DEF RefInv, Inv, TypeOK
      <4>2. i \in 1..Depth
        BY <4>1
      <4>3. <<v, i>> \in OwnLine(e)
        BY <4>2 DEF OwnLine
      <4> QED
        BY <2>4, <4>3
    <3>2. \A v \in Utask : cur'[v] # NULL /\ Own(e, cur'[v]) => cur'[v].done
      BY <1>1, <2>4 DEF OwnHand, Handling
    <3>3. \A r \in Left' : Own(e, r) => r.done
      BY <1>1, <1>3, <2>4 DEF OwnLaid
    <3> QED
      BY <1>6, <3>1, <3>2, <3>3 DEF CarriedOut, Handling
  <2>6. Goes(e, "waiting", "carried out")
    BY <1>1, <2>2, <2>3, <2>5 DEF Goes, Mine, Waiting
  <2> QED
    BY <1>9, <1>13, <2>6, Steps DEF Change
<1>15. CASE ~Own(e, r0)
  <2>1. LooseCount(e) > 0 /\ LooseCount(e)' = LooseCount(e) - 1
    BY <1>9, <1>10, <1>11, <1>12, <1>15, Counted3
  <2>2. LoosesOne(e)
    BY <1>1, <1>7, <1>15, <2>1 DEF LoosesOne, Mine
  <2> QED
    BY <1>9, <1>13, <2>2, Steps DEF Change
<1> QED
  BY <1>14, <1>15

LEMMA KeptDeinitMapped ==
    ASSUME Few, RefInv, OnceLeft, NEW r0 \in kept, KeptDeinit(r0)
    PROVE  RefInv' /\ Mapped
<1> r0 \in Left
  BY DEF Left
<1> DEFINE b == r0.data
<1>1. /\ r0.done /\ heap' = RpcDeinit(b) /\ UNCHANGED <<queue, cur, call>>
      /\ Left' = Left \ {r0}
  BY DEF KeptDeinit, OnceLeft, Left
<1>2. b \in Buf \cup {NULL} /\ (b \in Buf => AtService(b))
  BY DEF RefInv, Inv, TypeOK, RequestType, AtService, InKept
<1> HIDE DEF b
<1>3. Inv' /\ IsFiniteSet(Left')
  <2>1. IsFiniteSet(Left \ {r0})
    BY FS_RemoveElement DEF RefInv
  <2> QED
    BY <1>1, <2>1, KeptDeinitInv DEF RefInv
<1>4. \A d \in Caller : \A r : (Own(d, r)' <=> Own(d, r)) /\ (Loose(d, r)' <=> Loose(d, r))
  BY <1>1 DEF Own, Loose, Waiting
<1>5. \A d \in Caller : CarriedOut(d)' <=> CarriedOut(d)
  BY <1>1, <1>4 DEF CarriedOut, Handling
<1>6. ASSUME NEW d \in Caller, Waiting(d)
      PROVE  /\ heap'[call[d].data].kind = heap[call[d].data].kind
             /\ heap'[call[d].data].sem = 0 => heap[call[d].data].sem = 0
             /\ heap'[call[d].data].sem = 0 /\ CarriedOut(d)' => CarriedOut(d)
  BY <1>1, <1>2, <1>5, <1>6, DeinitKeeps
<1>7. RefInv' /\ \A d \in Caller : InLine(d)' = InLine(d)
  BY <1>1, <1>3, <1>6, ServiceStep
<1>8. \A d \in Caller : Laid(d)' = Laid(d) /\ AtHand(d)' = AtHand(d)
  BY <1>1, <1>4 DEF Laid, AtHand, Handling, Loose
<1>9. \A d \in Caller : Same(d)
  BY <1>1, <1>5, <1>7, <1>8, Counted3 DEF Same, Mine
<1> QED
  BY <1>7, <1>9, Stutters

-----------------------------------------------------------------------------
LEMMA InitMapped == Few /\ Init => RefInv /\ Abstract!Init
<1> SUFFICES ASSUME Few, Init PROVE RefInv /\ Abstract!Init
  OBVIOUS
<1>1. Inv
  BY InitInv
<1>2. /\ Left = {} /\ \A c \in Caller : call[c] = NoCall
      /\ \A t \in Utask : queue[t] = <<>> /\ cur[t] = NULL
  BY DEF Init, Left
<1>3. RefInv
  <2>1. IsFiniteSet(Left)
    BY <1>2, FS_EmptySet
  <2>2. Fresh /\ Told /\ \A c \in Caller : Attended(c)
    BY <1>2 DEF Fresh, Told, Attended, Waiting, NoCall
  <2> QED
    BY <1>1, <2>1, <2>2 DEF RefInv
<1>4. ASSUME NEW c \in Caller
      PROVE  Mine(c) = "none" /\ LooseCount(c) = 0 /\ call[c].ret = "none"
  <2>1. InLine(c) = {} /\ AtHand(c) = {} /\ Laid(c) = {}
    BY <1>2 DEF InLine, AtHand, Laid, Handling
  <2>2. LooseCount(c) = Cardinality(InLine(c)) + Cardinality(AtHand(c)) + Cardinality(Laid(c))
    BY DEF LooseCount, InLine, AtHand, Laid
  <2>3. LooseCount(c) = 0
    BY <2>1, <2>2, FS_EmptySet
  <2> QED
    BY <1>2, <2>3 DEF Mine, NoCall
<1> QED
  BY <1>3, <1>4 DEF Abstract!Init

LEMMA NothingMapped ==
    ASSUME RefInv, UNCHANGED <<heap, queue, cur, Left, call>>
    PROVE  RefInv' /\ Mapped
<1>1. Inv'
  BY NothingMoves DEF RefInv
<1>2. \A d \in Caller : (Waiting(d)' <=> Waiting(d)) /\ call'[d].data = call[d].data
  BY DEF Waiting
<1>3. \A d \in Caller : /\ LooseCount(d)' = LooseCount(d)
                        /\ CarriedOut(d)' <=> CarriedOut(d)
  BY <1>2, Quiet
<1>4. \A d \in Caller : Same(d)
  BY <1>3 DEF Same, Mine
<1>5. Fresh' /\ Told' /\ \A d \in Caller : Attended(d)'
  BY <1>2, <1>3 DEF RefInv, Fresh, Told, Attended, HasSem
<1> QED
  BY <1>1, <1>4, <1>5, Stutters DEF RefInv

LEMMA ForgetMapped ==
    ASSUME RefInv, NEW r \in kept, Forget(r)
    PROVE  RefInv' /\ Mapped
<1>1. UNCHANGED <<heap, queue, cur, Left, call>>
  BY DEF Forget, Left
<1> QED
  BY <1>1, NothingMapped

LEMMA NextMapped == Few /\ RefInv /\ OnceLeft /\ [Next]_vars => RefInv' /\ Mapped
<1> SUFFICES ASSUME Few, RefInv, OnceLeft, [Next]_vars PROVE RefInv' /\ Mapped
  OBVIOUS
<1>1. CASE UNCHANGED vars
  <2>1. UNCHANGED <<heap, queue, cur, Left, call>>
    BY <1>1 DEF vars, Left
  <2> QED
    BY <2>1, NothingMapped
<1>2. CASE Next
  <2>1. ASSUME NEW c \in Caller, NEW t \in Utask, NEW k \in Kind,
               Begin(c, t, k) \/ BeginNoMem(c, t, k)
        PROVE  RefInv' /\ Mapped
    BY <2>1, BeginMapped, BeginNoMemMapped
  <2>2. ASSUME NEW c \in Caller, CallStep(c)
        PROVE  RefInv' /\ Mapped
    BY <2>2, SendMapped, SendFullMapped, AnsweredMapped, TimedOutMapped, ReturnMapped DEF CallStep
  <2>3. ASSUME NEW t \in Utask, Recv(t) \/ Reply(t) \/ ReplyDeinit(t) \/ Keep(t) \/ Drop(t)
        PROVE  RefInv' /\ Mapped
    BY <2>3, RecvMapped, ReplyMapped, ReplyDeinitMapped, KeepMapped
  <2>4. ASSUME NEW r \in kept, KeptReply(r) \/ KeptDeinit(r) \/ Forget(r)
        PROVE  RefInv' /\ Mapped
    BY <2>4, KeptReplyMapped, KeptDeinitMapped, ForgetMapped
  <2> QED
    BY <1>2, <2>1, <2>2, <2>3, <2>4 DEF Next
<1> QED
  BY <1>1, <1>2

(* Calls implement CallSpec, for any finite set of service tasks: an       *)
(* answer reaches the caller that waits for it and no other, "ok" is only  *)
(* returned for a request that was carried out, and what was refused is    *)
(* never carried out.                                                      *)
THEOREM CallsImplement == ASSUME Few PROVE Spec => CallsKept
<1>1. Init => RefInv /\ Abstract!Init
  BY InitMapped
<1>2. RefInv /\ OnceLeft /\ [Next]_vars => RefInv' /\ [Abstract!Next]_(Abstract!vars)
  BY NextMapped DEF Mapped
<1> QED
  BY <1>1, <1>2, InvAlways, PTL DEF Spec, CallsKept, Abstract!Spec
=============================================================================
