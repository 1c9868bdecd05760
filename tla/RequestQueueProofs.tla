------------------------- MODULE RequestQueueProofs -------------------------
(***************************************************************************)
(* Proofs about RequestQueue for any number of clients and workers and any  *)
(* size of the ring: its types, the mutual exclusion of queue_mutex, and     *)
(* that the ring implements the queue of ClientFifo.                         *)
(***************************************************************************)
EXTENDS RequestQueue, TLAPS, SequenceTheorems, FiniteSetTheorems

\* The mutex belongs to the thread, if any, that is between lock and unlock,
\* and a condition's waiters are the threads that sleep on it.
LockInv ==
    /\ \A t \in Threads : pc[t] \in CriticalLocs <=> mutex = t
    /\ \A w \in Workers : w \in notEmpty <=> pc[w] = "waiting"
    /\ Main \in notFull <=> pc[Main] = "waiting"

\* The occupied slots are the `count` ones from front on, they hold requests,
\* and a thread past its check still finds room, or something to take.
RingInv ==
    /\ rear = (front + count) % Size
    /\ \A k \in 0 .. count - 1 : queue[(front + k) % Size] \in Fds
    /\ pc[Main] = "put" => count < Size
    /\ \A w \in Workers : pc[w] = "get" => count > 0

\* The requests in hand are real ones, and what main is about to queue is its own.
HandInv ==
    /\ pc[Main] # "accept" => new \in Fds
    /\ new \in Clients => new \in accepted
    /\ \A w \in Workers : pc[w] \in {"signal", "unlock", "serve"} => request[w] \in Fds

IInv == TypeOK /\ LockInv /\ RingInv /\ HandInv

-----------------------------------------------------------------------------
\* The ring's arithmetic: an index less than two turns away wraps once.
LEMMA ModTurn ==
    ASSUME NEW a \in 0 .. 2 * Size - 1
    PROVE  a % Size = IF a < Size THEN a ELSE a - Size
<1>1. Size \in Nat \ {0}
  BY SizeAssumption
<1>2. CASE a < Size
  BY <1>1, <1>2, SMT
<1>3. CASE a >= Size
  <2>1. a - Size \in 0 .. Size - 1
    BY <1>1, <1>3
  <2>2. a = Size * 1 + (a - Size)
    BY <1>1
  <2> QED
    BY <1>1, <1>3, <2>1, <2>2, SMT
<1> QED
  BY <1>1, <1>2, <1>3

LEMMA NextSlotType == \A s \in Slots : NextSlot(s) \in Slots
  BY SizeAssumption, ModTurn DEF Slots, NextSlot

LEMMA InitInv == Init => IInv
<1> SUFFICES ASSUME Init PROVE IInv
  OBVIOUS
<1> USE SizeAssumption, ThreadsAssumption, FdsAssumption DEF Init
<1>1. TypeOK
  BY DEF TypeOK, Threads, MainLocs, WorkerLocs, Slots, Fds
<1>2. LockInv
  BY DEF LockInv, CriticalLocs, Threads
<1>3. RingInv
  <2>1. (0 + 0) % Size = 0
    BY ModTurn
  <2> QED
    BY <2>1 DEF RingInv, Threads
<1>4. HandInv
  BY DEF HandInv, Threads
<1> QED
  BY <1>1, <1>2, <1>3, <1>4 DEF IInv

-----------------------------------------------------------------------------
\* Where a signal can send the threads: its caller unlocks next, and of the
\* waiters at most one wakes, to take the mutex again.
LEMMA SignalEffect ==
    ASSUME NEW t, NEW waiters, NEW left, Signal(t, waiters, left)
    PROVE  \/ waiters = {} /\ left = {} /\ pc' = [pc EXCEPT ![t] = "unlock"]
           \/ \E u \in waiters : /\ left = waiters \ {u}
                                 /\ pc' = [pc EXCEPT ![t] = "unlock", ![u] = "lock"]
  BY DEF Signal, Goto, Woken

LEMMA TypeStep == IInv /\ [Next]_vars => TypeOK'
<1> SUFFICES ASSUME IInv, [Next]_vars PROVE TypeOK'
  OBVIOUS
<1> USE SizeAssumption, ThreadsAssumption
    DEF IInv, TypeOK, Threads, Fds, MainLocs, WorkerLocs, Goto
<1>1. ASSUME NEW c \in Fds, Accept(c) PROVE TypeOK'
  BY <1>1 DEF Accept, ringVars
<1>2. ASSUME NEW t \in Threads, Lock(t) PROVE TypeOK'
  BY <1>2 DEF Lock, ringVars
<1>3. CASE MainCheck
  BY <1>3 DEF MainCheck, ringVars
<1>4. CASE Put
  <2>1. count < Size
    BY <1>4 DEF Put, RingInv
  <2> QED
    BY <1>4, <2>1, NextSlotType DEF Put
<1>5. CASE SignalNotEmpty
  BY <1>5, SignalEffect DEF SignalNotEmpty, ringVars
<1>6. ASSUME NEW t \in Threads, Unlock(t) PROVE TypeOK'
  BY <1>6 DEF Unlock, ringVars
<1>7. ASSUME NEW w \in Workers, WorkerCheck(w) PROVE TypeOK'
  BY <1>7 DEF WorkerCheck, ringVars
<1>8. ASSUME NEW w \in Workers, Get(w) PROVE TypeOK'
  <2>1. count > 0
    BY <1>8 DEF Get, RingInv
  <2> QED
    BY <1>8, <2>1, NextSlotType DEF Get
<1>9. ASSUME NEW w \in Workers, SignalNotFull(w) PROVE TypeOK'
  BY <1>9, SignalEffect DEF SignalNotFull, ringVars
<1>10. ASSUME NEW w \in Workers, Serve(w) PROVE TypeOK'
  BY <1>10 DEF Serve, ringVars
<1>11. ASSUME NEW t \in Threads, SpuriousWakeup(t) PROVE TypeOK'
  BY <1>11 DEF SpuriousWakeup, ringVars, Woken
<1>12. CASE UNCHANGED vars
  BY <1>12 DEF vars, ringVars
<1> QED
  BY <1>1, <1>2, <1>3, <1>4, <1>5, <1>6, <1>7, <1>8, <1>9, <1>10, <1>11, <1>12
     DEF Next, MainStep, WorkerStep

LEMMA LockStep == IInv /\ [Next]_vars => LockInv'
<1> SUFFICES ASSUME IInv, [Next]_vars PROVE LockInv'
  OBVIOUS
<1> USE ThreadsAssumption DEF IInv, TypeOK, LockInv, Threads, CriticalLocs, Goto
<1>1. ASSUME NEW c \in Fds, Accept(c) PROVE LockInv'
  BY <1>1 DEF Accept
<1>2. ASSUME NEW t \in Threads, Lock(t) PROVE LockInv'
  BY <1>2 DEF Lock
<1>3. CASE MainCheck
  BY <1>3 DEF MainCheck
<1>4. CASE Put
  BY <1>4 DEF Put
<1>5. CASE SignalNotEmpty
  BY <1>5, SignalEffect DEF SignalNotEmpty
<1>6. ASSUME NEW t \in Threads, Unlock(t) PROVE LockInv'
  BY <1>6 DEF Unlock
<1>7. ASSUME NEW w \in Workers, WorkerCheck(w) PROVE LockInv'
  BY <1>7 DEF WorkerCheck
<1>8. ASSUME NEW w \in Workers, Get(w) PROVE LockInv'
  BY <1>8 DEF Get
<1>9. ASSUME NEW w \in Workers, SignalNotFull(w) PROVE LockInv'
  BY <1>9, SignalEffect DEF SignalNotFull
<1>10. ASSUME NEW w \in Workers, Serve(w) PROVE LockInv'
  BY <1>10 DEF Serve
<1>11. ASSUME NEW t \in Threads, SpuriousWakeup(t) PROVE LockInv'
  BY <1>11 DEF SpuriousWakeup, Woken
<1>12. CASE UNCHANGED vars
  BY <1>12 DEF vars
<1> QED
  BY <1>1, <1>2, <1>3, <1>4, <1>5, <1>6, <1>7, <1>8, <1>9, <1>10, <1>11, <1>12
     DEF Next, MainStep, WorkerStep

-----------------------------------------------------------------------------
\* Position k of the ring, counted from front: advancing front by one makes
\* position k + 1 the new position k.
LEMMA NextPosition ==
    ASSUME NEW f \in Slots, NEW k \in 0 .. Size - 1
    PROVE  /\ (f + k) % Size \in Slots
           /\ NextSlot((f + k) % Size) = (f + (k + 1)) % Size
           /\ (NextSlot(f) + k) % Size = (f + (k + 1)) % Size
<1> USE SizeAssumption DEF Slots, NextSlot
<1>1. f + k \in 0 .. 2 * Size - 1 /\ f + 1 \in 0 .. 2 * Size - 1
  OBVIOUS
<1>2. (f + k) % Size = IF f + k < Size THEN f + k ELSE f + k - Size
  BY <1>1, ModTurn
<1>3. (f + 1) % Size = IF f + 1 < Size THEN f + 1 ELSE f + 1 - Size
  BY <1>1, ModTurn
<1>4. CASE f + k + 1 <= 2 * Size - 1
  <2>1. f + (k + 1) \in 0 .. 2 * Size - 1 /\ ((f + 1) % Size) + k \in 0 .. 2 * Size - 1
        /\ ((f + k) % Size) + 1 \in 0 .. 2 * Size - 1
    BY <1>2, <1>3, <1>4
  <2>2. (f + (k + 1)) % Size = IF f + (k + 1) < Size THEN f + (k + 1) ELSE f + (k + 1) - Size
    <3> DEFINE a == f + (k + 1)
    <3>1. a \in 0 .. 2 * Size - 1
      BY <2>1
    <3> HIDE DEF a
    <3>2. a % Size = IF a < Size THEN a ELSE a - Size
      BY <3>1, ModTurn
    <3> QED
      BY <3>2 DEF a
  <2>3. (((f + 1) % Size) + k) % Size = IF ((f + 1) % Size) + k < Size THEN ((f + 1) % Size) + k
                                      ELSE ((f + 1) % Size) + k - Size
    BY <2>1, ModTurn
  <2>4. (((f + k) % Size) + 1) % Size = IF ((f + k) % Size) + 1 < Size THEN ((f + k) % Size) + 1
                                      ELSE ((f + k) % Size) + 1 - Size
    BY <2>1, ModTurn
  <2> QED
    BY <1>2, <1>3, <2>1, <2>2, <2>3, <2>4
<1> QED
  BY <1>1, <1>2, <1>4

\* Two positions of the ring that are less than a turn apart are different slots.
LEMMA PositionsDiffer ==
    ASSUME NEW f \in Slots, NEW j \in 0 .. Size - 1, NEW k \in 0 .. Size - 1, j # k
    PROVE  (f + j) % Size # (f + k) % Size
<1>1. f + j \in 0 .. 2 * Size - 1 /\ f + k \in 0 .. 2 * Size - 1
  BY SizeAssumption DEF Slots
<1>2. (f + j) % Size = IF f + j < Size THEN f + j ELSE f + j - Size
  BY <1>1, ModTurn, SizeAssumption DEF Slots
<1>3. (f + k) % Size = IF f + k < Size THEN f + k ELSE f + k - Size
  BY <1>1, ModTurn, SizeAssumption DEF Slots
<1> QED
  BY <1>2, <1>3, SizeAssumption DEF Slots

\* A put fills the position after the last, and leaves the others alone.
LEMMA PutEffect ==
    ASSUME TypeOK, RingInv, Put
    PROVE  /\ count < Size /\ count' = count + 1 /\ front' = front
           /\ rear' = (front' + count') % Size
           /\ queue'[(front + count) % Size] = new
           /\ \A k \in 0 .. count - 1 :
                queue'[(front + k) % Size] = queue[(front + k) % Size]
<1> USE SizeAssumption
<1>1. count < Size /\ count \in 0 .. Size - 1 /\ front \in Slots /\ rear = (front + count) % Size
  BY DEF TypeOK, RingInv, Put
<1>2. rear' = (front + (count + 1)) % Size
  BY <1>1, NextPosition DEF Put
<1>3. ASSUME NEW k \in 0 .. count - 1
      PROVE  queue'[(front + k) % Size] = queue[(front + k) % Size]
  <2>1. k \in 0 .. Size - 1 /\ k # count
    BY <1>1
  <2>2. (front + k) % Size # rear /\ (front + k) % Size \in Slots
    BY <1>1, <2>1, PositionsDiffer, NextPosition
  <2> QED
    BY <2>2 DEF Put, TypeOK
<1>4. queue'[(front + count) % Size] = new
  BY <1>1 DEF Put, TypeOK
<1> QED
  BY <1>1, <1>2, <1>3, <1>4 DEF Put

\* A get takes position 0; every other position moves down by one.
LEMMA GetEffect ==
    ASSUME TypeOK, RingInv, NEW w \in Workers, Get(w)
    PROVE  /\ count > 0 /\ count' = count - 1 /\ queue' = queue
           /\ queue[front] = queue[(front + 0) % Size]
           /\ rear' = (front' + count') % Size
           /\ \A k \in 0 .. count - 2 : (front' + k) % Size = (front + (k + 1)) % Size
<1> USE SizeAssumption
<1>1. count > 0 /\ count \in 0 .. Size /\ front \in Slots /\ rear = (front + count) % Size
  BY DEF TypeOK, RingInv, Get
<1>2. \A k \in 0 .. Size - 1 : (front' + k) % Size = (front + (k + 1)) % Size
  BY <1>1, NextPosition DEF Get
<1>3. (front + 0) % Size = front
  BY <1>1, ModTurn DEF Slots
<1>4. rear' = (front' + count') % Size
  <2>1. count - 1 \in 0 .. Size - 1 /\ (count - 1) + 1 = count
    BY <1>1
  <2> QED
    BY <1>1, <1>2, <2>1 DEF Get
<1>5. \A k \in 0 .. count - 2 : k \in 0 .. Size - 1
  BY <1>1
<1> QED
  BY <1>1, <1>2, <1>3, <1>4, <1>5 DEF Get

LEMMA RingStep == IInv /\ [Next]_vars => RingInv'
<1> SUFFICES ASSUME IInv, [Next]_vars PROVE RingInv'
  OBVIOUS
<1> USE ThreadsAssumption DEF IInv, TypeOK, RingInv, Threads, Goto
<1>1. ASSUME NEW c \in Fds, Accept(c) PROVE RingInv'
  BY <1>1 DEF Accept, ringVars
<1>2. ASSUME NEW t \in Threads, Lock(t) PROVE RingInv'
  BY <1>2 DEF Lock, ringVars
<1>3. CASE MainCheck
  BY <1>3, SizeAssumption DEF MainCheck, ringVars
<1>4. CASE Put
  <2>1. new \in Fds
    BY <1>4 DEF Put, HandInv
  <2>2. \A w \in Workers : pc'[w] # "get"
    BY <1>4 DEF Put, LockInv, CriticalLocs
  <2>3. \A k \in 0 .. count' - 1 : queue'[(front' + k) % Size] \in Fds
    BY <1>4, <2>1, PutEffect
  <2>4. pc'[Main] = "signal"
    BY <1>4 DEF Put
  <2> QED
    BY <1>4, <2>2, <2>3, <2>4, PutEffect
<1>5. CASE SignalNotEmpty
  BY <1>5, SignalEffect DEF SignalNotEmpty, ringVars
<1>6. ASSUME NEW t \in Threads, Unlock(t) PROVE RingInv'
  BY <1>6 DEF Unlock, ringVars
<1>7. ASSUME NEW w \in Workers, WorkerCheck(w) PROVE RingInv'
  BY <1>7 DEF WorkerCheck, ringVars
<1>8. ASSUME NEW w \in Workers, Get(w) PROVE RingInv'
  <2>1. pc'[Main] # "put" /\ \A u \in Workers : pc'[u] # "get"
    BY <1>8 DEF Get, LockInv, CriticalLocs
  <2>2. \A k \in 0 .. count' - 1 : queue'[(front' + k) % Size] \in Fds
    <3>1. \A k \in 0 .. count' - 1 : k \in 0 .. count - 2 /\ k + 1 \in 0 .. count - 1
      BY <1>8, GetEffect
    <3> QED
      BY <1>8, <3>1, GetEffect
  <2> QED
    BY <1>8, <2>1, <2>2, GetEffect
<1>9. ASSUME NEW w \in Workers, SignalNotFull(w) PROVE RingInv'
  BY <1>9, SignalEffect DEF SignalNotFull, ringVars
<1>10. ASSUME NEW w \in Workers, Serve(w) PROVE RingInv'
  BY <1>10 DEF Serve, ringVars
<1>11. ASSUME NEW t \in Threads, SpuriousWakeup(t) PROVE RingInv'
  BY <1>11 DEF SpuriousWakeup, ringVars, Woken
<1>12. CASE UNCHANGED vars
  BY <1>12 DEF vars, ringVars
<1> QED
  BY <1>1, <1>2, <1>3, <1>4, <1>5, <1>6, <1>7, <1>8, <1>9, <1>10, <1>11, <1>12
     DEF Next, MainStep, WorkerStep

LEMMA HandStep == IInv /\ [Next]_vars => HandInv'
<1> SUFFICES ASSUME IInv, [Next]_vars PROVE HandInv'
  OBVIOUS
<1> USE ThreadsAssumption, FdsAssumption DEF IInv, TypeOK, HandInv, Threads, Goto
<1>1. ASSUME NEW c \in Fds, Accept(c) PROVE HandInv'
  BY <1>1 DEF Accept, Fds
<1>2. ASSUME NEW t \in Threads, Lock(t) PROVE HandInv'
  BY <1>2 DEF Lock
<1>3. CASE MainCheck
  BY <1>3 DEF MainCheck
<1>4. CASE Put
  BY <1>4 DEF Put
<1>5. CASE SignalNotEmpty
  BY <1>5, SignalEffect DEF SignalNotEmpty
<1>6. ASSUME NEW t \in Threads, Unlock(t) PROVE HandInv'
  BY <1>6 DEF Unlock
<1>7. ASSUME NEW w \in Workers, WorkerCheck(w) PROVE HandInv'
  BY <1>7 DEF WorkerCheck
<1>8. ASSUME NEW w \in Workers, Get(w) PROVE HandInv'
  <2>1. queue[front] \in Fds
    <3>1. 0 \in 0 .. count - 1
      BY <1>8, GetEffect
    <3> QED
      BY <1>8, <3>1, GetEffect DEF RingInv
  <2> QED
    BY <1>8, <2>1 DEF Get
<1>9. ASSUME NEW w \in Workers, SignalNotFull(w) PROVE HandInv'
  BY <1>9, SignalEffect DEF SignalNotFull, LockInv
<1>10. ASSUME NEW w \in Workers, Serve(w) PROVE HandInv'
  BY <1>10 DEF Serve
<1>11. ASSUME NEW t \in Threads, SpuriousWakeup(t) PROVE HandInv'
  BY <1>11 DEF SpuriousWakeup, Woken, LockInv
<1>12. CASE UNCHANGED vars
  BY <1>12 DEF vars
<1> QED
  BY <1>1, <1>2, <1>3, <1>4, <1>5, <1>6, <1>7, <1>8, <1>9, <1>10, <1>11, <1>12
     DEF Next, MainStep, WorkerStep

-----------------------------------------------------------------------------
\* The four parts together are an inductive invariant of every behaviour.
THEOREM Invariance == Spec => []IInv
<1>1. Init => IInv
  BY InitInv
<1>2. IInv /\ [Next]_vars => IInv'
  BY TypeStep, LockStep, RingStep, HandStep DEF IInv
<1> QED
  BY <1>1, <1>2, PTL DEF Spec

\* Every variable of the queue server keeps its type: the indexes stay in the
\* ring and count between 0 and QUEUE_SIZE (lines 20-21, 38-40, 107-109).
THEOREM TypeCorrectness == Spec => []TypeOK
<1>1. IInv => TypeOK
  BY DEF IInv
<1> QED
  BY <1>1, Invariance, PTL

\* At most one thread at a time is between its lock and its unlock of
\* queue_mutex, on every path of main (102-112) and of the workers (33-43).
THEOREM MutexTheorem == Spec => []MutualExclusion
<1>1. IInv => MutualExclusion
  BY DEF IInv, LockInv, MutualExclusion
<1> QED
  BY <1>1, Invariance, PTL

-----------------------------------------------------------------------------
(* The refinement: put is Enqueue, get is Take, the end of serve is Close,  *)
(* and every other step of a thread is invisible.                           *)

Serving == [w \in Workers |-> InHand(w)]
Seen == accepted \ NotQueuedYet

LEMMA SeqIsFunction ==
    ASSUME NEW S, NEW s \in Seq(S)
    PROVE  s = [k \in 1 .. Len(s) |-> s[k]]
<1>1. s \in [1 .. Len(s) -> S]
  BY LenProperties
<1> QED
  BY <1>1

LEMMA ContentType ==
    ASSUME TypeOK, RingInv
    PROVE  Content \in Seq(Fds) /\ Len(Content) = count
<1>1. count \in Nat
  BY DEF TypeOK
<1>2. \A k \in 1 .. count : queue[(front + k - 1) % Size] \in Fds
  <2>1. \A k \in 1 .. count : k - 1 \in 0 .. count - 1 /\ front + k - 1 = front + (k - 1)
    BY <1>1, SizeAssumption DEF TypeOK, Slots
  <2> QED
    BY <2>1 DEF RingInv
<1>3. Content \in [1 .. count -> Fds]
  BY <1>2 DEF Content
<1> QED
  BY <1>1, <1>3

\* A put appends the new request to the content of the ring.
LEMMA PutAppends ==
    ASSUME IInv, Put
    PROVE  Content' = Append(Content, new)
<1> USE DEF IInv
<1>1. Content \in Seq(Fds) /\ Len(Content) = count /\ count \in Nat /\ front \in Nat
  BY ContentType, SizeAssumption DEF TypeOK, Slots
<1>2. /\ count' = count + 1 /\ front' = front
      /\ queue'[(front + count) % Size] = new
      /\ \A k \in 0 .. count - 1 : queue'[(front + k) % Size] = queue[(front + k) % Size]
  BY PutEffect
<1>3. Content' = [k \in 1 .. count + 1 |-> queue'[(front + k - 1) % Size]]
  BY <1>2 DEF Content
<1>4. \A k \in 1 .. count + 1 : Append(Content, new)[k] = queue'[(front + k - 1) % Size]
  <2> SUFFICES ASSUME NEW k \in 1 .. count + 1
               PROVE  Append(Content, new)[k] = queue'[(front + k - 1) % Size]
    OBVIOUS
  <2>1. front + k - 1 = front + (k - 1)
    BY <1>1
  <2>2. CASE k = count + 1
    BY <1>1, <1>2, <2>1, <2>2
  <2>3. CASE k \in 1 .. count
    <3>1. Append(Content, new)[k] = Content[k] /\ k - 1 \in 0 .. count - 1
      BY <1>1, <2>3
    <3>2. Content[k] = queue[(front + k - 1) % Size]
      BY <2>3 DEF Content
    <3> QED
      BY <1>2, <2>1, <3>1, <3>2
  <2> QED
    BY <1>1, <2>2, <2>3
<1>5. Append(Content, new) = [k \in 1 .. count + 1 |-> Append(Content, new)[k]]
  <2>1. new \in Fds
    BY DEF Put, HandInv
  <2>2. Append(Content, new) \in Seq(Fds) /\ Len(Append(Content, new)) = count + 1
    BY <1>1, <2>1
  <2> HIDE DEF IInv
  <2> QED
    BY <2>2, SeqIsFunction
<1> QED
  BY <1>3, <1>4, <1>5

\* A get removes the head of the content of the ring.
LEMMA GetRemovesHead ==
    ASSUME IInv, NEW w \in Workers, Get(w)
    PROVE  /\ Content # << >>
           /\ Content' = Tail(Content)
           /\ request' = [request EXCEPT ![w] = Head(Content)]
<1> USE DEF IInv
<1>1. Content \in Seq(Fds) /\ Len(Content) = count /\ count \in Nat /\ front \in Nat
      /\ front' \in Nat
  <2>1. front' \in Slots
    BY NextSlotType DEF Get, TypeOK
  <2> QED
    BY <2>1, ContentType, SizeAssumption DEF TypeOK, Slots
<1>2. /\ count > 0 /\ count' = count - 1 /\ queue' = queue
      /\ queue[front] = queue[(front + 0) % Size]
      /\ \A k \in 0 .. count - 2 : (front' + k) % Size = (front + (k + 1)) % Size
  BY GetEffect
<1>3. Head(Content) = queue[front]
  <2>1. Head(Content) = Content[1] /\ front + 1 - 1 = front + 0
    BY <1>1, <1>2
  <2>2. Content[1] = queue[(front + 1 - 1) % Size]
    BY <1>1, <1>2 DEF Content
  <2> QED
    BY <1>2, <2>1, <2>2
<1>4. \A k \in 1 .. count - 1 : Tail(Content)[k] = queue[(front' + k - 1) % Size]
  <2> SUFFICES ASSUME NEW k \in 1 .. count - 1
               PROVE  Tail(Content)[k] = queue[(front' + k - 1) % Size]
    OBVIOUS
  <2>1. Tail(Content)[k] = Content[k + 1]
    BY <1>1, <1>2
  <2>2. Content[k + 1] = queue[(front + (k + 1) - 1) % Size]
    BY <1>1 DEF Content
  <2>3. front + (k + 1) - 1 = front + ((k - 1) + 1) /\ front' + k - 1 = front' + (k - 1)
        /\ k - 1 \in 0 .. count - 2
    BY <1>1
  <2> QED
    BY <1>2, <2>1, <2>2, <2>3
<1>5. Tail(Content) = [k \in 1 .. count - 1 |-> Tail(Content)[k]]
  <2>1. Tail(Content) \in Seq(Fds) /\ Len(Tail(Content)) = count - 1
    BY <1>1, <1>2
  <2> QED
    BY <2>1, SeqIsFunction
<1>6. Content' = [k \in 1 .. count - 1 |-> queue[(front' + k - 1) % Size]]
  BY <1>2 DEF Content
<1>7. Content # << >>
  BY <1>1, <1>2
<1>8. Content' = Tail(Content)
  BY <1>4, <1>5, <1>6
<1>9. request' = [request EXCEPT ![w] = Head(Content)]
  BY <1>3 DEF Get
<1> QED
  BY <1>7, <1>8, <1>9

\* A step that leaves the ring, the requests in hand and the queued clients
\* alone is a stutter of the abstract queue.
LEMMA Stutter ==
    ASSUME UNCHANGED ringVars, Serving' = Serving, Seen' = Seen
    PROVE  UNCHANGED Fifo!fifoVars
<1>1. Content' = Content
  BY DEF Content, ringVars
<1> QED
  BY <1>1 DEF Fifo!fifoVars, Serving, Seen

LEMMA FifoStep == IInv /\ [Next]_vars => [Fifo!FifoNext]_Fifo!fifoVars
<1> SUFFICES ASSUME IInv, [Next]_vars PROVE [Fifo!FifoNext]_Fifo!fifoVars
  OBVIOUS
<1> USE ThreadsAssumption, FdsAssumption DEF IInv, TypeOK, Threads, Goto
<1>1. ASSUME NEW c \in Fds, Accept(c) PROVE UNCHANGED Fifo!fifoVars
  <2>1. Serving' = Serving
    BY <1>1 DEF Accept, Serving, InHand
  <2>2. Seen' = Seen
    BY <1>1 DEF Accept, Seen, NotQueuedYet, Fds
  <2> QED
    BY <1>1, <2>1, <2>2, Stutter DEF Accept
<1>2. ASSUME NEW t \in Threads, Lock(t) PROVE UNCHANGED Fifo!fifoVars
  <2>1. Serving' = Serving
    BY <1>2 DEF Lock, Serving, InHand
  <2>2. Seen' = Seen
    BY <1>2 DEF Lock, Seen, NotQueuedYet
  <2> QED
    BY <1>2, <2>1, <2>2, Stutter DEF Lock
<1>3. CASE MainCheck
  <2>1. Serving' = Serving
    BY <1>3 DEF MainCheck, Serving, InHand
  <2>2. Seen' = Seen
    BY <1>3 DEF MainCheck, Seen, NotQueuedYet
  <2>3. UNCHANGED Fifo!fifoVars
    BY <1>3, <2>1, <2>2, Stutter DEF MainCheck
  <2> QED
    BY <2>3
<1>4. CASE Put
  <2>1. new \in Fds /\ new \notin Seen /\ Len(Content) < Size
    BY <1>4, PutEffect, ContentType DEF Put, HandInv, Seen, NotQueuedYet
  <2>2. Seen' = Seen \cup ({new} \cap Clients)
    BY <1>4 DEF Put, HandInv, Seen, NotQueuedYet
  <2>3. Serving' = Serving
    BY <1>4 DEF Put, Serving, InHand
  <2>4. Content' = Append(Content, new)
    BY <1>4, PutAppends
  <2>5. Fifo!Enqueue(new)
    BY <2>1, <2>2, <2>3, <2>4 DEF Fifo!Enqueue, Seen, Serving
  <2> QED
    BY <2>1, <2>5 DEF Fifo!FifoNext, Fds
<1>5. CASE SignalNotEmpty
  <2>1. Serving' = Serving
    BY <1>5, SignalEffect DEF SignalNotEmpty, Serving, InHand, LockInv
  <2>2. Seen' = Seen
    BY <1>5, SignalEffect DEF SignalNotEmpty, Seen, NotQueuedYet
  <2>3. UNCHANGED Fifo!fifoVars
    BY <1>5, <2>1, <2>2, Stutter DEF SignalNotEmpty
  <2> QED
    BY <2>3
<1>6. ASSUME NEW t \in Threads, Unlock(t) PROVE UNCHANGED Fifo!fifoVars
  <2>1. Serving' = Serving
    BY <1>6 DEF Unlock, Serving, InHand
  <2>2. Seen' = Seen
    BY <1>6 DEF Unlock, Seen, NotQueuedYet
  <2> QED
    BY <1>6, <2>1, <2>2, Stutter DEF Unlock
<1>7. ASSUME NEW w \in Workers, WorkerCheck(w) PROVE UNCHANGED Fifo!fifoVars
  <2>1. Serving' = Serving
    BY <1>7 DEF WorkerCheck, Serving, InHand
  <2>2. Seen' = Seen
    BY <1>7 DEF WorkerCheck, Seen, NotQueuedYet
  <2> QED
    BY <1>7, <2>1, <2>2, Stutter DEF WorkerCheck
<1>8. ASSUME NEW w \in Workers, Get(w) PROVE Fifo!Take(w)
  <2>1. Serving[w] = NoFd
    BY <1>8 DEF Get, Serving, InHand
  <2>2. Serving' = [Serving EXCEPT ![w] = Head(Content)]
    <3>1. request' = [request EXCEPT ![w] = Head(Content)]
      BY <1>8, GetRemovesHead
    <3> QED
      BY <1>8, <3>1 DEF Get, Serving, InHand
  <2>3. Seen' = Seen
    BY <1>8 DEF Get, Seen, NotQueuedYet
  <2> QED
    BY <1>8, <2>1, <2>2, <2>3, GetRemovesHead DEF Fifo!Take, Seen, Serving
<1>9. ASSUME NEW w \in Workers, SignalNotFull(w) PROVE UNCHANGED Fifo!fifoVars
  <2>1. Serving' = Serving
    BY <1>9, SignalEffect DEF SignalNotFull, Serving, InHand
  <2>2. Seen' = Seen
    BY <1>9, SignalEffect DEF SignalNotFull, Seen, NotQueuedYet, LockInv
  <2> QED
    BY <1>9, <2>1, <2>2, Stutter DEF SignalNotFull
<1>10. ASSUME NEW w \in Workers, Serve(w) PROVE Fifo!Close(w)
  <2>1. Serving[w] # NoFd
    BY <1>10 DEF Serve, Serving, InHand, HandInv, Fds
  <2>2. Serving' = [Serving EXCEPT ![w] = NoFd]
    BY <1>10 DEF Serve, Serving, InHand
  <2>3. Content' = Content
    BY <1>10 DEF Serve, Content, ringVars
  <2>4. Seen' = Seen
    BY <1>10 DEF Serve, Seen, NotQueuedYet
  <2> QED
    BY <2>1, <2>2, <2>3, <2>4 DEF Fifo!Close, Seen, Serving
<1>11. ASSUME NEW t \in Threads, SpuriousWakeup(t) PROVE UNCHANGED Fifo!fifoVars
  <2>1. Serving' = Serving
    BY <1>11 DEF SpuriousWakeup, Serving, InHand, LockInv, Woken
  <2>2. Seen' = Seen
    BY <1>11 DEF SpuriousWakeup, Seen, NotQueuedYet, LockInv, Woken
  <2> QED
    BY <1>11, <2>1, <2>2, Stutter DEF SpuriousWakeup
<1>12. CASE UNCHANGED vars
  <2>1. UNCHANGED Fifo!fifoVars
    BY <1>12, Stutter DEF vars, ringVars, Serving, InHand, Seen, NotQueuedYet
  <2> QED
    BY <2>1
<1> QED
  BY <1>1, <1>2, <1>3, <1>4, <1>5, <1>6, <1>7, <1>8, <1>9, <1>10, <1>11, <1>12
     DEF Next, MainStep, WorkerStep, Fifo!FifoNext

\* For every number of clients, workers and slots, the ring with its mutex and
\* condition variables hands the requests out in the order they were accepted,
\* each to one worker (lines 26-55 and 95-113).
THEOREM Refinement == Spec => ImplementsFifo
<1>1. Init => Fifo!FifoInit
  <2> SUFFICES ASSUME Init PROVE Fifo!FifoInit
    OBVIOUS
  <2>1. Content = << >>
    BY DEF Init, Content
  <2>2. Serving = [w \in Workers |-> NoFd] /\ Seen = {}
    BY ThreadsAssumption DEF Init, Serving, InHand, Threads, Seen
  <2> QED
    BY <2>1, <2>2 DEF Fifo!FifoInit, Serving, Seen
<1>2. IInv /\ [Next]_vars => [Fifo!FifoNext]_Fifo!fifoVars
  BY FifoStep
<1> QED
  BY <1>1, <1>2, Invariance, PTL DEF Spec, ImplementsFifo, Fifo!FifoSpec

-----------------------------------------------------------------------------
(* No wake-up is lost.  The invariant is inductive beside LockInv: a put is *)
(* followed by a signal that sends a sleeper to the ring, and a worker goes  *)
(* to sleep only when there is nothing to take.                              *)

LEMMA ComingFinite ==
    /\ IsFiniteSet(Coming) /\ Cardinality(Coming) \in Nat
    /\ IsFiniteSet(Coming') /\ Cardinality(Coming') \in Nat
<1>1. IsFiniteSet(Workers) /\ Coming \subseteq Workers /\ Coming' \subseteq Workers
  BY ThreadsAssumption DEF Coming
<1>2. IsFiniteSet(Coming) /\ IsFiniteSet(Coming')
  BY <1>1, FS_Subset
<1> QED
  BY <1>2, FS_CardinalityType

\* One worker more, or one less, on its way to the ring.
LEMMA OneMore ==
    ASSUME NEW u, u \notin Coming, Coming' = Coming \cup {u}
    PROVE  Cardinality(Coming') = Cardinality(Coming) + 1
  BY ComingFinite, FS_AddElement

LEMMA OneLess ==
    ASSUME NEW u \in Coming, Coming' = Coming \ {u}
    PROVE  Cardinality(Coming') = Cardinality(Coming) - 1
  BY ComingFinite, FS_RemoveElement

MainSignals == IF pc[Main] = "signal" THEN 1 ELSE 0

SleepersInv == notEmpty # {} => count <= Cardinality(Coming) + MainSignals
MainSleepInv == notFull # {} => count = Size \/ \E w \in Workers : pc[w] = "signal"

LEMMA SleepersStep == IInv /\ SleepersInv /\ [Next]_vars => SleepersInv'
<1> SUFFICES ASSUME IInv, SleepersInv, [Next]_vars PROVE SleepersInv'
  OBVIOUS
<1> USE ThreadsAssumption, ComingFinite
    DEF IInv, TypeOK, Threads, Goto, SleepersInv, MainSignals
<1>1. ASSUME NEW c \in Fds, Accept(c) PROVE SleepersInv'
  <2>1. Coming' = Coming
    BY <1>1 DEF Accept, Coming
  <2> QED
    BY <1>1, <2>1 DEF Accept, ringVars
<1>2. ASSUME NEW t \in Threads, Lock(t) PROVE SleepersInv'
  <2>1. Coming' = Coming
    BY <1>2 DEF Lock, Coming
  <2> QED
    BY <1>2, <2>1 DEF Lock, ringVars
<1>3. CASE MainCheck
  <2>1. Coming' = Coming
    BY <1>3 DEF MainCheck, Coming
  <2> QED
    BY <1>3, <2>1 DEF MainCheck, ringVars
<1>4. CASE Put
  <2>1. Coming' = Coming
    BY <1>4 DEF Put, Coming
  <2> QED
    BY <1>4, <2>1 DEF Put
<1>5. CASE SignalNotEmpty
  <2>1. CASE notEmpty = {}
    BY <1>5, <2>1, SignalEffect DEF SignalNotEmpty
  <2>2. CASE notEmpty # {}
    <3>1. PICK u \in notEmpty : pc' = [pc EXCEPT ![Main] = "unlock", ![u] = "lock"]
      BY <1>5, <2>2, SignalEffect DEF SignalNotEmpty
    <3>2. u \in Workers /\ pc[u] = "waiting" /\ u # Main
      BY DEF LockInv
    <3>3. u \notin Coming /\ Coming' = Coming \cup {u}
      BY <3>1, <3>2 DEF Coming
    <3>4. Cardinality(Coming') = Cardinality(Coming) + 1
      BY <3>3, OneMore
    <3> QED
      BY <1>5, <2>2, <3>1, <3>4 DEF SignalNotEmpty, ringVars
  <2> QED
    BY <2>1, <2>2
<1>6. ASSUME NEW t \in Threads, Unlock(t) PROVE SleepersInv'
  <2>1. Coming' = Coming
    BY <1>6 DEF Unlock, Coming
  <2> QED
    BY <1>6, <2>1 DEF Unlock, ringVars
<1>7. ASSUME NEW w \in Workers, WorkerCheck(w) PROVE SleepersInv'
  <2>1. CASE count = 0
    BY <1>7, <2>1 DEF WorkerCheck, ringVars
  <2>2. CASE count # 0
    <3>1. Coming' = Coming
      BY <1>7, <2>2 DEF WorkerCheck, Coming
    <3> QED
      BY <1>7, <2>2, <3>1 DEF WorkerCheck, ringVars
  <2> QED
    BY <2>1, <2>2
<1>8. ASSUME NEW w \in Workers, Get(w) PROVE SleepersInv'
  <2>1. w \in Coming /\ Coming' = Coming \ {w}
    BY <1>8 DEF Get, Coming
  <2>2. Cardinality(Coming') = Cardinality(Coming) - 1
    BY <2>1, OneLess
  <2> QED
    BY <1>8, <2>2 DEF Get
<1>9. ASSUME NEW w \in Workers, SignalNotFull(w) PROVE SleepersInv'
  <2>1. Coming' = Coming
    BY <1>9, SignalEffect DEF SignalNotFull, Coming
  <2>2. pc[Main] # "signal"
    BY <1>9 DEF SignalNotFull, LockInv, CriticalLocs
  <2> QED
    BY <1>9, <2>1, <2>2 DEF SignalNotFull, ringVars
<1>10. ASSUME NEW w \in Workers, Serve(w) PROVE SleepersInv'
  <2>1. w \notin Coming /\ Coming' = Coming \cup {w}
    BY <1>10 DEF Serve, Coming
  <2>2. Cardinality(Coming') = Cardinality(Coming) + 1
    BY <2>1, OneMore
  <2> QED
    BY <1>10, <2>2 DEF Serve, ringVars
<1>11. ASSUME NEW t \in Threads, SpuriousWakeup(t) PROVE SleepersInv'
  <2>1. CASE t = Main
    <3>1. Coming' = Coming
      BY <1>11, <2>1 DEF SpuriousWakeup, Coming
    <3> QED
      BY <1>11, <2>1, <3>1 DEF SpuriousWakeup, ringVars, Woken, LockInv
  <2>2. CASE t # Main
    <3>1. pc[t] = "waiting" /\ t \in Workers
      BY <1>11, <2>2 DEF SpuriousWakeup, LockInv
    <3>2. t \notin Coming /\ Coming' = Coming \cup {t}
      BY <1>11, <3>1 DEF SpuriousWakeup, Coming, Woken
    <3>3. Cardinality(Coming') = Cardinality(Coming) + 1
      BY <3>2, OneMore
    <3> QED
      BY <1>11, <2>2, <3>3 DEF SpuriousWakeup, ringVars, Woken
  <2> QED
    BY <2>1, <2>2
<1>12. CASE UNCHANGED vars
  BY <1>12 DEF vars, ringVars, Coming
<1> QED
  BY <1>1, <1>2, <1>3, <1>4, <1>5, <1>6, <1>7, <1>8, <1>9, <1>10, <1>11, <1>12
     DEF Next, MainStep, WorkerStep

LEMMA MainSleepStep == IInv /\ MainSleepInv /\ [Next]_vars => MainSleepInv'
<1> SUFFICES ASSUME IInv, MainSleepInv, [Next]_vars PROVE MainSleepInv'
  OBVIOUS
<1> USE ThreadsAssumption DEF IInv, TypeOK, Threads, Goto, MainSleepInv
<1>1. ASSUME NEW c \in Fds, Accept(c) PROVE MainSleepInv'
  BY <1>1 DEF Accept, ringVars
<1>2. ASSUME NEW t \in Threads, Lock(t) PROVE MainSleepInv'
  BY <1>2 DEF Lock, ringVars
<1>3. CASE MainCheck
  BY <1>3 DEF MainCheck, ringVars
<1>4. CASE Put
  BY <1>4 DEF Put, LockInv
<1>5. CASE SignalNotEmpty
  BY <1>5, SignalEffect DEF SignalNotEmpty, ringVars, LockInv
<1>6. ASSUME NEW t \in Threads, Unlock(t) PROVE MainSleepInv'
  BY <1>6 DEF Unlock, ringVars
<1>7. ASSUME NEW w \in Workers, WorkerCheck(w) PROVE MainSleepInv'
  BY <1>7 DEF WorkerCheck, ringVars
<1>8. ASSUME NEW w \in Workers, Get(w) PROVE MainSleepInv'
  BY <1>8 DEF Get
<1>9. ASSUME NEW w \in Workers, SignalNotFull(w) PROVE MainSleepInv'
  BY <1>9, SignalEffect DEF SignalNotFull, ringVars
<1>10. ASSUME NEW w \in Workers, Serve(w) PROVE MainSleepInv'
  BY <1>10 DEF Serve, ringVars
<1>11. ASSUME NEW t \in Threads, SpuriousWakeup(t) PROVE MainSleepInv'
  BY <1>11 DEF SpuriousWakeup, ringVars, Woken, LockInv
<1>12. CASE UNCHANGED vars
  BY <1>12 DEF vars, ringVars
<1> QED
  BY <1>1, <1>2, <1>3, <1>4, <1>5, <1>6, <1>7, <1>8, <1>9, <1>10, <1>11, <1>12
     DEF Next, MainStep, WorkerStep

\* With one pthread_cond_signal per request (lines 42 and 111), whatever the
\* number of workers: while some sleep, the requests in the ring do not
\* outnumber the workers that are coming for them, and main sleeps only if the
\* ring is full or a worker is about to wake it.
THEOREM WakeupTheorem == Spec => []NoLostWakeup
<1>1. Init => SleepersInv /\ MainSleepInv
  BY DEF Init, SleepersInv, MainSleepInv
<1>2. IInv /\ SleepersInv /\ [Next]_vars => SleepersInv'
  BY SleepersStep
<1>3. IInv /\ MainSleepInv /\ [Next]_vars => MainSleepInv'
  BY MainSleepStep
<1>4. SleepersInv /\ MainSleepInv => NoLostWakeup
  BY DEF SleepersInv, MainSleepInv, NoLostWakeup, MainSignals
<1> QED
  BY <1>1, <1>2, <1>3, <1>4, Invariance, PTL DEF Spec

=============================================================================
