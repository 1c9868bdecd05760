---------------------------- MODULE RequestQueue ----------------------------
(***************************************************************************)
(* lab16/task2/time_server_queue.c: the main thread accepts connections and *)
(* puts them in a ring of QUEUE_SIZE slots; THREAD_POOL_SIZE workers take    *)
(* them out, answer and close them.  One mutex guards the ring, and two      *)
(* condition variables say that it is not empty and not full.                *)
(*                                                                           *)
(* A step is what a thread does between two calls of the pthread library;    *)
(* inside the critical section the ring is touched by its owner only.        *)
(***************************************************************************)
EXTENDS Integers, Sequences, FiniteSets

CONSTANTS
    Clients,   \* the connections that arrive
    Workers,   \* the worker threads
    Main,      \* the main thread
    Size,      \* QUEUE_SIZE
    BadFd,     \* what accept returns when it fails
    NoFd,      \* a request_t that was never assigned
    Nobody,    \* no owner of the mutex
    MaxWakeups \* bound: waits that end without a signal

ASSUME SizeAssumption == Size \in Nat \ {0} /\ MaxWakeups \in Nat
ASSUME ThreadsAssumption ==
    /\ Main \notin Workers
    /\ Nobody \notin Workers \cup {Main}
    /\ IsFiniteSet(Workers)
ASSUME FdsAssumption == BadFd \notin Clients /\ NoFd \notin Clients \cup {BadFd}

Threads == Workers \cup {Main}
Fds == Clients \cup {BadFd}
Slots == 0 .. Size - 1

VARIABLES
    pc,        \* where each thread is
    mutex,     \* queue_mutex: its owner
    queue, front, rear, count,
    notEmpty,  \* the threads that wait for queue_not_empty
    notFull,   \* the threads that wait for queue_not_full
    new,       \* new_request.client_fd of the main thread
    request,   \* request.client_fd of each worker
    accepted,  \* the clients accept has returned
    wakeups    \* waits that ended without a signal so far

ringVars == <<queue, front, rear, count>>
vars == <<pc, mutex, ringVars, notEmpty, notFull, new, request, accepted, wakeups>>

MainLocs == {"accept", "lock", "check", "waiting", "put", "signal", "unlock"}
WorkerLocs == {"lock", "check", "waiting", "get", "signal", "unlock", "serve"}
CriticalLocs == {"check", "put", "get", "signal", "unlock"}

TypeOK ==
    /\ pc \in [Threads -> MainLocs \cup WorkerLocs]
    /\ pc[Main] \in MainLocs /\ \A w \in Workers : pc[w] \in WorkerLocs
    /\ mutex \in Threads \cup {Nobody}
    /\ queue \in [Slots -> Fds \cup {NoFd}]
    /\ front \in Slots /\ rear \in Slots /\ count \in 0 .. Size
    /\ notEmpty \subseteq Workers /\ notFull \subseteq {Main}
    /\ new \in Fds \cup {NoFd}
    /\ request \in [Workers -> Fds \cup {NoFd}]
    /\ accepted \subseteq Clients
    /\ wakeups \in 0 .. MaxWakeups

Init ==
    /\ pc = [t \in Threads |-> IF t = Main THEN "accept" ELSE "lock"]
    /\ mutex = Nobody
    /\ queue = [s \in Slots |-> NoFd]
    /\ front = 0 /\ rear = 0 /\ count = 0
    /\ notEmpty = {} /\ notFull = {}
    /\ new = NoFd
    /\ request = [w \in Workers |-> NoFd]
    /\ accepted = {}
    /\ wakeups = 0

Goto(t, loc) == pc' = [pc EXCEPT ![t] = loc]

NextSlot(s) == (s + 1) % Size

-----------------------------------------------------------------------------
(* The pthread library.                                                     *)

Lock(t) ==
    /\ pc[t] = "lock"
    /\ mutex = Nobody
    /\ mutex' = t
    /\ Goto(t, "check")
    /\ UNCHANGED <<ringVars, notEmpty, notFull, new, request, accepted, wakeups>>

Unlock(t) ==
    /\ pc[t] = "unlock"
    /\ mutex' = Nobody
    /\ Goto(t, IF t = Main THEN "accept" ELSE "serve")
    /\ UNCHANGED <<ringVars, notEmpty, notFull, new, request, accepted, wakeups>>

\* Where a thread goes on when pthread_cond_wait wakes: it takes the mutex
\* again, and the while loop looks at count again.
Woken == "lock"

\* t signals the condition whose waiters are `waiters`: one of them, if any,
\* wakes; left are those that still wait.
Signal(t, waiters, left) ==
    \/ /\ waiters = {} /\ left = {}
       /\ Goto(t, "unlock")
    \/ \E u \in waiters :
         /\ left = waiters \ {u}
         /\ pc' = [pc EXCEPT ![t] = "unlock", ![u] = Woken]

\* POSIX lets pthread_cond_wait return without a signal, but not forever.
SpuriousWakeup(t) ==
    /\ t \in notEmpty \cup notFull
    /\ wakeups < MaxWakeups
    /\ wakeups' = wakeups + 1
    /\ notEmpty' = notEmpty \ {t}
    /\ notFull' = notFull \ {t}
    /\ Goto(t, Woken)
    /\ UNCHANGED <<mutex, ringVars, new, request, accepted>>

-----------------------------------------------------------------------------
(* The main thread (95-113).                                                *)

\* accept returns a connection, or -1, which is queued all the same.
Accept(c) ==
    /\ pc[Main] = "accept"
    /\ c \notin accepted
    /\ new' = c
    /\ accepted' = accepted \cup ({c} \cap Clients)
    /\ Goto(Main, "lock")
    /\ UNCHANGED <<mutex, ringVars, notEmpty, notFull, request, wakeups>>

MainCheck ==
    /\ pc[Main] = "check"
    /\ IF count = Size
       THEN notFull' = notFull \cup {Main} /\ mutex' = Nobody /\ Goto(Main, "waiting")
       ELSE Goto(Main, "put") /\ UNCHANGED <<notFull, mutex>>
    /\ UNCHANGED <<ringVars, notEmpty, new, request, accepted, wakeups>>

Mut_Put ==
    /\ pc[Main] = "put"
    /\ rear' = NextSlot(rear)
    /\ queue' = [queue EXCEPT ![rear'] = new]
    /\ count' = count + 1
    /\ Goto(Main, "signal")
    /\ UNCHANGED <<mutex, front, notEmpty, notFull, new, request, accepted, wakeups>>

Put ==
    /\ pc[Main] = "put"
    /\ queue' = [queue EXCEPT ![rear] = new]
    /\ rear' = NextSlot(rear)
    /\ count' = count + 1
    /\ Goto(Main, "signal")
    /\ UNCHANGED <<mutex, front, notEmpty, notFull, new, request, accepted, wakeups>>

Mut_SignalNotEmpty ==
    /\ pc[Main] = "signal"
    /\ IF count = 1 THEN Signal(Main, notEmpty, notEmpty')
                    ELSE Goto(Main, "unlock") /\ UNCHANGED notEmpty
    /\ UNCHANGED <<mutex, ringVars, notFull, new, request, accepted, wakeups>>

SignalNotEmpty ==
    /\ pc[Main] = "signal"
    /\ Signal(Main, notEmpty, notEmpty')
    /\ UNCHANGED <<mutex, ringVars, notFull, new, request, accepted, wakeups>>

-----------------------------------------------------------------------------
(* A worker (32-55).                                                        *)

WorkerCheck(w) ==
    /\ pc[w] = "check"
    /\ IF count = 0
       THEN notEmpty' = notEmpty \cup {w} /\ mutex' = Nobody /\ Goto(w, "waiting")
       ELSE Goto(w, "get") /\ UNCHANGED <<notEmpty, mutex>>
    /\ UNCHANGED <<ringVars, notFull, new, request, accepted, wakeups>>

Get(w) ==
    /\ pc[w] = "get"
    /\ request' = [request EXCEPT ![w] = queue[front]]
    /\ front' = NextSlot(front)
    /\ count' = count - 1
    /\ Goto(w, "signal")
    /\ UNCHANGED <<mutex, queue, rear, notEmpty, notFull, new, accepted, wakeups>>

SignalNotFull(w) ==
    /\ pc[w] = "signal"
    /\ Signal(w, notFull, notFull')
    /\ UNCHANGED <<mutex, ringVars, notEmpty, new, request, accepted, wakeups>>

\* Read, answer and close.  The read of a client that says nothing never
\* returns; on -1 read, write and close fail at once.
Serve(w) ==
    /\ pc[w] = "serve"
    /\ Goto(w, "lock")
    /\ UNCHANGED <<mutex, ringVars, notEmpty, notFull, new, request, accepted, wakeups>>

MainStep == Lock(Main) \/ MainCheck \/ Put \/ SignalNotEmpty \/ Unlock(Main)

WorkerStep(w) == Lock(w) \/ WorkerCheck(w) \/ Get(w) \/ SignalNotFull(w) \/ Unlock(w)

Next ==
    \/ \E c \in Fds : Accept(c)
    \/ MainStep
    \/ \E w \in Workers : WorkerStep(w) \/ Serve(w)
    \/ \E t \in Threads : SpuriousWakeup(t)

Spec == Init /\ [][Next]_vars

\* Every thread that can go on does; no client promises to connect or to speak.
Fairness ==
    /\ WF_vars(MainStep)
    /\ \A w \in Workers :
         /\ WF_vars(WorkerStep(w))
         /\ WF_vars(request[w] = BadFd /\ Serve(w))

FairSpec == Spec /\ Fairness

-----------------------------------------------------------------------------
(* Properties.                                                              *)

\* queue_mutex works through every path of the loops, the waits included: two
\* threads are never between their lock and their unlock.
MutualExclusion ==
    \A t, u \in Threads : pc[t] \in CriticalLocs /\ pc[u] \in CriticalLocs => t = u

\* One signal per request is enough (111, 42): while workers sleep, there are
\* no more requests than workers on their way to the ring, and main sleeps
\* only when the ring is full or its wake-up is about to be sent.
Coming == {w \in Workers : pc[w] \in {"lock", "check", "get"}}

NoLostWakeup ==
    /\ notEmpty # {} => count <= Cardinality(Coming) + (IF pc[Main] = "signal" THEN 1 ELSE 0)
    /\ notFull # {} => count = Size \/ \E w \in Workers : pc[w] = "signal"

\* The ring, its indexes and its locks implement the queue of ClientFifo.
Content == [k \in 1 .. count |-> queue[(front + k - 1) % Size]]
InHand(w) == IF pc[w] \in {"signal", "unlock", "serve"} THEN request[w] ELSE NoFd
NotQueuedYet == IF pc[Main] \in {"lock", "check", "waiting", "put"} THEN {new} ELSE {}

Fifo == INSTANCE ClientFifo
    WITH Capacity <- Size,
         waiting <- Content,
         serving <- [w \in Workers |-> InHand(w)],
         seen <- accepted \ NotQueuedYet

ImplementsFifo == Fifo!FifoSpec

\* Under fair scheduling a free worker takes the oldest connection, whatever
\* the clients of the other workers do.
ImplementsFairFifo == Fifo!FairFifoSpec

=============================================================================
