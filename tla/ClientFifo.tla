----------------------------- MODULE ClientFifo -----------------------------
(***************************************************************************)
(* What lab16/task2/time_server_queue.c promises of its request queue, with *)
(* no lock, no ring buffer and no condition variable: connections wait in   *)
(* the order they were accepted, each is handed to exactly one worker, and   *)
(* a worker that is free is not left idle while one waits.                   *)
(***************************************************************************)
EXTENDS Integers, Sequences

CONSTANTS Clients,   \* connections, each accepted at most once
          Workers,   \* worker threads
          Capacity,  \* places in the queue
          BadFd,     \* the -1 of a failed accept, queued like a connection
          NoFd       \* no connection

VARIABLES waiting,   \* the connections that wait, oldest first
          serving,   \* the connection each worker has in hand
          seen       \* the clients that ever entered the queue

fifoVars == <<waiting, serving, seen>>

FifoInit ==
    /\ waiting = <<>>
    /\ serving = [w \in Workers |-> NoFd]
    /\ seen = {}

Enqueue(c) ==
    /\ c \notin seen
    /\ Len(waiting) < Capacity
    /\ waiting' = Append(waiting, c)
    /\ seen' = seen \cup ({c} \cap Clients)
    /\ UNCHANGED serving

Take(w) ==
    /\ serving[w] = NoFd
    /\ waiting # <<>>
    /\ serving' = [serving EXCEPT ![w] = Head(waiting)]
    /\ waiting' = Tail(waiting)
    /\ UNCHANGED seen

Close(w) ==
    /\ serving[w] # NoFd
    /\ serving' = [serving EXCEPT ![w] = NoFd]
    /\ UNCHANGED <<waiting, seen>>

FifoNext ==
    \/ \E c \in Clients \cup {BadFd} : Enqueue(c)
    \/ \E w \in Workers : Take(w) \/ Close(w)

FifoSpec == FifoInit /\ [][FifoNext]_fifoVars

SomeTake == \E w \in Workers : Take(w)

FairFifoSpec == FifoSpec /\ WF_fifoVars(SomeTake)

=============================================================================
