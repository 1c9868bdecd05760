----------------------------- MODULE ThreadPool -----------------------------
(***************************************************************************)
(* lab16/task2/time_server_thread_pool.c: the main thread hands each        *)
(* connection to the first worker whose record is not occupied.  A record   *)
(* has its own mutex and condition; its worker keeps the mutex for as long   *)
(* as it serves, so main waits behind a worker that waits for its client.    *)
(* server_mutex is taken by main alone and is left out.                      *)
(***************************************************************************)
EXTENDS Integers

CONSTANTS
    Callers,       \* the connections that arrive
    PoolSize,      \* THREAD_POOL_SIZE
    FailedFd,      \* what accept returns when it fails
    MaxPoolWakeups \* bound: waits that end without a signal

ASSUME PoolAssumption == PoolSize \in Nat \ {0} /\ MaxPoolWakeups \in Nat
ASSUME CallersAssumption == FailedFd \notin Callers

PoolWorkers == 0 .. PoolSize - 1
CallerFds == Callers \cup {FailedFd}

VARIABLES
    mainPc,      \* where main is
    i,           \* the record main looks at
    newFd,       \* client_fd of main
    workerPc,    \* where each worker is
    owner,       \* workers[w].mutex: "none", "main" or "worker"
    client_fd,   \* workers[w].client_fd
    is_occupied, \* workers[w].is_occupied
    called,      \* the clients accept has returned
    dropped,     \* history: clients for which main found no free record
    closed,      \* history: clients answered and closed
    poolWakeups  \* waits that ended without a signal so far

mainVars == <<mainPc, i, newFd, called, dropped>>
poolVars == <<mainVars, workerPc, owner, client_fd, is_occupied, closed, poolWakeups>>

PoolTypeOK ==
    /\ mainPc \in {"accept", "lock", "check", "assign", "unlock", "next"}
    /\ i \in PoolWorkers
    /\ newFd \in CallerFds
    /\ workerPc \in [PoolWorkers -> {"lock", "check", "waiting", "serve", "unlock"}]
    /\ owner \in [PoolWorkers -> {"none", "main", "worker"}]
    /\ client_fd \in [PoolWorkers -> CallerFds]
    /\ is_occupied \in [PoolWorkers -> BOOLEAN]
    /\ called \subseteq Callers /\ dropped \subseteq Callers /\ closed \subseteq Callers
    /\ poolWakeups \in 0 .. MaxPoolWakeups

PoolInit ==
    /\ mainPc = "accept" /\ i = 0 /\ newFd = FailedFd
    /\ workerPc = [w \in PoolWorkers |-> "lock"]
    /\ owner = [w \in PoolWorkers |-> "none"]
    /\ client_fd = [w \in PoolWorkers |-> FailedFd]
    /\ is_occupied = [w \in PoolWorkers |-> FALSE]
    /\ called = {} /\ dropped = {} /\ closed = {}
    /\ poolWakeups = 0

WorkerGoto(w, loc) == workerPc' = [workerPc EXCEPT ![w] = loc]
Hold(w, who) == owner' = [owner EXCEPT ![w] = who]

-----------------------------------------------------------------------------
(* The main thread (90-106).                                                *)

AcceptCaller(c) ==
    /\ mainPc = "accept"
    /\ c \notin called
    /\ newFd' = c
    /\ called' = called \cup ({c} \cap Callers)
    /\ mainPc' = "lock" /\ i' = 0
    /\ UNCHANGED <<dropped, workerPc, owner, client_fd, is_occupied, closed, poolWakeups>>

Mut_MainLock ==
    /\ mainPc = "lock"
    /\ mainPc' = "check"
    /\ UNCHANGED <<i, newFd, called, dropped, workerPc, owner, client_fd, is_occupied, closed,
                   poolWakeups>>

MainLock ==
    /\ mainPc = "lock"
    /\ owner[i] = "none"
    /\ Hold(i, "main")
    /\ mainPc' = "check"
    /\ UNCHANGED <<i, newFd, called, dropped, workerPc, client_fd, is_occupied, closed, poolWakeups>>

Mut_MainTest ==
    /\ mainPc = "check"
    /\ mainPc' = IF is_occupied[i] /\ i < PoolSize - 1 THEN "next" ELSE "assign"
    /\ UNCHANGED <<i, newFd, called, dropped, workerPc, owner, client_fd, is_occupied, closed,
                   poolWakeups>>

MainTest ==
    /\ mainPc = "check"
    /\ mainPc' = IF is_occupied[i] THEN "next" ELSE "assign"
    /\ UNCHANGED <<i, newFd, called, dropped, workerPc, owner, client_fd, is_occupied, closed,
                   poolWakeups>>

Mut_Assign ==
    /\ mainPc = "assign"
    /\ client_fd' = [client_fd EXCEPT ![i] = newFd]
    /\ is_occupied' = [is_occupied EXCEPT ![i] = TRUE]
    /\ UNCHANGED workerPc
    /\ mainPc' = "unlock"
    /\ UNCHANGED <<i, newFd, called, dropped, owner, closed, poolWakeups>>

\* Fill the record and wake its worker, which takes the mutex again before it
\* looks at the record.
Assign ==
    /\ mainPc = "assign"
    /\ client_fd' = [client_fd EXCEPT ![i] = newFd]
    /\ is_occupied' = [is_occupied EXCEPT ![i] = TRUE]
    /\ IF workerPc[i] = "waiting" THEN WorkerGoto(i, "lock") ELSE UNCHANGED workerPc
    /\ mainPc' = "unlock"
    /\ UNCHANGED <<i, newFd, called, dropped, owner, closed, poolWakeups>>

\* Unlock and break out of the loop.
MainUnlock ==
    /\ mainPc = "unlock"
    /\ Hold(i, "none")
    /\ mainPc' = "accept" /\ i' = 0
    /\ UNCHANGED <<newFd, called, dropped, workerPc, client_fd, is_occupied, closed, poolWakeups>>

\* The record is taken: unlock it and try the next.  After the last one the
\* connection is forgotten, neither served nor closed.
NextRecord ==
    /\ mainPc = "next"
    /\ Hold(i, "none")
    /\ IF i + 1 < PoolSize
       THEN mainPc' = "lock" /\ i' = i + 1 /\ UNCHANGED dropped
       ELSE /\ mainPc' = "accept" /\ i' = 0
            /\ dropped' = dropped \cup ({newFd} \cap Callers)
    /\ UNCHANGED <<newFd, called, workerPc, client_fd, is_occupied, closed, poolWakeups>>

-----------------------------------------------------------------------------
(* A worker (30-49).                                                        *)

WorkerLock(w) ==
    /\ workerPc[w] = "lock"
    /\ owner[w] = "none"
    /\ Hold(w, "worker")
    /\ WorkerGoto(w, "check")
    /\ UNCHANGED <<mainVars, client_fd, is_occupied, closed, poolWakeups>>

Mut_WorkerTest(w) ==
    /\ workerPc[w] = "check"
    /\ WorkerGoto(w, IF is_occupied[w] THEN "serve" ELSE "waiting")
    /\ UNCHANGED <<mainVars, owner, client_fd, is_occupied, closed, poolWakeups>>

WorkerTest(w) ==
    /\ workerPc[w] = "check"
    /\ IF is_occupied[w]
       THEN WorkerGoto(w, "serve") /\ UNCHANGED owner
       ELSE WorkerGoto(w, "waiting") /\ Hold(w, "none")
    /\ UNCHANGED <<mainVars, client_fd, is_occupied, closed, poolWakeups>>

PoolWakeup(w) ==
    /\ workerPc[w] = "waiting"
    /\ poolWakeups < MaxPoolWakeups
    /\ poolWakeups' = poolWakeups + 1
    /\ WorkerGoto(w, "lock")
    /\ UNCHANGED <<mainVars, owner, client_fd, is_occupied, closed>>

\* Read (which a silent client never lets return), answer, close, and only
\* then free the record, all with the mutex held.
ServeCaller(w) ==
    /\ workerPc[w] = "serve"
    /\ closed' = closed \cup ({client_fd[w]} \cap Callers)
    /\ is_occupied' = [is_occupied EXCEPT ![w] = FALSE]
    /\ WorkerGoto(w, "unlock")
    /\ UNCHANGED <<mainVars, owner, client_fd, poolWakeups>>

WorkerUnlock(w) ==
    /\ workerPc[w] = "unlock"
    /\ Hold(w, "none")
    /\ WorkerGoto(w, "lock")
    /\ UNCHANGED <<mainVars, client_fd, is_occupied, closed, poolWakeups>>

PoolMainStep == MainLock \/ MainTest \/ Assign \/ MainUnlock \/ NextRecord

PoolWorkerStep(w) == WorkerLock(w) \/ WorkerTest(w) \/ WorkerUnlock(w)

PoolNext ==
    \/ \E c \in CallerFds : AcceptCaller(c)
    \/ PoolMainStep
    \/ \E w \in PoolWorkers : PoolWorkerStep(w) \/ ServeCaller(w) \/ PoolWakeup(w)

PoolSpec == PoolInit /\ [][PoolNext]_poolVars

\* Threads that can go on do; a client promises nothing, so ServeCaller is fair only
\* where the read fails at once.  A worker and main contend for one mutex, and
\* strong fairness says that neither is passed over for ever.
PoolFairness ==
    /\ WF_poolVars(PoolMainStep) /\ SF_poolVars(MainLock)
    /\ \A w \in PoolWorkers :
         /\ WF_poolVars(PoolWorkerStep(w)) /\ SF_poolVars(WorkerLock(w))
         /\ WF_poolVars(client_fd[w] = FailedFd /\ ServeCaller(w))

PoolFairSpec == PoolSpec /\ PoolFairness

-----------------------------------------------------------------------------
(* Properties.                                                              *)

\* The connection a record holds until its worker has closed it.
Held(w) == IF is_occupied[w] THEN {client_fd[w]} \cap Callers ELSE {}

\* The connection main has accepted and not yet handed to a worker.
MainHolds == IF mainPc \in {"lock", "check", "assign", "next"} THEN {newFd} \cap Callers ELSE {}

\* An accepted connection is in exactly one place: in main's hands, in one
\* occupied record, closed, or forgotten because every record was taken.  None
\* is lost on the way, overwritten in its record, or served by two workers.
NothingLost ==
    /\ called = closed \cup dropped \cup MainHolds \cup UNION {Held(w) : w \in PoolWorkers}
    /\ \A w, v \in PoolWorkers : w # v => Held(w) \cap Held(v) = {}
    /\ \A w \in PoolWorkers : Held(w) \cap (closed \cup dropped \cup MainHolds) = {}
    /\ closed \cap dropped = {} /\ MainHolds \cap (closed \cup dropped) = {}

\* A busy worker makes main wait, not drop: when a connection is dropped, the
\* last worker has not begun to serve the connection its record holds.
DropsOnlyBehindUnserved ==
    [][\A c \in Callers : c \in dropped' \ dropped =>
         is_occupied[PoolSize - 1] /\ workerPc[PoolSize - 1] \notin {"serve", "unlock"}]_poolVars

\* A record that was filled is served: its worker was asleep and got the
\* signal, or was awake and sees is_occupied before it sleeps.
FilledIsServed == \A w \in PoolWorkers : is_occupied[w] ~> workerPc[w] = "serve"

\* main gets past every record whose worker is not stuck with a silent client.
MainMovesOn ==
    \A w \in PoolWorkers : (mainPc = "lock" /\ i = w) ~> (mainPc # "lock" \/ workerPc[w] = "serve")

=============================================================================
