---------------------------- MODULE MCTimeServers ----------------------------
(***************************************************************************)
(* The two threaded time servers of the lab for TLC, one of them in each      *)
(* behaviour: `which` says which it is, the variables of the other keep their *)
(* first values.  A ring smaller than the number of clients wraps around,     *)
(* fills up and runs empty while workers sleep; fewer records than clients    *)
(* are used again, and connections are dropped.                               *)
(***************************************************************************)
EXTENDS RequestQueue, ThreadPool

VARIABLE which

TimeInit == which \in {"queue", "pool"} /\ Init /\ PoolInit

TimeNext ==
    /\ UNCHANGED which
    /\ \/ which = "queue" /\ Next /\ UNCHANGED poolVars
       \/ which = "pool" /\ PoolNext /\ UNCHANGED vars

\* Fairness and PoolFairness, each while its server runs: the other one owes no step.
TimeFairness ==
    /\ WF_vars(which = "queue" /\ MainStep)
    /\ \A w \in Workers :
         /\ WF_vars(which = "queue" /\ WorkerStep(w))
         /\ WF_vars(which = "queue" /\ request[w] = BadFd /\ Serve(w))
    /\ WF_poolVars(which = "pool" /\ PoolMainStep) /\ SF_poolVars(which = "pool" /\ MainLock)
    /\ \A w \in PoolWorkers :
         /\ WF_poolVars(which = "pool" /\ PoolWorkerStep(w))
         /\ SF_poolVars(which = "pool" /\ WorkerLock(w))
         /\ WF_poolVars(which = "pool" /\ client_fd[w] = FailedFd /\ ServeCaller(w))

TimeSpec == TimeInit /\ [][TimeNext]_<<which, vars, poolVars>> /\ TimeFairness
=============================================================================
