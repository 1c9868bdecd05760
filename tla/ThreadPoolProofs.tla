-------------------------- MODULE ThreadPoolProofs --------------------------
(***************************************************************************)
(* NothingLost of ThreadPool for any number of clients and workers.  The      *)
(* strengthening says who holds a record's mutex while main or its worker     *)
(* looks at the record: only then does is_occupied, once tested, stay as it   *)
(* was until it is set.                                                       *)
(***************************************************************************)
EXTENDS ThreadPool, TLAPS

\* The locations at which main has the mutex of record i, and worker w its own.
MainInside == {"check", "assign", "unlock", "next"}
WorkerInside == {"check", "serve", "unlock"}

MutexHeld ==
    /\ mainPc \in MainInside => owner[i] = "main"
    /\ \A w \in PoolWorkers : workerPc[w] \in WorkerInside => owner[w] = "worker"

TestStands ==
    /\ mainPc = "assign" => ~is_occupied[i]
    /\ mainPc = "next" => is_occupied[i]
    /\ \A w \in PoolWorkers : workerPc[w] = "serve" => is_occupied[w]

PoolInv == PoolTypeOK /\ MutexHeld /\ TestStands /\ NothingLost

\* What NothingLost speaks of.
Places == <<called, closed, dropped, MainHolds, is_occupied, client_fd>>

-----------------------------------------------------------------------------

\* The workers are numbered from 0, so there is a first and a last record.
LEMMA WorkersFact == 0 \in PoolWorkers /\ PoolSize - 1 \in PoolWorkers /\ PoolWorkers \subseteq Int
  BY PoolAssumption DEF PoolWorkers

\* A step that moves no connection keeps the account.
LEMMA PlacesStay ==
  ASSUME NothingLost, UNCHANGED Places
  PROVE  NothingLost'
<1>1. \A w \in PoolWorkers : Held(w)' = Held(w)
  BY DEF Held, Places
<1> QED
  BY <1>1 DEF NothingLost, Places

\* The types and the two auxiliary facts hold at the start, where nobody is inside.
LEMMA InitInv == PoolInit => PoolInv
<1> SUFFICES ASSUME PoolInit PROVE PoolInv
  OBVIOUS
<1>1. PoolTypeOK
  BY WorkersFact, PoolAssumption DEF PoolInit, PoolTypeOK, CallerFds
<1>2. MutexHeld /\ TestStands
  BY DEF PoolInit, MutexHeld, TestStands, MainInside, WorkerInside
<1>3. \A w \in PoolWorkers : Held(w) = {}
  BY DEF PoolInit, Held
<1>4. MainHolds = {}
  BY DEF PoolInit, MainHolds
<1>5. NothingLost
  BY <1>3, <1>4 DEF PoolInit, NothingLost
<1> QED
  BY <1>1, <1>2, <1>5 DEF PoolInv

-----------------------------------------------------------------------------
(* The steps, one by one.                                                   *)

\* Every step keeps the types.
LEMMA TypeStep == PoolTypeOK /\ [PoolNext]_poolVars => PoolTypeOK'
<1> SUFFICES ASSUME PoolTypeOK, [PoolNext]_poolVars PROVE PoolTypeOK'
  OBVIOUS
<1> USE DEF PoolTypeOK, WorkerGoto, Hold, CallerFds
<1>1. ASSUME NEW c \in CallerFds, AcceptCaller(c) PROVE PoolTypeOK'
  BY <1>1, WorkersFact DEF AcceptCaller
<1>2. ASSUME MainLock \/ MainTest PROVE PoolTypeOK'
  BY <1>2 DEF MainLock, MainTest
<1>3. ASSUME Assign PROVE PoolTypeOK'
  BY <1>3 DEF Assign
<1>4. ASSUME MainUnlock PROVE PoolTypeOK'
  BY <1>4, WorkersFact DEF MainUnlock
<1>5. ASSUME NextRecord PROVE PoolTypeOK'
  <2>1. i + 1 < PoolSize => i + 1 \in PoolWorkers
    BY PoolAssumption DEF PoolWorkers
  <2> QED
    BY <1>5, <2>1, WorkersFact DEF NextRecord
<1>6. ASSUME NEW w \in PoolWorkers, WorkerLock(w) \/ WorkerTest(w) \/ WorkerUnlock(w)
      PROVE  PoolTypeOK'
  BY <1>6 DEF WorkerLock, WorkerTest, WorkerUnlock, mainVars
<1>7. ASSUME NEW w \in PoolWorkers, ServeCaller(w) PROVE PoolTypeOK'
  BY <1>7 DEF ServeCaller, mainVars
<1>8. ASSUME NEW w \in PoolWorkers, PoolWakeup(w) PROVE PoolTypeOK'
  BY <1>8, PoolAssumption DEF PoolWakeup, mainVars
<1>9. CASE UNCHANGED poolVars
  BY <1>9 DEF poolVars, mainVars
<1> QED
  BY <1>1, <1>2, <1>3, <1>4, <1>5, <1>6, <1>7, <1>8, <1>9 DEF PoolNext, PoolMainStep, PoolWorkerStep

\* Main and a worker are inside a record's section only with its mutex.
LEMMA MutexStep == PoolTypeOK /\ MutexHeld /\ [PoolNext]_poolVars => MutexHeld'
<1> SUFFICES ASSUME PoolTypeOK, MutexHeld, [PoolNext]_poolVars PROVE MutexHeld'
  OBVIOUS
<1> USE DEF PoolTypeOK, MutexHeld, MainInside, WorkerInside, WorkerGoto, Hold
<1>1. ASSUME NEW c \in CallerFds, AcceptCaller(c) PROVE MutexHeld'
  BY <1>1 DEF AcceptCaller
<1>2. ASSUME MainLock \/ MainTest PROVE MutexHeld'
  BY <1>2 DEF MainLock, MainTest
<1>3. ASSUME Assign PROVE MutexHeld'
  BY <1>3 DEF Assign
<1>4. ASSUME MainUnlock \/ NextRecord PROVE MutexHeld'
  BY <1>4 DEF MainUnlock, NextRecord
<1>5. ASSUME NEW w \in PoolWorkers, PoolWorkerStep(w) \/ ServeCaller(w) \/ PoolWakeup(w)
      PROVE  MutexHeld'
  BY <1>5 DEF PoolWorkerStep, WorkerLock, WorkerTest, WorkerUnlock, ServeCaller, PoolWakeup, mainVars
<1>6. CASE UNCHANGED poolVars
  BY <1>6 DEF poolVars, mainVars
<1> QED
  BY <1>1, <1>2, <1>3, <1>4, <1>5, <1>6 DEF PoolNext, PoolMainStep

\* What main and a worker found in is_occupied still holds when they act on it.
LEMMA TestStep == PoolTypeOK /\ MutexHeld /\ TestStands /\ [PoolNext]_poolVars => TestStands'
<1> SUFFICES ASSUME PoolTypeOK, MutexHeld, TestStands, [PoolNext]_poolVars PROVE TestStands'
  OBVIOUS
<1> USE DEF PoolTypeOK, TestStands, WorkerGoto, Hold
<1>1. ASSUME NEW c \in CallerFds, AcceptCaller(c) PROVE TestStands'
  BY <1>1 DEF AcceptCaller
<1>2. ASSUME MainLock \/ MainTest PROVE TestStands'
  BY <1>2 DEF MainLock, MainTest
<1>3. ASSUME Assign PROVE TestStands'
  BY <1>3 DEF Assign
<1>4. ASSUME MainUnlock \/ NextRecord PROVE TestStands'
  BY <1>4 DEF MainUnlock, NextRecord
<1>5. ASSUME NEW w \in PoolWorkers, PoolWorkerStep(w) \/ PoolWakeup(w) PROVE TestStands'
  BY <1>5 DEF PoolWorkerStep, WorkerLock, WorkerTest, WorkerUnlock, PoolWakeup, mainVars
<1>6. ASSUME NEW w \in PoolWorkers, ServeCaller(w) PROVE TestStands'
  <2>1. workerPc[w] = "serve" /\ UNCHANGED <<mainPc, i>>
    BY <1>6 DEF ServeCaller, mainVars
  <2>2. mainPc \in {"assign", "next"} => i # w
    BY <2>1 DEF MutexHeld, MainInside, WorkerInside
  <2> QED
    BY <1>6, <2>1, <2>2 DEF ServeCaller
<1>7. CASE UNCHANGED poolVars
  BY <1>7 DEF poolVars, mainVars
<1> QED
  BY <1>1, <1>2, <1>3, <1>4, <1>5, <1>6, <1>7 DEF PoolNext, PoolMainStep

\* A connection that arrives is new: it is in no place before it is in main's hands.
LEMMA AcceptKeeps ==
  ASSUME PoolInv, NEW c \in CallerFds, AcceptCaller(c)
  PROVE  NothingLost'
<1>1. \A w \in PoolWorkers : Held(w)' = Held(w)
  BY DEF AcceptCaller, Held
<1>2. MainHolds = {} /\ MainHolds' = {c} \cap Callers
  BY DEF AcceptCaller, MainHolds
<1>3. c \notin closed \cup dropped /\ \A w \in PoolWorkers : c \notin Held(w)
  BY DEF PoolInv, NothingLost, AcceptCaller
<1>4. called' = called \cup MainHolds' /\ closed' = closed /\ dropped' = dropped
  BY <1>2 DEF AcceptCaller
<1> QED
  BY <1>1, <1>2, <1>3, <1>4 DEF PoolInv, NothingLost

\* main's connection moves into a record that was free.
LEMMA AssignKeeps ==
  ASSUME PoolInv, Assign
  PROVE  NothingLost'
<1>1. i \in PoolWorkers /\ Held(i) = {}
  BY DEF PoolInv, PoolTypeOK, TestStands, Assign, Held
<1>2. Held(i)' = MainHolds
  BY DEF PoolInv, PoolTypeOK, Assign, Held, MainHolds
<1>3. \A w \in PoolWorkers : w # i => Held(w)' = Held(w)
  BY DEF PoolInv, PoolTypeOK, Assign, Held
<1>4. MainHolds' = {}
  BY DEF Assign, MainHolds
<1>5. called' = called /\ closed' = closed /\ dropped' = dropped /\ i' = i
  BY DEF Assign
<1>6. UNION {Held(w)' : w \in PoolWorkers} = MainHolds \cup UNION {Held(w) : w \in PoolWorkers}
  BY <1>1, <1>2, <1>3, <1>5
<1> QED
  BY <1>1, <1>2, <1>3, <1>4, <1>5, <1>6 DEF PoolInv, NothingLost

\* main passes on to the next record with the connection in its hands, or forgets it.
LEMMA NextRecordKeeps ==
  ASSUME PoolInv, NextRecord
  PROVE  NothingLost'
<1>1. \A w \in PoolWorkers : Held(w)' = Held(w)
  BY DEF NextRecord, Held
<1>2. CASE i + 1 < PoolSize
  <2>1. MainHolds' = MainHolds
    BY <1>2 DEF NextRecord, MainHolds
  <2> QED
    BY <1>2, <2>1, PlacesStay DEF PoolInv, NextRecord, Places
<1>3. CASE ~(i + 1 < PoolSize)
  <2>1. MainHolds' = {} /\ dropped' = dropped \cup MainHolds
    BY <1>3 DEF NextRecord, MainHolds
  <2>2. called' = called /\ closed' = closed
    BY DEF NextRecord
  <2> QED
    BY <1>1, <2>1, <2>2 DEF PoolInv, NothingLost
<1> QED
  BY <1>2, <1>3

\* A worker closes the connection of its own record and frees the record.
LEMMA ServeKeeps ==
  ASSUME PoolInv, NEW w \in PoolWorkers, ServeCaller(w)
  PROVE  NothingLost'
<1>1. Held(w) = {client_fd[w]} \cap Callers
  BY DEF PoolInv, TestStands, ServeCaller, Held
<1>2. Held(w)' = {}
  BY DEF PoolInv, PoolTypeOK, ServeCaller, Held
<1>3. \A v \in PoolWorkers : v # w => Held(v)' = Held(v)
  BY DEF PoolInv, PoolTypeOK, ServeCaller, Held
<1>4. MainHolds' = MainHolds /\ closed' = closed \cup Held(w)
  BY <1>1 DEF ServeCaller, MainHolds, mainVars
<1>5. called' = called /\ dropped' = dropped
  BY DEF ServeCaller, mainVars
<1>6. UNION {Held(v) : v \in PoolWorkers} = Held(w) \cup UNION {Held(v)' : v \in PoolWorkers}
  BY <1>2, <1>3
<1> QED
  BY <1>2, <1>3, <1>4, <1>5, <1>6 DEF PoolInv, NothingLost

\* All other steps move no connection.
LEMMA OthersKeep ==
  ASSUME PoolInv,
         \/ MainLock \/ MainTest \/ MainUnlock \/ UNCHANGED poolVars
         \/ \E w \in PoolWorkers : PoolWorkerStep(w) \/ PoolWakeup(w)
  PROVE  NothingLost'
<1>1. CASE MainLock \/ MainTest \/ MainUnlock
  BY <1>1, PlacesStay DEF PoolInv, Places, MainHolds, MainLock, MainTest, MainUnlock
<1>2. ASSUME NEW w \in PoolWorkers, PoolWorkerStep(w) \/ PoolWakeup(w) PROVE NothingLost'
  BY <1>2, PlacesStay
  DEF PoolInv, Places, MainHolds, PoolWorkerStep, WorkerLock, WorkerTest, WorkerUnlock,
      PoolWakeup, mainVars
<1>3. CASE UNCHANGED poolVars
  BY <1>3, PlacesStay DEF PoolInv, Places, MainHolds, poolVars, mainVars
<1> QED
  BY <1>1, <1>2, <1>3

-----------------------------------------------------------------------------

LEMMA PoolStep == PoolInv /\ [PoolNext]_poolVars => PoolInv'
<1> SUFFICES ASSUME PoolInv, [PoolNext]_poolVars PROVE PoolInv'
  OBVIOUS
<1>1. PoolTypeOK' /\ MutexHeld' /\ TestStands'
  BY TypeStep, MutexStep, TestStep DEF PoolInv
<1>2. NothingLost'
  BY AcceptKeeps, AssignKeeps, NextRecordKeeps, ServeKeeps, OthersKeep DEF PoolNext, PoolMainStep
<1> QED
  BY <1>1, <1>2 DEF PoolInv

\* No connection that accept returned is lost, served twice or overwritten, for any
\* number of clients and of records (main 90-106, worker_function 30-49).
THEOREM HandOverTheorem == PoolSpec => []NothingLost
<1>1. PoolInv => NothingLost
  BY DEF PoolInv
<1> QED
  BY <1>1, InitInv, PoolStep, PTL DEF PoolSpec

\* When a connection is forgotten, the last worker has not begun to serve the one in its
\* record: main holds that record's mutex, and has found it occupied (main 93-105).
THEOREM DropTheorem == PoolSpec => DropsOnlyBehindUnserved
<1> DEFINE Unserved == \A c \in Callers : c \in dropped' \ dropped =>
                          is_occupied[PoolSize - 1] /\ workerPc[PoolSize - 1] \notin {"serve", "unlock"}
<1>1. PoolInv /\ [PoolNext]_poolVars => [Unserved]_poolVars
  <2> SUFFICES ASSUME PoolInv, PoolNext, NEW c \in Callers, c \in dropped' \ dropped
               PROVE  is_occupied[PoolSize - 1] /\ workerPc[PoolSize - 1] \notin {"serve", "unlock"}
    OBVIOUS
  <2>1. CASE NextRecord
    <3>1. mainPc = "next" /\ ~ (i + 1 < PoolSize)
      BY <2>1 DEF NextRecord
    <3>2. i = PoolSize - 1 /\ i \in PoolWorkers
      BY <3>1, PoolAssumption DEF PoolInv, PoolTypeOK, PoolWorkers
    <3> QED
      BY <3>1, <3>2 DEF PoolInv, TestStands, MutexHeld, MainInside, WorkerInside
  <2>2. CASE MainLock \/ MainTest \/ Assign \/ MainUnlock \/ \E d \in CallerFds : AcceptCaller(d)
    BY <2>2 DEF MainLock, MainTest, Assign, MainUnlock, AcceptCaller
  <2>3. CASE \E w \in PoolWorkers : PoolWorkerStep(w) \/ ServeCaller(w) \/ PoolWakeup(w)
    BY <2>3
    DEF PoolWorkerStep, WorkerLock, WorkerTest, WorkerUnlock, ServeCaller, PoolWakeup, mainVars
  <2> QED
    BY <2>1, <2>2, <2>3 DEF PoolNext, PoolMainStep
<1> QED
  BY <1>1, InitInv, PoolStep, PTL DEF PoolSpec, DropsOnlyBehindUnserved
=============================================================================
