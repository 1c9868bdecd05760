---------------------------- MODULE StallMarket ----------------------------
(***************************************************************************)
(* lab11/task.c: buyers go to the first stall whose mutex they can have       *)
(* without waiting, and buy piece by piece until they have enough or the      *)
(* stall is empty; a loader adds to one stall after the other, chosen at      *)
(* random, until every buyer has finished.                                    *)
(*                                                                            *)
(* The decrements and increments of shared memory are a load and a store in   *)
(* two steps, so the models show what the mutexes are for.                    *)
(***************************************************************************)
EXTENDS Naturals, FiniteSets

CONSTANTS
    Buyers,            \* the three buyer threads
    Loader,            \* the loader thread
    NumStalls,         \* NUM_STALLS
    InitMin, InitMax,  \* INIT_MIN, INIT_MAX
    NeedMin, NeedMax,  \* NEED_MIN, NEED_MAX
    Load,              \* LOADER_ADD
    Nobody,            \* no owner of a mutex
    Unset,             \* a need that was never assigned
    MaxGoods           \* bound: what a stall may hold

ASSUME MarketAssumption ==
    /\ NumStalls \in Nat \ {0} /\ Load \in Nat /\ MaxGoods \in Nat
    /\ InitMin \in Nat /\ InitMax \in Nat /\ NeedMin \in Nat /\ NeedMax \in Nat
    /\ IsFiniteSet(Buyers) /\ Loader \notin Buyers
    /\ Nobody \notin Buyers \cup {Loader}
    /\ Unset \notin Nat

Threads == Buyers \cup {Loader}
Stalls == 0 .. NumStalls - 1

VARIABLES
    pc,        \* where each thread is
    goods,     \* stalls[s].goods
    mutex,     \* stalls[s].mutex: its owner
    need,      \* of each buyer
    at,        \* i and stall_index of each thread
    seen,      \* the value a thread has loaded and not stored yet, or 0
    finished,  \* buyers_finished
    finishedMutex,
    open,      \* main has not yet destroyed the mutexes
    taken      \* history: what a buyer bought in the present visit

vars == <<pc, goods, mutex, need, at, seen, finished, finishedMutex, open, taken>>

InStall == {"stall", "take", "load", "store"}
Locs == InStall \cup {"start", "scan", "sleep", "finish", "count", "counted", "done",
                      "lock", "look", "pick", "enter"}

TypeOK ==
    /\ pc \in [Threads -> Locs]
    /\ goods \in [Stalls -> Nat]
    /\ mutex \in [Stalls -> Threads \cup {Nobody}]
    /\ need \in [Buyers -> Nat \cup {Unset}]
    /\ at \in [Threads -> 0 .. NumStalls]
    /\ seen \in [Threads -> Nat]
    /\ finished \in Nat
    /\ finishedMutex \in Threads \cup {Nobody}
    /\ open \in BOOLEAN
    /\ taken \in [Buyers -> Nat]

Init ==
    /\ pc = [t \in Threads |-> IF t = Loader THEN "lock" ELSE "start"]
    /\ goods \in [Stalls -> InitMin .. InitMax]
    /\ mutex = [s \in Stalls |-> Nobody]
    /\ need = [b \in Buyers |-> Unset]
    /\ at = [t \in Threads |-> 0]
    /\ seen = [t \in Threads |-> 0]
    /\ finished = 0
    /\ finishedMutex = Nobody
    /\ open = TRUE
    /\ taken = [b \in Buyers |-> 0]

Goto(t, loc) == pc' = [pc EXCEPT ![t] = loc]

-----------------------------------------------------------------------------
(* A buyer.                                                                 *)

\* The head of the loop while (need > 0): where a need of n leads.
Again(n, loc) == IF n > 0 THEN loc ELSE "finish"

Start(b) ==
    /\ pc[b] = "start"
    /\ \E n \in NeedMin .. NeedMax :
         /\ need' = [need EXCEPT ![b] = n]
         /\ Goto(b, Again(n, "scan"))
    /\ UNCHANGED <<goods, mutex, at, seen, finished, finishedMutex, open, taken>>

\* Without the mutex.
Mut_TryLock(b) ==
    /\ pc[b] = "scan"
    /\ at[b] \in Stalls
    /\ mutex' = [mutex EXCEPT ![at[b]] = b]
    /\ Goto(b, "stall")
    /\ UNCHANGED <<goods, need, at, seen, finished, finishedMutex, open, taken>>

TryLock(b) ==
    /\ pc[b] = "scan"
    /\ at[b] \in Stalls
    /\ \/ /\ mutex[at[b]] = Nobody
          /\ mutex' = [mutex EXCEPT ![at[b]] = b]
          /\ Goto(b, "stall")
          /\ UNCHANGED at
       \/ /\ mutex[at[b]] # Nobody
          /\ at' = [at EXCEPT ![b] = @ + 1]
          /\ UNCHANGED <<mutex, pc>>
    /\ UNCHANGED <<goods, need, seen, finished, finishedMutex, open, taken>>

\* Every stall was taken when the buyer came by.
NoStall(b) ==
    /\ pc[b] = "scan"
    /\ at[b] = NumStalls
    /\ Goto(b, "sleep")
    /\ UNCHANGED <<goods, mutex, need, at, seen, finished, finishedMutex, open, taken>>

WakeUp(b) ==
    /\ pc[b] = "sleep"
    /\ at' = [at EXCEPT ![b] = 0]
    /\ Goto(b, "scan")
    /\ UNCHANGED <<goods, mutex, need, seen, finished, finishedMutex, open, taken>>

\* need > 0 && goods > 0, and goods-- has loaded the value.
Look(b) ==
    /\ pc[b] = "stall"
    /\ need[b] > 0 /\ goods[at[b]] > 0
    /\ seen' = [seen EXCEPT ![b] = goods[at[b]]]
    /\ Goto(b, "take")
    /\ UNCHANGED <<goods, mutex, need, at, finished, finishedMutex, open, taken>>

Take(b) ==
    /\ pc[b] = "take"
    /\ goods' = [goods EXCEPT ![at[b]] = seen[b] - 1]
    /\ need' = [need EXCEPT ![b] = @ - 1]
    /\ taken' = [taken EXCEPT ![b] = @ + 1]
    /\ seen' = [seen EXCEPT ![b] = 0]
    /\ Goto(b, "stall")
    /\ UNCHANGED <<mutex, at, finished, finishedMutex, open>>

\* The unlock is under "need > 0", like the sleep.
Mut_Leave(b) ==
    /\ pc[b] = "stall"
    /\ need[b] = 0 \/ goods[at[b]] = 0
    /\ mutex' = IF need[b] > 0 THEN [mutex EXCEPT ![at[b]] = Nobody] ELSE mutex
    /\ taken' = [taken EXCEPT ![b] = 0]
    /\ Goto(b, Again(need[b], "sleep"))
    /\ UNCHANGED <<goods, need, at, seen, finished, finishedMutex, open>>

Leave(b) ==
    /\ pc[b] = "stall"
    /\ need[b] = 0 \/ goods[at[b]] = 0
    /\ mutex' = [mutex EXCEPT ![at[b]] = Nobody]
    /\ taken' = [taken EXCEPT ![b] = 0]
    /\ Goto(b, Again(need[b], "sleep"))
    /\ UNCHANGED <<goods, need, at, seen, finished, finishedMutex, open>>

-----------------------------------------------------------------------------
(* buyers_finished and its mutex.                                           *)

LockFinished(t, from, to) ==
    /\ pc[t] = from
    /\ finishedMutex = Nobody
    /\ finishedMutex' = t
    /\ Goto(t, to)
    /\ UNCHANGED <<goods, mutex, need, at, seen, finished, open, taken>>

LoadFinished(b) ==
    /\ pc[b] = "count"
    /\ seen' = [seen EXCEPT ![b] = finished]
    /\ Goto(b, "counted")
    /\ UNCHANGED <<goods, mutex, need, at, finished, finishedMutex, open, taken>>

StoreFinished(b) ==
    /\ pc[b] = "counted"
    /\ finished' = seen[b] + 1
    /\ finishedMutex' = Nobody
    /\ seen' = [seen EXCEPT ![b] = 0]
    /\ Goto(b, "done")
    /\ UNCHANGED <<goods, mutex, need, at, open, taken>>

Buyer(b) ==
    \/ Start(b) \/ TryLock(b) \/ NoStall(b) \/ WakeUp(b)
    \/ Look(b) \/ Take(b) \/ Leave(b)
    \/ LockFinished(b, "finish", "count") \/ LoadFinished(b) \/ StoreFinished(b)

-----------------------------------------------------------------------------
(* The loader.                                                              *)

\* buyers_finished >= 3
Mut_AllFinished == finished + 1 >= Cardinality(Buyers)

AllFinished == finished >= Cardinality(Buyers)

Room(s) == goods[s] + Load <= MaxGoods

LookAtFinished ==
    /\ pc[Loader] = "look"
    /\ finishedMutex' = Nobody
    /\ Goto(Loader, IF AllFinished THEN "done" ELSE "pick")
    /\ UNCHANGED <<goods, mutex, need, at, seen, finished, open, taken>>

\* rand() % NUM_STALLS; the bound keeps it from stalls that are full.
Pick(s) ==
    /\ pc[Loader] = "pick"
    /\ Room(s)
    /\ at' = [at EXCEPT ![Loader] = s]
    /\ Goto(Loader, "enter")
    /\ UNCHANGED <<goods, mutex, need, seen, finished, finishedMutex, open, taken>>

Enter ==
    /\ pc[Loader] = "enter"
    /\ mutex[at[Loader]] = Nobody
    /\ mutex' = [mutex EXCEPT ![at[Loader]] = Loader]
    /\ Goto(Loader, "load")
    /\ UNCHANGED <<goods, need, at, seen, finished, finishedMutex, open, taken>>

LoadGoods ==
    /\ pc[Loader] = "load"
    /\ seen' = [seen EXCEPT ![Loader] = goods[at[Loader]]]
    /\ Goto(Loader, "store")
    /\ UNCHANGED <<goods, mutex, need, at, finished, finishedMutex, open, taken>>

AddGoods ==
    /\ pc[Loader] = "store"
    /\ goods' = [goods EXCEPT ![at[Loader]] = seen[Loader] + Load]
    /\ mutex' = [mutex EXCEPT ![at[Loader]] = Nobody]
    /\ seen' = [seen EXCEPT ![Loader] = 0]
    /\ Goto(Loader, "sleep")
    /\ UNCHANGED <<need, at, finished, finishedMutex, open, taken>>

\* The bound: the loader sleeps on while every stall is full.
LoaderWakes ==
    /\ pc[Loader] = "sleep"
    /\ AllFinished \/ \E s \in Stalls : Room(s)
    /\ Goto(Loader, "lock")
    /\ UNCHANGED <<goods, mutex, need, at, seen, finished, finishedMutex, open, taken>>

LoaderStep ==
    \/ LockFinished(Loader, "lock", "look") \/ LookAtFinished
    \/ \E s \in Stalls : Pick(s)
    \/ Enter \/ LoadGoods \/ AddGoods \/ LoaderWakes

\* main has joined every thread and destroys the mutexes.
Close ==
    /\ open
    /\ \A t \in Threads : pc[t] = "done"
    /\ open' = FALSE
    /\ UNCHANGED <<pc, goods, mutex, need, at, seen, finished, finishedMutex, taken>>

Next == (\E b \in Buyers : Buyer(b)) \/ LoaderStep \/ Close

Spec == Init /\ [][Next]_vars

\* Threads that can go on do, the loader gets the mutex it waits for in the end
\* (buyers sleep for two seconds between visits), and rand() leaves no stall out.
FairSpec ==
    /\ Spec
    /\ \A b \in Buyers : WF_vars(Buyer(b))
    /\ WF_vars(LoaderStep) /\ WF_vars(Close)
    /\ SF_vars(Enter)
    /\ \A s \in Stalls : SF_vars(Pick(s))

-----------------------------------------------------------------------------
(* Properties.                                                              *)

\* A visit is one purchase: while a buyer is inside, the stall's stock and the
\* buyer's need are those before the visit.
StockBefore(s) ==
    goods[s] + (IF mutex[s] \in Buyers THEN taken[mutex[s]] ELSE 0)

NeedBefore(b) == IF need[b] = Unset THEN Unset ELSE need[b] + taken[b]

Shop == INSTANCE Market WITH
    stock <- [s \in Stalls |-> StockBefore(s)],
    wants <- [b \in Buyers |-> NeedBefore(b)]

\* However the buyers' piecewise decrements (task.c:69-71) and the loader's
\* increments (124) interleave, the stalls behave as if each visit were a single
\* purchase that ends with a satisfied buyer or an empty stall: no piece is sold
\* twice and no delivery is lost.
ImplementsMarket == Shop!Market

\* The loader stops only when nobody needs anything any more: the count it reads
\* (task.c:109) is never ahead of the buyers.
LoaderLeavesLast == pc[Loader] = "done" => \A b \in Buyers : need[b] = 0

\* Every buyer is satisfied and main gets past its joins (task.c:163-167), although
\* each buyer goes to the lowest free stall, empty or not.
MarketCloses == <>(~open)
=============================================================================
