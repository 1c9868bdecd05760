--------------------------- MODULE LabProgramsProofs ---------------------------
(***************************************************************************)
(* The small programs of the labs, one section for each; every theorem holds  *)
(* for any number of stalls, stages, clients, hosts or entries.  A section    *)
(* has the invariant of its program, a lemma for each action (or for actions  *)
(* that disturb the same things) and the theorem.                             *)
(***************************************************************************)
EXTENDS StallMarket, ArrayBook, FileManager, Pipeline, StreamServers, DgramServers,
        GroupAck, RawUdp, Checksum, FiniteSetTheorems, SequenceTheorems, TLAPS

-----------------------------------------------------------------------------
(* Sequences.                                                               *)

LEMMA TailFacts ==
    ASSUME NEW S, NEW q \in Seq(S), q # << >>
    PROVE  /\ 1 \in DOMAIN q /\ Head(q) = q[1] /\ Head(q) \in S
           /\ Tail(q) \in Seq(S)
           /\ DOMAIN Tail(q) = 1 .. Len(q) - 1
           /\ \A m \in DOMAIN Tail(q) : m + 1 \in DOMAIN q /\ m + 1 # 1 /\ Tail(q)[m] = q[m + 1]
           /\ q = << Head(q) >> \o Tail(q)
<1>1. Len(q) \in Nat \ {0} /\ DOMAIN q = 1 .. Len(q) /\ Head(q) = q[1]
  BY EmptySeq, LenProperties
<1>2. /\ Head(q) \in S /\ Tail(q) \in Seq(S) /\ Len(Tail(q)) = Len(q) - 1
      /\ \A m \in 1 .. Len(Tail(q)) : Tail(q)[m] = q[m + 1]
  BY HeadTailProperties
<1>3. DOMAIN Tail(q) = 1 .. Len(q) - 1
  BY <1>2, LenProperties
<1>4. \A m \in DOMAIN Tail(q) : m + 1 \in DOMAIN q /\ m + 1 # 1 /\ Tail(q)[m] = q[m + 1]
  BY <1>1, <1>2, <1>3
<1>5. q = << Head(q) >> \o Tail(q)
  <2> DEFINE o == << Head(q) >>
             r == o \o Tail(q)
  <2>1. o \in Seq(S) /\ Len(o) = 1 /\ o[1] = Head(q)
    BY <1>2
  <2>2. /\ r \in Seq(S) /\ Len(r) = Len(o) + Len(Tail(q))
        /\ \A m \in 1 .. Len(o) + Len(Tail(q)) : r[m] = IF m <= Len(o) THEN o[m] ELSE Tail(q)[m - Len(o)]
    BY <1>2, <2>1, ConcatProperties
  <2>3. Len(r) = Len(q)
    BY <1>1, <1>2, <2>1, <2>2
  <2>4. \A m \in 1 .. Len(r) : r[m] = q[m]
    <3> SUFFICES ASSUME NEW m \in 1 .. Len(r) PROVE r[m] = q[m]
      OBVIOUS
    <3>1. r[m] = IF m <= 1 THEN o[m] ELSE Tail(q)[m - 1]
      BY <2>1, <2>2
    <3>2. CASE m = 1
      BY <1>1, <2>1, <3>1, <3>2
    <3>3. CASE m # 1
      <4>1. m - 1 \in 1 .. Len(Tail(q)) /\ (m - 1) + 1 = m /\ ~(m <= 1)
        BY <1>1, <1>2, <2>3, <3>3
      <4> QED
        BY <1>2, <3>1, <4>1
    <3> QED
      BY <3>2, <3>3
  <2> HIDE DEF o, r
  <2>5. r = q
    BY <2>2, <2>3, <2>4, SeqEqual
  <2> QED
    BY <2>5 DEF r, o
<1> QED
  BY <1>1, <1>2, <1>3, <1>4, <1>5

LEMMA AppendFacts ==
    ASSUME NEW S, NEW q \in Seq(S), NEW e \in S
    PROVE  /\ Append(q, e) \in Seq(S)
           /\ Len(q) \in Nat /\ DOMAIN q = 1 .. Len(q) /\ Len(q) + 1 \notin DOMAIN q
           /\ DOMAIN Append(q, e) = DOMAIN q \cup {Len(q) + 1}
           /\ \A m \in DOMAIN q : Append(q, e)[m] = q[m]
           /\ Append(q, e)[Len(q) + 1] = e
           /\ Append(q, e) = q \o << e >>
<1>1. Len(q) \in Nat /\ DOMAIN q = 1 .. Len(q)
  BY LenProperties
<1>2. /\ Append(q, e) \in Seq(S) /\ Len(Append(q, e)) = Len(q) + 1
      /\ \A m \in 1 .. Len(q) : Append(q, e)[m] = q[m]
      /\ Append(q, e)[Len(q) + 1] = e
  BY AppendProperties
<1>3. DOMAIN Append(q, e) = 1 .. Len(q) + 1
  BY <1>2, LenProperties
<1>4. Append(q, e) = q \o << e >>
  BY AppendIsConcat
<1> QED
  BY <1>1, <1>2, <1>3, <1>4

\* A queue of different things, when its first one is taken.
LEMMA QueueTail ==
    ASSUME NEW S, NEW q \in Seq(S), q # << >>, IsInjective(q)
    PROVE  /\ Head(q) \in S /\ Head(q) \in Range(q) /\ Tail(q) \in Seq(S)
           /\ IsInjective(Tail(q)) /\ Range(Tail(q)) = Range(q) \ {Head(q)}
<1>1. /\ 1 \in DOMAIN q /\ Head(q) = q[1] /\ Head(q) \in S
      /\ Tail(q) \in Seq(S)
      /\ DOMAIN Tail(q) = 1 .. Len(q) - 1 /\ DOMAIN q = 1 .. Len(q) /\ Len(q) \in Nat
      /\ \A m \in DOMAIN Tail(q) : m + 1 \in DOMAIN q /\ m + 1 # 1 /\ Tail(q)[m] = q[m + 1]
  BY TailFacts, LenProperties
<1>2. IsInjective(Tail(q))
  <2> SUFFICES ASSUME NEW j \in DOMAIN Tail(q), NEW k \in DOMAIN Tail(q),
                      Tail(q)[j] = Tail(q)[k]
               PROVE  j = k
    BY DEF IsInjective
  <2>1. j + 1 = k + 1
    BY <1>1 DEF IsInjective
  <2> QED
    BY <1>1, <2>1
<1>3. Range(Tail(q)) \subseteq Range(q) \ {Head(q)}
  BY <1>1 DEF Range, IsInjective
<1>4. Range(q) \ {Head(q)} \subseteq Range(Tail(q))
  <2> SUFFICES ASSUME NEW k \in DOMAIN q, q[k] # q[1]
               PROVE  q[k] \in Range(Tail(q))
    BY <1>1 DEF Range
  <2>1. k - 1 \in DOMAIN Tail(q) /\ (k - 1) + 1 = k
    BY <1>1
  <2>2. q[k] = Tail(q)[k - 1]
    BY <1>1, <2>1
  <2> QED
    BY <2>1, <2>2 DEF Range
<1>5. Head(q) \in Range(q)
  BY <1>1 DEF Range
<1> QED
  BY <1>1, <1>2, <1>3, <1>4, <1>5

\* A queue of different things, when another one is added.
LEMMA QueueAppend ==
    ASSUME NEW S, NEW q \in Seq(S), NEW e \in S
    PROVE  /\ Append(q, e) \in Seq(S) /\ Append(q, e) # << >>
           /\ Range(Append(q, e)) = Range(q) \cup {e}
           /\ IsInjective(q) /\ e \notin Range(q) => IsInjective(Append(q, e))
<1>1. /\ Append(q, e) \in Seq(S)
      /\ Len(q) \in Nat /\ DOMAIN q = 1 .. Len(q) /\ Len(q) + 1 \notin DOMAIN q
      /\ DOMAIN Append(q, e) = DOMAIN q \cup {Len(q) + 1}
      /\ \A m \in DOMAIN q : Append(q, e)[m] = q[m]
      /\ Append(q, e)[Len(q) + 1] = e
  BY AppendFacts
<1>2. Range(Append(q, e)) = Range(q) \cup {e}
  <2>1. Range(Append(q, e)) \subseteq Range(q) \cup {e}
    BY <1>1 DEF Range
  <2>2. Range(q) \subseteq Range(Append(q, e))
    BY <1>1 DEF Range
  <2>3. e \in Range(Append(q, e))
    BY <1>1 DEF Range
  <2> QED
    BY <2>1, <2>2, <2>3
<1>3. IsInjective(q) /\ e \notin Range(q) => IsInjective(Append(q, e))
  BY <1>1 DEF IsInjective, Range
<1>4. Append(q, e) # << >>
  BY AppendProperties, EmptySeq
<1> QED
  BY <1>1, <1>2, <1>3, <1>4

\* The empty queue.
LEMMA QueueEmpty == IsInjective(<< >>) /\ Range(<< >>) = {}
BY DEF IsInjective, Range


LEMMA AppendRange ==
    ASSUME NEW S, NEW q \in Seq(S), NEW e \in S
    PROVE  /\ e \in Range(Append(q, e)) /\ Append(q, e) # << >>
           /\ \A x \in Range(q) : x \in Range(Append(q, e))
<1>1. /\ DOMAIN Append(q, e) = DOMAIN q \cup {Len(q) + 1}
      /\ \A m \in DOMAIN q : Append(q, e)[m] = q[m]
      /\ Append(q, e)[Len(q) + 1] = e
  BY AppendFacts
<1>2. Append(q, e) # << >>
  BY AppendProperties
<1> QED
  BY <1>1, <1>2 DEF Range

-----------------------------------------------------------------------------
(* StallMarket: the threads' places, the mutexes and what is left to do.      *)


\* Who owns a stall's mutex is in that stall, and the other way round.
OwnerInv ==
    /\ \A t \in Threads : pc[t] \in InStall => at[t] \in Stalls /\ mutex[at[t]] = t
    /\ \A s \in Stalls : mutex[s] # Nobody => pc[mutex[s]] \in InStall /\ at[mutex[s]] = s
    /\ pc[Loader] = "enter" => at[Loader] \in Stalls

\* What a thread has loaded is still what the stall holds.
SeenInv ==
    /\ \A t \in Threads : pc[t] \in {"take", "store"} => seen[t] = goods[at[t]]
    /\ \A b \in Buyers : pc[b] = "take" => seen[b] > 0

\* The need along a buyer's way; outside a stall nothing is half bought.
NeedInv ==
    \A b \in Buyers :
        /\ pc[b] = "start" <=> need[b] = Unset
        /\ pc[b] \in {"scan", "sleep", "take"} => need[b] > 0
        /\ pc[b] \in {"finish", "count", "counted", "done"} => need[b] = 0
        /\ pc[b] \notin InStall => taken[b] = 0
        /\ pc[b] \notin {"lock", "look", "pick", "enter", "load", "store"}

LoaderInv ==
    pc[Loader] \in {"lock", "look", "pick", "enter", "load", "store", "sleep", "done"}

\* buyers_finished counts the buyers that have counted themselves.
Counted == {b \in Buyers : pc[b] = "done"}

FinishedInv ==
    /\ \A t \in Threads : pc[t] \in {"count", "counted", "look"} <=> finishedMutex = t
    /\ \A b \in Buyers : pc[b] = "counted" => seen[b] = finished
    /\ finished = Cardinality(Counted)
    /\ pc[Loader] = "done" => Counted = Buyers

IInv == TypeOK /\ OwnerInv /\ SeenInv /\ NeedInv /\ LoaderInv /\ FinishedInv
-----------------------------------------------------------------------------
(* Steps keep each part of the invariant.                                   *)

LEMMA Minus == \A n \in Nat : n > 0 => n - 1 \in Nat
OBVIOUS

\* Who is in a stall owns it.
LEMMA InStallOwns ==
    ASSUME IInv, NEW t \in Threads, pc[t] \in InStall
    PROVE  at[t] \in Stalls /\ mutex[at[t]] = t /\ goods[at[t]] \in Nat /\ seen[t] \in Nat
<1>1. at[t] \in Stalls /\ mutex[at[t]] = t
  BY DEF IInv, OwnerInv
<1> QED
  BY <1>1 DEF IInv, TypeOK

\* A buyer inside a stall owns it and knows what it needs.
LEMMA Inside ==
    ASSUME IInv, NEW b \in Buyers, pc[b] \in {"stall", "take"}
    PROVE  /\ at[b] \in Stalls /\ mutex[at[b]] = b
           /\ need[b] \in Nat /\ taken[b] \in Nat /\ goods[at[b]] \in Nat
           /\ pc[b] = "take" => need[b] > 0 /\ seen[b] = goods[at[b]] /\ seen[b] > 0
<1>1. at[b] \in Stalls /\ mutex[at[b]] = b
  BY DEF IInv, OwnerInv, Threads, InStall
<1>2. need[b] \in Nat /\ taken[b] \in Nat /\ goods[at[b]] \in Nat
  BY <1>1 DEF IInv, TypeOK, NeedInv
<1> QED
  BY <1>1, <1>2 DEF IInv, NeedInv, SeenInv, Threads

LEMMA TypeStep == IInv /\ [Next]_vars => TypeOK'
<1> SUFFICES ASSUME IInv, [Next]_vars PROVE TypeOK'
  OBVIOUS
<1> USE MarketAssumption DEF MarketAssumption, IInv, TypeOK, Threads, Stalls, Locs, InStall
<1>1. ASSUME NEW b \in Buyers, Start(b) PROVE TypeOK'
  BY <1>1, SMTT(20) DEF Start, Goto, Again
<1>2. ASSUME NEW b \in Buyers, TryLock(b) PROVE TypeOK'
  <2>1. CASE mutex[at[b]] = Nobody
    <3>1. /\ mutex' = [mutex EXCEPT ![at[b]] = b] /\ pc' = [pc EXCEPT ![b] = "stall"]
          /\ UNCHANGED at
      BY <1>2, <2>1 DEF TryLock, Goto
    <3>2. UNCHANGED <<goods, need, seen, finished, finishedMutex, open, taken>>
      BY <1>2 DEF TryLock
    <3> QED
      BY <3>1, <3>2
  <2>2. CASE mutex[at[b]] # Nobody
    <3>1. at' = [at EXCEPT ![b] = @ + 1] /\ UNCHANGED <<mutex, pc>> /\ at[b] + 1 \in 0 .. NumStalls
      BY <1>2, <2>2 DEF TryLock
    <3>2. UNCHANGED <<goods, need, seen, finished, finishedMutex, open, taken>>
      BY <1>2 DEF TryLock
    <3> QED
      BY <3>1, <3>2
  <2> QED
    BY <2>1, <2>2
<1>3. ASSUME NEW b \in Buyers, NoStall(b) PROVE TypeOK'
  BY <1>3 DEF NoStall, Goto, Again
<1>4. ASSUME NEW b \in Buyers, WakeUp(b) PROVE TypeOK'
  BY <1>4 DEF WakeUp, Goto, Again
<1>5. ASSUME NEW b \in Buyers, Look(b) PROVE TypeOK'
  <2>1. b \in Threads /\ goods[at[b]] \in Nat
    BY <1>5, InStallOwns DEF Look
  <2> QED
    BY <1>5, <2>1 DEF Look, Goto
<1>6. ASSUME NEW b \in Buyers, Take(b) PROVE TypeOK'
  <2>0. pc[b] = "take" /\ b \in Threads
    BY <1>6 DEF Take
  <2>1. at[b] \in Stalls /\ seen[b] - 1 \in Nat /\ need[b] - 1 \in Nat /\ taken[b] + 1 \in Nat
    <3>1. need[b] \in Nat /\ need[b] > 0 /\ taken[b] \in Nat
      BY <2>0, Inside
    <3>2. at[b] \in Stalls /\ seen[b] \in Nat /\ seen[b] > 0
      BY <2>0, Inside
    <3>3. need[b] - 1 \in Nat
      BY <3>1, Minus
    <3>4. seen[b] - 1 \in Nat
      BY <3>2, Minus
    <3>5. taken[b] + 1 \in Nat
      BY <3>1
    <3> QED
      BY <3>2, <3>3, <3>4, <3>5, Zenon
  <2> QED
    BY <1>6, <2>1 DEF Take, Goto
<1>7. ASSUME NEW b \in Buyers, Leave(b) PROVE TypeOK'
  BY <1>7 DEF Leave, Goto, Again
<1>8. ASSUME NEW b \in Buyers, LockFinished(b, "finish", "count") PROVE TypeOK'
  BY <1>8 DEF LockFinished, Goto, Again
<1>9. ASSUME NEW b \in Buyers, LoadFinished(b) PROVE TypeOK'
  BY <1>9 DEF LoadFinished, Goto, Again
<1>10. ASSUME NEW b \in Buyers, StoreFinished(b) PROVE TypeOK'
  <2>1. seen[b] + 1 \in Nat /\ b \in Threads
    OBVIOUS
  <2> QED
    BY <1>10, <2>1 DEF StoreFinished, Goto
<1>11. CASE LockFinished(Loader, "lock", "look")
  BY <1>11 DEF LockFinished, Goto, Again
<1>12. CASE LookAtFinished
  BY <1>12 DEF LookAtFinished, AllFinished, Goto, Again
<1>13. ASSUME NEW s \in Stalls, Pick(s) PROVE TypeOK'
  BY <1>13 DEF Pick, Goto, Again
<1>14. CASE Enter
  BY <1>14 DEF Enter, Goto, Again
<1>15. CASE LoadGoods
  <2>1. Loader \in Threads /\ goods[at[Loader]] \in Nat
    BY <1>15, InStallOwns DEF LoadGoods
  <2> QED
    BY <1>15, <2>1 DEF LoadGoods, Goto
<1>16. CASE AddGoods
  <2>1. Loader \in Threads /\ at[Loader] \in Stalls /\ seen[Loader] + Load \in Nat
    BY <1>16, InStallOwns DEF AddGoods
  <2> QED
    BY <1>16, <2>1 DEF AddGoods, Goto
<1>17. CASE LoaderWakes
  BY <1>17 DEF LoaderWakes, Goto, Again
<1>18. CASE Close
  BY <1>18 DEF Close, Goto, Again
<1>19. CASE UNCHANGED vars
  BY <1>19 DEF vars, Goto, Again
<1> QED
  BY <1>1, <1>2, <1>3, <1>4, <1>5, <1>6, <1>7, <1>8, <1>9, <1>10, <1>11, <1>12, <1>13, <1>14, <1>15, <1>16, <1>17, <1>18, <1>19
     DEF Next, Buyer, LoaderStep

LEMMA OwnerStep == IInv /\ [Next]_vars => OwnerInv'
<1> SUFFICES ASSUME IInv, [Next]_vars PROVE OwnerInv'
  OBVIOUS
<1> USE MarketAssumption DEF MarketAssumption, IInv, TypeOK, Threads, Stalls, InStall, OwnerInv, NeedInv, LoaderInv
<1>1. ASSUME NEW b \in Buyers, Start(b) PROVE OwnerInv'
  BY <1>1 DEF Start, Goto, Again
<1>2. ASSUME NEW b \in Buyers, TryLock(b) PROVE OwnerInv'
  <2>1. CASE mutex[at[b]] = Nobody
    <3>1. /\ mutex' = [mutex EXCEPT ![at[b]] = b] /\ pc' = [pc EXCEPT ![b] = "stall"]
          /\ UNCHANGED <<at, goods, seen>> /\ at[b] \in Stalls /\ pc[b] = "scan"
      BY <1>2, <2>1 DEF TryLock, Goto
    <3> QED
      BY <2>1, <3>1
  <2>2. CASE mutex[at[b]] # Nobody
    <3>1. /\ UNCHANGED <<pc, mutex, goods, seen>>
          /\ at' = [at EXCEPT ![b] = @ + 1] /\ pc[b] = "scan"
      BY <1>2, <2>2 DEF TryLock
    <3> QED
      BY <3>1
  <2> QED
    BY <2>1, <2>2
<1>3. ASSUME NEW b \in Buyers, NoStall(b) PROVE OwnerInv'
  BY <1>3 DEF NoStall, Goto, Again
<1>4. ASSUME NEW b \in Buyers, WakeUp(b) PROVE OwnerInv'
  BY <1>4 DEF WakeUp, Goto, Again
<1>5. ASSUME NEW b \in Buyers, Look(b) PROVE OwnerInv'
  BY <1>5, SMTT(20) DEF Look, Goto, Again
<1>6. ASSUME NEW b \in Buyers, Take(b) PROVE OwnerInv'
  BY <1>6, SMTT(20) DEF Take, Goto, Again
<1>7. ASSUME NEW b \in Buyers, Leave(b) PROVE OwnerInv'
  BY <1>7 DEF Leave, Goto, Again
<1>8. ASSUME NEW b \in Buyers, LockFinished(b, "finish", "count") PROVE OwnerInv'
  BY <1>8 DEF LockFinished, Goto, Again
<1>9. ASSUME NEW b \in Buyers, LoadFinished(b) PROVE OwnerInv'
  BY <1>9 DEF LoadFinished, Goto, Again
<1>10. ASSUME NEW b \in Buyers, StoreFinished(b) PROVE OwnerInv'
  BY <1>10 DEF StoreFinished, Goto, Again
<1>11. CASE LockFinished(Loader, "lock", "look")
  BY <1>11 DEF LockFinished, Goto, Again
<1>12. CASE LookAtFinished
  BY <1>12 DEF LookAtFinished, AllFinished, Goto, Again
<1>13. ASSUME NEW s \in Stalls, Pick(s) PROVE OwnerInv'
  BY <1>13, SMTT(20) DEF Pick, Goto, Again
<1>14. CASE Enter
  BY <1>14 DEF Enter, Goto, Again
<1>15. CASE LoadGoods
  BY <1>15 DEF LoadGoods, Goto, Again
<1>16. CASE AddGoods
  BY <1>16 DEF AddGoods, Goto, Again
<1>17. CASE LoaderWakes
  BY <1>17 DEF LoaderWakes, Goto, Again
<1>18. CASE Close
  BY <1>18 DEF Close, Goto, Again
<1>19. CASE UNCHANGED vars
  BY <1>19 DEF vars, Goto, Again
<1> QED
  BY <1>1, <1>2, <1>3, <1>4, <1>5, <1>6, <1>7, <1>8, <1>9, <1>10, <1>11, <1>12, <1>13, <1>14, <1>15, <1>16, <1>17, <1>18, <1>19
     DEF Next, Buyer, LoaderStep

LEMMA SeenStep == IInv /\ [Next]_vars => SeenInv'
<1> SUFFICES ASSUME IInv, [Next]_vars PROVE SeenInv'
  OBVIOUS
<1> USE MarketAssumption DEF MarketAssumption, IInv, TypeOK, Threads, Stalls, InStall, OwnerInv, SeenInv, NeedInv, LoaderInv
<1>1. ASSUME NEW b \in Buyers, Start(b) PROVE SeenInv'
  BY <1>1 DEF Start, Goto, Again
<1>2. ASSUME NEW b \in Buyers, TryLock(b) PROVE SeenInv'
  <2>1. CASE mutex[at[b]] = Nobody
    <3>1. /\ mutex' = [mutex EXCEPT ![at[b]] = b] /\ pc' = [pc EXCEPT ![b] = "stall"]
          /\ UNCHANGED <<at, goods, seen>> /\ at[b] \in Stalls /\ pc[b] = "scan"
      BY <1>2, <2>1 DEF TryLock, Goto
    <3> QED
      BY <2>1, <3>1
  <2>2. CASE mutex[at[b]] # Nobody
    <3>1. /\ UNCHANGED <<pc, mutex, goods, seen>>
          /\ at' = [at EXCEPT ![b] = @ + 1] /\ pc[b] = "scan"
      BY <1>2, <2>2 DEF TryLock
    <3> QED
      BY <3>1
  <2> QED
    BY <2>1, <2>2
<1>3. ASSUME NEW b \in Buyers, NoStall(b) PROVE SeenInv'
  BY <1>3 DEF NoStall, Goto, Again
<1>4. ASSUME NEW b \in Buyers, WakeUp(b) PROVE SeenInv'
  BY <1>4 DEF WakeUp, Goto, Again
<1>5. ASSUME NEW b \in Buyers, Look(b) PROVE SeenInv'
  BY <1>5 DEF Look, Goto, Again
<1>6. ASSUME NEW b \in Buyers, Take(b) PROVE SeenInv'
  BY <1>6 DEF Take, Goto, Again
<1>7. ASSUME NEW b \in Buyers, Leave(b) PROVE SeenInv'
  BY <1>7 DEF Leave, Goto, Again
<1>8. ASSUME NEW b \in Buyers, LockFinished(b, "finish", "count") PROVE SeenInv'
  BY <1>8 DEF LockFinished, Goto, Again
<1>9. ASSUME NEW b \in Buyers, LoadFinished(b) PROVE SeenInv'
  BY <1>9 DEF LoadFinished, Goto, Again
<1>10. ASSUME NEW b \in Buyers, StoreFinished(b) PROVE SeenInv'
  BY <1>10 DEF StoreFinished, Goto, Again
<1>11. CASE LockFinished(Loader, "lock", "look")
  BY <1>11 DEF LockFinished, Goto, Again
<1>12. CASE LookAtFinished
  BY <1>12 DEF LookAtFinished, AllFinished, Goto, Again
<1>13. ASSUME NEW s \in Stalls, Pick(s) PROVE SeenInv'
  BY <1>13 DEF Pick, Goto, Again
<1>14. CASE Enter
  BY <1>14 DEF Enter, Goto, Again
<1>15. CASE LoadGoods
  BY <1>15 DEF LoadGoods, Goto, Again
<1>16. CASE AddGoods
  BY <1>16 DEF AddGoods, Goto, Again
<1>17. CASE LoaderWakes
  BY <1>17 DEF LoaderWakes, Goto, Again
<1>18. CASE Close
  BY <1>18 DEF Close, Goto, Again
<1>19. CASE UNCHANGED vars
  BY <1>19 DEF vars, Goto, Again
<1> QED
  BY <1>1, <1>2, <1>3, <1>4, <1>5, <1>6, <1>7, <1>8, <1>9, <1>10, <1>11, <1>12, <1>13, <1>14, <1>15, <1>16, <1>17, <1>18, <1>19
     DEF Next, Buyer, LoaderStep

LEMMA NeedStep == IInv /\ [Next]_vars => NeedInv'
<1> SUFFICES ASSUME IInv, [Next]_vars PROVE NeedInv'
  OBVIOUS
<1> USE MarketAssumption DEF MarketAssumption, IInv, TypeOK, Threads, Stalls, InStall, NeedInv, LoaderInv
<1>1. ASSUME NEW b \in Buyers, Start(b) PROVE NeedInv'
  BY <1>1 DEF Start, Goto, Again
<1>2. ASSUME NEW b \in Buyers, TryLock(b) PROVE NeedInv'
  BY <1>2 DEF TryLock, Goto, Again
<1>3. ASSUME NEW b \in Buyers, NoStall(b) PROVE NeedInv'
  BY <1>3 DEF NoStall, Goto, Again
<1>4. ASSUME NEW b \in Buyers, WakeUp(b) PROVE NeedInv'
  BY <1>4 DEF WakeUp, Goto, Again
<1>5. ASSUME NEW b \in Buyers, Look(b) PROVE NeedInv'
  BY <1>5 DEF Look, Goto, Again
<1>6. ASSUME NEW b \in Buyers, Take(b) PROVE NeedInv'
  BY <1>6 DEF Take, Goto, Again
<1>7. ASSUME NEW b \in Buyers, Leave(b) PROVE NeedInv'
  BY <1>7 DEF Leave, Goto, Again
<1>8. ASSUME NEW b \in Buyers, LockFinished(b, "finish", "count") PROVE NeedInv'
  BY <1>8 DEF LockFinished, Goto, Again
<1>9. ASSUME NEW b \in Buyers, LoadFinished(b) PROVE NeedInv'
  BY <1>9 DEF LoadFinished, Goto, Again
<1>10. ASSUME NEW b \in Buyers, StoreFinished(b) PROVE NeedInv'
  BY <1>10 DEF StoreFinished, Goto, Again
<1>11. CASE LockFinished(Loader, "lock", "look")
  BY <1>11 DEF LockFinished, Goto, Again
<1>12. CASE LookAtFinished
  BY <1>12 DEF LookAtFinished, AllFinished, Goto, Again
<1>13. ASSUME NEW s \in Stalls, Pick(s) PROVE NeedInv'
  BY <1>13 DEF Pick, Goto, Again
<1>14. CASE Enter
  BY <1>14 DEF Enter, Goto, Again
<1>15. CASE LoadGoods
  BY <1>15 DEF LoadGoods, Goto, Again
<1>16. CASE AddGoods
  BY <1>16 DEF AddGoods, Goto, Again
<1>17. CASE LoaderWakes
  BY <1>17 DEF LoaderWakes, Goto, Again
<1>18. CASE Close
  BY <1>18 DEF Close, Goto, Again
<1>19. CASE UNCHANGED vars
  BY <1>19 DEF vars, Goto, Again
<1> QED
  BY <1>1, <1>2, <1>3, <1>4, <1>5, <1>6, <1>7, <1>8, <1>9, <1>10, <1>11, <1>12, <1>13, <1>14, <1>15, <1>16, <1>17, <1>18, <1>19
     DEF Next, Buyer, LoaderStep

LEMMA LoaderLocStep == IInv /\ [Next]_vars => LoaderInv'
<1> SUFFICES ASSUME IInv, [Next]_vars PROVE LoaderInv'
  OBVIOUS
<1> USE MarketAssumption DEF MarketAssumption, IInv, TypeOK, Threads, Stalls, InStall, LoaderInv
<1>1. ASSUME NEW b \in Buyers, Start(b) PROVE LoaderInv'
  BY <1>1 DEF Start, Goto, Again
<1>2. ASSUME NEW b \in Buyers, TryLock(b) PROVE LoaderInv'
  BY <1>2 DEF TryLock, Goto, Again
<1>3. ASSUME NEW b \in Buyers, NoStall(b) PROVE LoaderInv'
  BY <1>3 DEF NoStall, Goto, Again
<1>4. ASSUME NEW b \in Buyers, WakeUp(b) PROVE LoaderInv'
  BY <1>4 DEF WakeUp, Goto, Again
<1>5. ASSUME NEW b \in Buyers, Look(b) PROVE LoaderInv'
  BY <1>5 DEF Look, Goto, Again
<1>6. ASSUME NEW b \in Buyers, Take(b) PROVE LoaderInv'
  BY <1>6 DEF Take, Goto, Again
<1>7. ASSUME NEW b \in Buyers, Leave(b) PROVE LoaderInv'
  BY <1>7 DEF Leave, Goto, Again
<1>8. ASSUME NEW b \in Buyers, LockFinished(b, "finish", "count") PROVE LoaderInv'
  BY <1>8 DEF LockFinished, Goto, Again
<1>9. ASSUME NEW b \in Buyers, LoadFinished(b) PROVE LoaderInv'
  BY <1>9 DEF LoadFinished, Goto, Again
<1>10. ASSUME NEW b \in Buyers, StoreFinished(b) PROVE LoaderInv'
  BY <1>10 DEF StoreFinished, Goto, Again
<1>11. CASE LockFinished(Loader, "lock", "look")
  BY <1>11 DEF LockFinished, Goto, Again
<1>12. CASE LookAtFinished
  BY <1>12 DEF LookAtFinished, AllFinished, Goto, Again
<1>13. ASSUME NEW s \in Stalls, Pick(s) PROVE LoaderInv'
  BY <1>13 DEF Pick, Goto, Again
<1>14. CASE Enter
  BY <1>14 DEF Enter, Goto, Again
<1>15. CASE LoadGoods
  BY <1>15 DEF LoadGoods, Goto, Again
<1>16. CASE AddGoods
  BY <1>16 DEF AddGoods, Goto, Again
<1>17. CASE LoaderWakes
  BY <1>17 DEF LoaderWakes, Goto, Again
<1>18. CASE Close
  BY <1>18 DEF Close, Goto, Again
<1>19. CASE UNCHANGED vars
  BY <1>19 DEF vars, Goto, Again
<1> QED
  BY <1>1, <1>2, <1>3, <1>4, <1>5, <1>6, <1>7, <1>8, <1>9, <1>10, <1>11, <1>12, <1>13, <1>14, <1>15, <1>16, <1>17, <1>18, <1>19
     DEF Next, Buyer, LoaderStep

LEMMA CountedFinite == IsFiniteSet(Counted)
  BY MarketAssumption, FS_Subset DEF MarketAssumption, Counted

LEMMA FinishedStep == IInv /\ [Next]_vars => FinishedInv'
<1> SUFFICES ASSUME IInv, [Next]_vars PROVE FinishedInv'
  OBVIOUS
<1> USE MarketAssumption DEF MarketAssumption, IInv, TypeOK, Threads, FinishedInv, NeedInv, LoaderInv
<1>1. ASSUME NEW b \in Buyers, Start(b) PROVE FinishedInv'
  <2>1. Counted' = Counted
    BY <1>1 DEF Start, Goto, Again, Counted
  <2> QED
    BY <1>1, <2>1 DEF Start, Goto, Again
<1>2. ASSUME NEW b \in Buyers, TryLock(b) PROVE FinishedInv'
  <2>1. Counted' = Counted
    BY <1>2 DEF TryLock, Goto, Again, Counted
  <2> QED
    BY <1>2, <2>1 DEF TryLock, Goto, Again
<1>3. ASSUME NEW b \in Buyers, NoStall(b) PROVE FinishedInv'
  <2>1. Counted' = Counted
    BY <1>3 DEF NoStall, Goto, Again, Counted
  <2> QED
    BY <1>3, <2>1 DEF NoStall, Goto, Again
<1>4. ASSUME NEW b \in Buyers, WakeUp(b) PROVE FinishedInv'
  <2>1. Counted' = Counted
    BY <1>4 DEF WakeUp, Goto, Again, Counted
  <2> QED
    BY <1>4, <2>1 DEF WakeUp, Goto, Again
<1>5. ASSUME NEW b \in Buyers, Look(b) PROVE FinishedInv'
  <2>1. Counted' = Counted
    BY <1>5 DEF Look, Goto, Again, Counted
  <2> QED
    BY <1>5, <2>1 DEF Look, Goto, Again
<1>6. ASSUME NEW b \in Buyers, Take(b) PROVE FinishedInv'
  <2>1. Counted' = Counted
    BY <1>6 DEF Take, Goto, Again, Counted
  <2> QED
    BY <1>6, <2>1 DEF Take, Goto, Again
<1>7. ASSUME NEW b \in Buyers, Leave(b) PROVE FinishedInv'
  <2>1. Counted' = Counted
    BY <1>7 DEF Leave, Goto, Again, Counted
  <2> QED
    BY <1>7, <2>1 DEF Leave, Goto, Again
<1>8. ASSUME NEW b \in Buyers, LockFinished(b, "finish", "count") PROVE FinishedInv'
  <2>1. Counted' = Counted
    BY <1>8 DEF LockFinished, Goto, Again, Counted
  <2> QED
    BY <1>8, <2>1 DEF LockFinished, Goto, Again
<1>9. ASSUME NEW b \in Buyers, LoadFinished(b) PROVE FinishedInv'
  <2>1. Counted' = Counted
    BY <1>9 DEF LoadFinished, Goto, Again, Counted
  <2> QED
    BY <1>9, <2>1 DEF LoadFinished, Goto, Again
<1>10. ASSUME NEW b \in Buyers, StoreFinished(b) PROVE FinishedInv'
  <2>1. Counted' = Counted \cup {b} /\ b \notin Counted
    BY <1>10 DEF StoreFinished, Goto, Counted
  <2>2. Cardinality(Counted') = Cardinality(Counted) + 1
    BY <2>1, CountedFinite, FS_AddElement
  <2>3. finishedMutex = b /\ finished' = finished + 1 /\ finishedMutex' = Nobody
    BY <1>10 DEF StoreFinished
  <2>4. /\ pc' = [pc EXCEPT ![b] = "done"] /\ seen' = [seen EXCEPT ![b] = 0]
        /\ pc[b] = "counted" /\ b # Loader
    BY <1>10 DEF StoreFinished, Goto
  <2>5. \A t \in Threads : pc'[t] \in {"count", "counted", "look"} <=> finishedMutex' = t
    BY <2>3, <2>4
  <2>6. \A c \in Buyers : pc'[c] # "counted"
    BY <2>3, <2>4
  <2>7. pc[Loader] # "done"
    BY <2>1
  <2> QED
    BY <2>2, <2>3, <2>4, <2>5, <2>6, <2>7
<1>11. CASE LockFinished(Loader, "lock", "look")
  <2>1. Counted' = Counted
    BY <1>11 DEF LockFinished, Goto, Again, Counted
  <2> QED
    BY <1>11, <2>1 DEF LockFinished, Goto, Again
<1>12. CASE LookAtFinished
  <2>1. Counted' = Counted
    BY <1>12 DEF LookAtFinished, Goto, Counted
  <2>2. AllFinished => Counted = Buyers
    <3>1. /\ Cardinality(Counted) <= Cardinality(Buyers)
          /\ Cardinality(Buyers) = Cardinality(Counted) => Buyers = Counted
      BY FS_Subset DEF Counted
    <3>2. Cardinality(Counted) \in Nat /\ Cardinality(Buyers) \in Nat
      BY CountedFinite, FS_CardinalityType
    <3> QED
      BY <3>1, <3>2 DEF AllFinished
  <2> QED
    BY <1>12, <2>1, <2>2 DEF LookAtFinished, Goto
<1>13. ASSUME NEW s \in Stalls, Pick(s) PROVE FinishedInv'
  <2>1. Counted' = Counted
    BY <1>13 DEF Pick, Goto, Again, Counted
  <2> QED
    BY <1>13, <2>1 DEF Pick, Goto, Again
<1>14. CASE Enter
  <2>1. Counted' = Counted
    BY <1>14 DEF Enter, Goto, Again, Counted
  <2> QED
    BY <1>14, <2>1 DEF Enter, Goto, Again
<1>15. CASE LoadGoods
  <2>1. Counted' = Counted
    BY <1>15 DEF LoadGoods, Goto, Again, Counted
  <2> QED
    BY <1>15, <2>1 DEF LoadGoods, Goto, Again
<1>16. CASE AddGoods
  <2>1. Counted' = Counted
    BY <1>16 DEF AddGoods, Goto, Again, Counted
  <2> QED
    BY <1>16, <2>1 DEF AddGoods, Goto, Again
<1>17. CASE LoaderWakes
  <2>1. Counted' = Counted
    BY <1>17 DEF LoaderWakes, Goto, Again, Counted
  <2> QED
    BY <1>17, <2>1 DEF LoaderWakes, Goto, Again
<1>18. CASE Close
  <2>1. Counted' = Counted
    BY <1>18 DEF Close, Goto, Again, Counted
  <2> QED
    BY <1>18, <2>1 DEF Close, Goto, Again
<1>19. CASE UNCHANGED vars
  <2>1. Counted' = Counted
    BY <1>19 DEF vars, Goto, Again, Counted
  <2> QED
    BY <1>19, <2>1 DEF vars, Goto, Again
<1> QED
  BY <1>1, <1>2, <1>3, <1>4, <1>5, <1>6, <1>7, <1>8, <1>9, <1>10, <1>11, <1>12, <1>13, <1>14, <1>15, <1>16, <1>17, <1>18, <1>19
     DEF Next, Buyer, LoaderStep

-----------------------------------------------------------------------------
(* Theorems.                                                                *)

LEMMA InitInv == Init => IInv
<1> SUFFICES ASSUME Init PROVE IInv
  OBVIOUS
<1> USE MarketAssumption DEF MarketAssumption, Init, Threads, Stalls
<1>1. TypeOK
  BY DEF TypeOK, Locs, InStall
<1>2. OwnerInv /\ SeenInv /\ NeedInv /\ LoaderInv
  BY DEF OwnerInv, SeenInv, NeedInv, LoaderInv, InStall
<1>3. Counted = {}
  BY DEF Counted
<1>4. FinishedInv
  BY <1>3, FS_EmptySet DEF FinishedInv
<1> QED
  BY <1>1, <1>2, <1>4 DEF IInv

\* The invariant holds in every reachable state, for any number of stalls and
\* buyers and any ranges of stocks and needs.
THEOREM Invariance == Spec => []IInv
<1>1. IInv /\ [Next]_vars => IInv'
  BY TypeStep, OwnerStep, SeenStep, NeedStep, LoaderLocStep, FinishedStep DEF IInv
<1> QED
  BY <1>1, InitInv, PTL DEF Spec

\* Every variable keeps its type; a stock and a need, which the threads count
\* down piece by piece (task.c:70-71), never go below zero.
THEOREM TypeCorrectness == Spec => []TypeOK
<1>1. IInv => TypeOK
  BY DEF IInv
<1> QED
  BY <1>1, Invariance, PTL

\* The loader leaves after the last buyer, for any number of buyers: its count
\* (task.c:109) is exact, because no increment (97) is lost.
THEOREM LoaderTheorem == Spec => []LoaderLeavesLast
<1>1. IInv => LoaderLeavesLast
  BY DEF IInv, FinishedInv, NeedInv, Counted, LoaderLeavesLast
<1> QED
  BY <1>1, Invariance, PTL

-----------------------------------------------------------------------------
(* The stalls implement the market.                                         *)

LEMMA InitMarket == Init => Shop!MarketInit
<1> SUFFICES ASSUME Init PROVE Shop!MarketInit
  OBVIOUS
<1>1. \A s \in Stalls : StockBefore(s) \in Nat
  BY MarketAssumption DEF MarketAssumption, Init, StockBefore, Threads, Stalls
<1>2. \A b \in Buyers : NeedBefore(b) = Unset
  BY DEF Init, NeedBefore
<1> QED
  BY <1>1, <1>2 DEF Shop!MarketInit

\* Nothing was taken from a stall whose mutex a step changes, and the step changes
\* no stock, no need and no purchase.
LEMMA Unnoticed ==
    ASSUME IInv, UNCHANGED <<goods, need, taken>>,
           \A s \in Stalls : mutex'[s] = mutex[s]
                             \/ /\ mutex[s] \in Buyers => taken[mutex[s]] = 0
                                /\ mutex'[s] \in Buyers => taken[mutex'[s]] = 0
    PROVE  UNCHANGED Shop!marketVars
<1>1. \A s \in Stalls : StockBefore(s)' = StockBefore(s)
  BY DEF StockBefore, IInv, TypeOK
<1>2. \A b \in Buyers : NeedBefore(b)' = NeedBefore(b)
  BY DEF NeedBefore
<1> QED
  BY <1>1, <1>2 DEF Shop!marketVars

\* Of two buyers in stalls, one's purchases are not in the other's stall.
LEMMA Apart ==
    ASSUME IInv, NEW t \in Threads, pc[t] \in InStall,
           NEW s \in Stalls, s # at[t]
    PROVE  mutex[s] # t
  BY MarketAssumption DEF MarketAssumption, IInv, OwnerInv, Threads

LEMMA TakeIsStutter ==
    ASSUME IInv, NEW b \in Buyers, Take(b)
    PROVE  UNCHANGED Shop!marketVars
<1>0. pc[b] = "take" /\ b \in Threads /\ pc[b] \in InStall
  BY DEF Take, Threads, InStall
<1>1. /\ at[b] \in Stalls /\ mutex[at[b]] = b /\ seen[b] = goods[at[b]]
      /\ goods[at[b]] \in Nat /\ taken[b] \in Nat /\ need[b] \in Nat
  BY <1>0, Inside
<1>2. /\ goods' = [goods EXCEPT ![at[b]] = goods[at[b]] - 1]
      /\ need' = [need EXCEPT ![b] = need[b] - 1]
      /\ taken' = [taken EXCEPT ![b] = taken[b] + 1]
      /\ mutex' = mutex
  BY <1>1 DEF Take
<1>3. ASSUME NEW s \in Stalls PROVE StockBefore(s)' = StockBefore(s)
  <2>1. CASE s = at[b]
    <3>1. goods'[s] = goods[s] - 1 /\ taken'[b] = taken[b] + 1 /\ mutex[s] = b
      BY <1>1, <1>2, <2>1 DEF IInv, TypeOK
    <3> QED
      BY <1>1, <1>2, <2>1, <3>1 DEF StockBefore
  <2>2. CASE s # at[b]
    <3>1. mutex[s] # b
      BY <1>0, <2>2, Apart
    <3> QED
      BY <1>2, <2>2, <3>1 DEF StockBefore, IInv, TypeOK
  <2> QED
    BY <2>1, <2>2
<1>4. ASSUME NEW c \in Buyers PROVE NeedBefore(c)' = NeedBefore(c)
  <2>1. CASE c = b
    <3>1. need'[b] = need[b] - 1 /\ taken'[b] = taken[b] + 1
      BY <1>2 DEF IInv, TypeOK
    <3>2. need[b] # Unset /\ need'[b] # Unset
      <4>1. need[b] > 0
        BY <1>0 DEF IInv, NeedInv
      <4>2. need[b] - 1 \in Nat
        BY <1>1, <4>1, Minus
      <4> QED
        BY <1>1, <3>1, <4>2, MarketAssumption DEF MarketAssumption
    <3> QED
      BY <1>1, <2>1, <3>1, <3>2 DEF NeedBefore
  <2>2. CASE c # b
    BY <1>2, <2>2 DEF NeedBefore, IInv, TypeOK
  <2> QED
    BY <2>1, <2>2
<1> QED
  BY <1>3, <1>4 DEF Shop!marketVars

LEMMA LeaveIsBuy ==
    ASSUME IInv, NEW b \in Buyers, Leave(b), NEW s \in Stalls, s = at[b]
    PROVE  Shop!Buy(b, s)
<1>0. pc[b] = "stall" /\ b \in Threads /\ pc[b] \in InStall
  BY DEF Leave, Threads, InStall
<1>1. mutex[s] = b /\ goods[s] \in Nat /\ taken[b] \in Nat /\ need[b] \in Nat
  BY <1>0, Inside
<1>2. /\ mutex' = [mutex EXCEPT ![s] = Nobody]
      /\ taken' = [taken EXCEPT ![b] = 0]
      /\ goods' = goods /\ need' = need
      /\ need[b] = 0 \/ goods[s] = 0
  BY DEF Leave
<1>3. StockBefore(s) = goods[s] + taken[b] /\ StockBefore(s)' = goods[s]
  BY <1>1, <1>2, MarketAssumption DEF MarketAssumption, StockBefore, IInv, TypeOK
<1>4. NeedBefore(b) = need[b] + taken[b] /\ NeedBefore(b)' = need[b]
  BY <1>1, <1>2, MarketAssumption DEF MarketAssumption, NeedBefore, IInv, TypeOK
<1>5. ASSUME NEW r \in Stalls, r # s PROVE StockBefore(r)' = StockBefore(r)
  <2>1. mutex[r] # b
    BY <1>0, <1>5, Apart
  <2> QED
    BY <1>2, <1>5, <2>1 DEF StockBefore, IInv, TypeOK
<1>6. ASSUME NEW c \in Buyers, c # b PROVE NeedBefore(c)' = NeedBefore(c)
  BY <1>2, <1>6 DEF NeedBefore, IInv, TypeOK
<1>7. NeedBefore(b) # Unset
  BY <1>1, <1>4, MarketAssumption DEF MarketAssumption
<1>8. /\ taken[b] \in 0 .. StockBefore(s) /\ taken[b] <= NeedBefore(b)
      /\ taken[b] = StockBefore(s) \/ taken[b] = NeedBefore(b)
      /\ StockBefore(s)' = StockBefore(s) - taken[b]
      /\ NeedBefore(b)' = NeedBefore(b) - taken[b]
  BY <1>1, <1>2, <1>3, <1>4
<1> QED
  BY <1>5, <1>6, <1>7, <1>8 DEF Shop!Buy

LEMMA AddIsDeliver ==
    ASSUME IInv, AddGoods, NEW s \in Stalls, s = at[Loader]
    PROVE  Shop!Deliver(s)
<1>0. pc[Loader] = "store" /\ Loader \in Threads /\ pc[Loader] \in InStall
  BY DEF AddGoods, Threads, InStall
<1>1. mutex[s] = Loader /\ seen[Loader] = goods[s] /\ goods[s] \in Nat
  BY <1>0, InStallOwns DEF IInv, SeenInv
<1>2. /\ goods' = [goods EXCEPT ![s] = goods[s] + Load]
      /\ mutex' = [mutex EXCEPT ![s] = Nobody]
      /\ need' = need /\ taken' = taken
  BY <1>1 DEF AddGoods
<1>3. StockBefore(s)' = StockBefore(s) + Load
  BY <1>1, <1>2, MarketAssumption DEF MarketAssumption, StockBefore, IInv, TypeOK
<1>4. ASSUME NEW r \in Stalls, r # s PROVE StockBefore(r)' = StockBefore(r)
  BY <1>2, <1>4 DEF StockBefore, IInv, TypeOK
<1>5. ASSUME NEW b \in Buyers PROVE NeedBefore(b)' = NeedBefore(b)
  BY <1>2 DEF NeedBefore
<1> QED
  BY <1>3, <1>4, <1>5 DEF Shop!Deliver

LEMMA StartIsArrive ==
    ASSUME IInv, NEW b \in Buyers, Start(b)
    PROVE  Shop!Arrive(b)
<1>1. PICK n \in NeedMin .. NeedMax : need' = [need EXCEPT ![b] = n]
  BY DEF Start
<1>2. UNCHANGED <<goods, mutex, taken>> /\ pc[b] = "start"
  BY DEF Start
<1>3. need[b] = Unset /\ taken[b] = 0
  BY <1>2 DEF IInv, NeedInv, InStall
<1>4. n \in Nat /\ n # Unset
  BY MarketAssumption DEF MarketAssumption
<1>5. NeedBefore(b) = Unset /\ NeedBefore(b)' = n
  BY <1>1, <1>2, <1>3, <1>4 DEF NeedBefore, IInv, TypeOK
<1>6. ASSUME NEW c \in Buyers, c # b PROVE NeedBefore(c)' = NeedBefore(c)
  BY <1>1, <1>2, <1>6 DEF NeedBefore, IInv, TypeOK
<1>7. \A s \in Stalls : StockBefore(s)' = StockBefore(s)
  BY <1>2 DEF StockBefore
<1> QED
  BY <1>4, <1>5, <1>6, <1>7 DEF Shop!Arrive

LEMMA LockIsUnnoticed ==
    ASSUME IInv, NEW b \in Buyers, TryLock(b)
    PROVE  UNCHANGED Shop!marketVars
<1>1. UNCHANGED <<goods, need, taken>> /\ pc[b] = "scan"
  BY DEF TryLock
<1>2. taken[b] = 0
  BY <1>1 DEF IInv, NeedInv, InStall
<1>3. CASE mutex[at[b]] = Nobody
  <2>1. mutex' = [mutex EXCEPT ![at[b]] = b] /\ at[b] \in Stalls
    BY <1>3 DEF TryLock
  <2>2. Nobody \notin Buyers
    BY MarketAssumption DEF MarketAssumption
  <2> QED
    BY <1>1, <1>2, <1>3, <2>1, <2>2, Unnoticed DEF IInv, TypeOK
<1>4. CASE mutex[at[b]] # Nobody
  BY <1>1, <1>4, Unnoticed DEF TryLock
<1> QED
  BY <1>3, <1>4

LEMMA EnterIsUnnoticed ==
    ASSUME IInv, Enter
    PROVE  UNCHANGED Shop!marketVars
<1>1. UNCHANGED <<goods, need, taken>> /\ mutex' = [mutex EXCEPT ![at[Loader]] = Loader]
  BY DEF Enter
<1>2. at[Loader] \in Stalls /\ mutex[at[Loader]] = Nobody
  BY DEF Enter, IInv, OwnerInv
<1>3. Nobody \notin Buyers /\ Loader \notin Buyers
  BY MarketAssumption DEF MarketAssumption
<1> QED
  BY <1>1, <1>2, <1>3, Unnoticed DEF IInv, TypeOK

LEMMA StepIsMarketStep == IInv /\ [Next]_vars => [Shop!MarketNext]_Shop!marketVars
<1> SUFFICES ASSUME IInv, [Next]_vars PROVE [Shop!MarketNext]_Shop!marketVars
  OBVIOUS
<1>1. ASSUME NEW b \in Buyers, Start(b) PROVE Shop!MarketNext
  BY <1>1, StartIsArrive DEF Shop!MarketNext
<1>2. ASSUME NEW b \in Buyers, Leave(b) PROVE Shop!MarketNext
  <2>1. at[b] \in Stalls
    BY <1>2, InStallOwns DEF Leave, InStall, Threads
  <2> QED
    BY <1>2, <2>1, LeaveIsBuy DEF Shop!MarketNext
<1>3. CASE AddGoods
  <2>1. at[Loader] \in Stalls
    BY <1>3, InStallOwns DEF AddGoods, InStall, Threads
  <2> QED
    BY <1>3, <2>1, AddIsDeliver DEF Shop!MarketNext
<1>4. ASSUME NEW b \in Buyers, TryLock(b) \/ Take(b) PROVE UNCHANGED Shop!marketVars
  BY <1>4, LockIsUnnoticed, TakeIsStutter
<1>5. CASE Enter
  BY <1>5, EnterIsUnnoticed
<1>6. ASSUME NEW b \in Buyers, NoStall(b) \/ WakeUp(b) \/ Look(b)
             \/ LockFinished(b, "finish", "count") \/ LoadFinished(b) \/ StoreFinished(b)
      PROVE  UNCHANGED Shop!marketVars
  <2>1. UNCHANGED <<goods, need, taken, mutex>>
    BY <1>6 DEF NoStall, WakeUp, Look, LockFinished, LoadFinished, StoreFinished
  <2> QED
    BY <2>1, Unnoticed
<1>7. CASE LockFinished(Loader, "lock", "look") \/ LookAtFinished \/ LoadGoods
           \/ LoaderWakes \/ Close \/ (\E s \in Stalls : Pick(s)) \/ UNCHANGED vars
  <2>1. UNCHANGED <<goods, need, taken, mutex>>
    BY <1>7 DEF LockFinished, LookAtFinished, LoadGoods, LoaderWakes, Close, Pick, vars
  <2> QED
    BY <2>1, Unnoticed
<1> QED
  BY <1>1, <1>2, <1>3, <1>4, <1>5, <1>6, <1>7 DEF Next, Buyer, LoaderStep

\* For any number of stalls and buyers, the piecewise purchases (task.c:69-77) and
\* the deliveries (124) behave as if every visit were one purchase.
THEOREM Refinement == Spec => ImplementsMarket
<1>1. IInv /\ [Next]_vars => [Shop!MarketNext]_Shop!marketVars
  BY StepIsMarketStep
<1> QED
  BY <1>1, InitMarket, Invariance, PTL DEF Spec, ImplementsMarket, Shop!Market

-----------------------------------------------------------------------------
(* ArrayBook: the count covers the entries.  The count alone is not           *)
(* inductive: a deletion lowers it only because the index is an entry in use, *)
(* and an addition that fills no field happens only at the end of the input.  *)

BookInv ==
    /\ phonebook \in [Index -> 0 .. 3]
    /\ entry_count \in Nat
    /\ input \in {"text", "word", "ended"}
    /\ CountCoversTheBook

LEMMA UsedIsFinite ==
    IsFiniteSet(Used) /\ Cardinality(Used) \in Nat /\ Cardinality(Used) <= MAX_ABONENTS
<1>1. MAX_ABONENTS \in Nat \ {0}
  BY ArrayAssumption DEF ArrayAssumption
<1>2. IsFiniteSet(Index) /\ Cardinality(Index) = MAX_ABONENTS
  BY <1>1, FS_Interval DEF Index
<1>3. Used \in SUBSET Index
  BY DEF Used
<1> QED
  BY <1>2, <1>3, FS_Subset, FS_CardinalityType

LEMMA BookInit == ArrayInit => BookInv
<1> SUFFICES ASSUME ArrayInit PROVE BookInv
  OBVIOUS
<1>1. Used = {}
  BY DEF ArrayInit, Used
<1>2. MAX_ABONENTS \in Nat
  BY ArrayAssumption DEF ArrayAssumption
<1> QED
  BY <1>1, <1>2, FS_EmptySet DEF ArrayInit, BookInv, CountCoversTheBook

\* Setting one entry, to the fields filled, adds it to those in use or takes it out.
LEMMA UsedAfter ==
    ASSUME BookInv, NEW k \in Index, NEW n \in 0 .. 3,
           phonebook' = [phonebook EXCEPT ![k] = n]
    PROVE  Used' = IF n > 0 THEN Used \cup {k} ELSE Used \ {k}
<1>1. \A j \in Index : phonebook'[j] = IF j = k THEN n ELSE phonebook[j]
  BY DEF BookInv
<1> QED
  BY <1>1 DEF Used

LEMMA BookStep == BookInv /\ [ArrayNext]_bookVars => BookInv'
<1> SUFFICES ASSUME BookInv, [ArrayNext]_bookVars PROVE BookInv'
  OBVIOUS
<1> USE DEF BookInv
<1>0. /\ IsFiniteSet(Used) /\ Cardinality(Used) \in Nat /\ MAX_ABONENTS \in Nat
  BY UsedIsFinite, ArrayAssumption DEF ArrayAssumption
<1>1. CASE UNCHANGED <<phonebook, entry_count, input>>
  BY <1>1 DEF CountCoversTheBook, Used
<1>2. CASE UNCHANGED <<phonebook, entry_count>> /\ input' \in {"text", "word", "ended"}
                /\ (input' # "ended" => input # "ended")
  BY <1>2 DEF CountCoversTheBook, Used
<1>3. CASE ReadChoice
  BY <1>1, <1>2, <1>3 DEF ReadChoice
<1>4. CASE AddEntry
  <2>1. CASE UNCHANGED <<phonebook, entry_count, input>>
    BY <1>1, <2>1
  <2>2. ASSUME NEW k \in Empty, NEW n \in 0 .. 3, ReadFields(n), entry_count < MAX_ABONENTS,
               phonebook' = [phonebook EXCEPT ![k] = n], entry_count' = entry_count + 1
        PROVE  BookInv'
    <3>1. k \in Index /\ k \notin Used
      BY DEF Empty
    <3>2. Used' = IF n > 0 THEN Used \cup {k} ELSE Used
      BY <2>2, <3>1, UsedAfter
    <3>3. Cardinality(Used') = IF n > 0 THEN Cardinality(Used) + 1 ELSE Cardinality(Used)
      BY <1>0, <3>1, <3>2, FS_AddElement
    <3>4. phonebook' \in [Index -> 0 .. 3]
      BY <2>2, <3>1
    <3>5. /\ input' \in {"text", "word", "ended"}
          /\ input' # "ended" => input # "ended" /\ n > 0
      BY <2>2 DEF ReadFields
    <3> QED
      BY <1>0, <2>2, <3>3, <3>4, <3>5 DEF CountCoversTheBook
  <2> QED
    BY <1>4, <2>1, <2>2 DEF AddEntry
<1>5. CASE DeleteEntry
  <2>1. input' \in {"text", "word", "ended"} /\ (input' # "ended" => input # "ended")
    BY <1>5 DEF DeleteEntry
  <2>2. CASE UNCHANGED <<phonebook, entry_count>>
    BY <1>2, <2>1, <2>2
  <2>3. ASSUME NEW k \in Used, entry_count > 0, phonebook' = [phonebook EXCEPT ![k] = 0],
               entry_count' = entry_count - 1
        PROVE  BookInv'
    <3>1. k \in Index
      BY DEF Used
    <3>2. Used' = Used \ {k}
      <4>1. 0 \in 0 .. 3 /\ ~(0 > 0)
        OBVIOUS
      <4>2. Used' = IF 0 > 0 THEN Used \cup {k} ELSE Used \ {k}
        BY <2>3, <3>1, <4>1, UsedAfter
      <4> QED
        BY <4>1, <4>2
    <3>3. Cardinality(Used') = Cardinality(Used) - 1
      BY <1>0, <2>3, <3>2, FS_RemoveElement
    <3>4. phonebook' \in [Index -> 0 .. 3]
      BY <2>3, <3>1
    <3> QED
      BY <1>0, <2>1, <2>3, <3>3, <3>4 DEF CountCoversTheBook
  <2> QED
    BY <1>5, <2>2, <2>3 DEF DeleteEntry
<1>6. CASE SearchEntries \/ PrintEntries
  BY <1>1, <1>2, <1>6 DEF SearchEntries, PrintEntries
<1>7. CASE UNCHANGED bookVars
  BY <1>1, <1>7 DEF bookVars
<1> QED
  BY <1>3, <1>4, <1>5, <1>6, <1>7 DEF ArrayNext

\* abonent_count is the number of entries in use in a book of any size, as long as
\* there is input, and never above the size of the book (lab4/task.c:29-79).
THEOREM CountTheorem == ArraySpec => []CountCoversTheBook
<1>1. BookInv => CountCoversTheBook
  BY DEF BookInv
<1> QED
  BY BookInit, BookStep, <1>1, PTL DEF ArraySpec

-----------------------------------------------------------------------------
(* FileManager: the path and the walk.                                      *)

\* A path without its last name, and what is put before it.
LEMMA FrontFacts ==
    ASSUME NEW S, NEW q \in Seq(S), q # << >>
    PROVE  Front(q) \in Seq(S) /\ \E e \in S : q = Append(Front(q), e)
<1>1. Len(q) \in Nat \ {0} /\ q[Len(q)] \in S /\ \A k \in 1 .. Len(q) : q[k] \in S
  BY EmptySeq, LenProperties, ElementOfSeq
<1>2. Front(q) \in Seq(S)
  BY <1>1, SubSeqProperties DEF Front
<1>3. SubSeq(q, 1, Len(q)) = Front(q) \o << q[Len(q)] >>
  BY <1>1, SubSeqRecursiveSecond DEF Front
<1>4. q = Front(q) \o << q[Len(q)] >>
  BY <1>3, SubSeqFull
<1>5. q = Append(Front(q), q[Len(q)])
  BY <1>1, <1>2, <1>4, AppendIsConcat
<1> QED
  BY <1>1, <1>2, <1>5

LEMMA FrontOfAppend ==
    ASSUME NEW S, NEW q \in Seq(S), NEW e \in S
    PROVE  Front(Append(q, e)) = q
<1> DEFINE r == Append(q, e)
<1>1. r \in Seq(S) /\ Len(r) = Len(q) + 1 /\ r # << >> /\ r[Len(r)] = e
  BY AppendProperties, LenProperties, EmptySeq
<1>2. PICK d \in S : r = Append(Front(r), d)
  BY <1>1, FrontFacts
<1>3. Front(r) \in Seq(S)
  BY <1>1, FrontFacts
<1>4. d = e
  BY <1>1, <1>2, <1>3, AppendProperties, LenProperties
<1>5. q \o << e >> = Front(r) \o << e >> /\ << e >> \in Seq(S)
  <2>1. r = q \o << e >>
    BY AppendIsConcat
  <2>2. Append(Front(r), e) = Front(r) \o << e >>
    BY <1>3, AppendIsConcat
  <2> HIDE DEF r
  <2>3. r = Append(Front(r), e)
    BY <1>2, <1>4
  <2>4. << e >> \in Seq(S)
    OBVIOUS
  <2>5. q \o << e >> = Front(r) \o << e >>
    BY <2>1, <2>2, <2>3
  <2> QED
    BY <2>4, <2>5
<1> HIDE DEF r
<1>6. q = Front(r)
  BY <1>3, <1>5, ConcatSimplifications
<1> QED
  BY <1>6 DEF r

LEMMA AppendAfter ==
    ASSUME NEW S, NEW s \in Seq(S), NEW q \in Seq(S), NEW e \in S
    PROVE  s \o Append(q, e) = Append(s \o q, e)
<1>1. << e >> \in Seq(S) /\ s \o q \in Seq(S)
  BY ConcatProperties
<1>2. s \o (q \o << e >>) = (s \o q) \o << e >>
  BY <1>1, ConcatAssociative
<1> QED
  BY <1>1, <1>2, AppendIsConcat

LEMMA FrontAfter ==
    ASSUME NEW S, NEW s \in Seq(S), NEW q \in Seq(S), q # << >>
    PROVE  Front(s \o q) = s \o Front(q) /\ s \o q # << >>
<1>1. PICK e \in S : q = Append(Front(q), e)
  BY FrontFacts
<1>2. Front(q) \in Seq(S) /\ s \o Front(q) \in Seq(S)
  BY FrontFacts, ConcatProperties
<1>3. s \o q = Append(s \o Front(q), e)
  BY <1>1, <1>2, AppendAfter
<1>4. Front(s \o q) = s \o Front(q)
  BY <1>2, <1>3, FrontOfAppend
<1>5. Append(s \o Front(q), e) # << >>
  BY <1>2, QueueAppend
<1> QED
  BY <1>3, <1>4, <1>5

Paths == [absolute : BOOLEAN, names : Seq(DirNames)]
Entries ==
    {[name |-> Up, is_dir |-> TRUE]} \cup {[name |-> n, is_dir |-> TRUE] : n \in DirNames}
        \cup {[name |-> n, is_dir |-> FALSE] : n \in FileNames}

FileTypes ==
    /\ active_panel \in Panels
    /\ path \in [Panels -> Paths]
    /\ entries \in [Panels -> Seq(Entries)]
    /\ selected \in [Panels -> Nat]
    /\ where \in [Panels -> Seq(DirNames)]

FileInv == FileTypes /\ PathFollowsTheWalk

LEMMA CwdFacts ==
    /\ Cwd \in Seq(DirNames) /\ Cwd # << >> /\ Front(Cwd) = << >>
    /\ \A q \in Seq(DirNames) : Cwd \o q \in Seq(DirNames) /\ Cwd \o q # << >>
<1>1. PICK n \in DirNames : Cwd = << n >>
  BY FileAssumption DEF Cwd
<1>2. << >> \in Seq(DirNames) /\ Append(<< >>, n) = << n >>
  BY EmptySeq
<1>3. Cwd \in Seq(DirNames) /\ Cwd # << >>
  BY <1>1
<1>4. Front(Cwd) = << >>
  BY <1>1, <1>2, FrontOfAppend
<1>5. ASSUME NEW q \in Seq(DirNames) PROVE Cwd \o q \in Seq(DirNames) /\ Cwd \o q # << >>
  BY <1>3, ConcatProperties, ConcatSimplifications
<1> QED
  BY <1>3, <1>4, <1>5

\* The text with its last name cut off leads one directory up, or stays at the root.
LEMMA ParentLeadsUp ==
    ASSUME NEW p \in Paths
    PROVE  /\ Parent(p) \in Paths /\ Resolve(p) \in Seq(DirNames)
           /\ Resolve(Parent(p)) = IF Resolve(p) = << >> THEN << >> ELSE Front(Resolve(p))
<1>1. /\ p.absolute \in BOOLEAN /\ p.names \in Seq(DirNames)
      /\ p = [absolute |-> p.absolute, names |-> p.names]
  BY DEF Paths
<1>2. Resolve(p) \in Seq(DirNames)
  BY <1>1, CwdFacts DEF Resolve
<1>3. CASE p.names # << >>
  <2>1. Parent(p) = [absolute |-> p.absolute, names |-> Front(p.names)]
    BY <1>1, <1>3 DEF Parent
  <2>2. Front(p.names) \in Seq(DirNames)
    BY <1>1, <1>3, FrontFacts
  <2>3. Front(Cwd \o p.names) = Cwd \o Front(p.names)
    BY <1>1, <1>3, CwdFacts, FrontAfter
  <2>4. Parent(p) \in Paths
    BY <1>1, <2>1, <2>2 DEF Paths
  <2>5. CASE p.absolute
    <3>1. Resolve(p) = p.names /\ Resolve(Parent(p)) = Front(p.names)
      BY <2>1, <2>5 DEF Resolve
    <3> QED
      BY <1>2, <1>3, <2>4, <3>1
  <2>6. CASE ~ p.absolute
    <3>1. Resolve(p) = Cwd \o p.names /\ Resolve(Parent(p)) = Cwd \o Front(p.names)
      BY <2>1, <2>6 DEF Resolve
    <3>2. Cwd \o p.names # << >>
      BY <1>1, CwdFacts
    <3> QED
      BY <1>2, <2>3, <2>4, <3>1, <3>2
  <2> QED
    BY <2>5, <2>6
<1>4. CASE p.names = << >> /\ p.absolute
  <2>1. p = Root /\ Parent(p) = Root
    BY <1>1, <1>4 DEF Root, Parent
  <2> QED
    BY <1>2, <1>4, <2>1 DEF Resolve
<1>5. CASE p.names = << >> /\ ~ p.absolute
  <2>1. p # Root
    BY <1>5 DEF Root
  <2>2. Parent(p) = [absolute |-> TRUE, names |-> Front(Cwd)]
    BY <1>5, <2>1 DEF Parent
  <2>3. Cwd \o p.names = Cwd
    BY <1>5, CwdFacts, ConcatEmptySeq
  <2>4. << >> \in Seq(DirNames)
    OBVIOUS
  <2> QED
    BY <1>2, <1>5, <2>2, <2>3, <2>4, CwdFacts DEF Resolve, Paths
<1> QED
  BY <1>1, <1>3, <1>4, <1>5

\* What load_directory can give.
LEMMA LoadedFacts ==
    ASSUME NEW p, NEW list \in Loaded(p)
    PROVE  list \in Seq(Entries) /\ (list # << >> => list[1].name = Up)
<1> DEFINE d == Resolve(p)
<1>1. CASE list = << >>
  BY <1>1
<1>2. CASE list # << >>
  <2> DEFINE dots == [name |-> Up, is_dir |-> TRUE]
  <2>1. PICK s \in SetToSeqs(Children(d)) : list = Limited(<< dots >> \o s)
    BY <1>2 DEF Loaded
  <2>2. Children(d) \subseteq Entries /\ dots \in Entries
    BY DEF Children, Entries
  <2>3. IsFiniteSet(Children(d))
    <3> DEFINE D == {[name |-> n, is_dir |-> TRUE] : n \in DirNames}
               F == {[name |-> n, is_dir |-> FALSE] : n \in FileNames}
    <3>1. [n \in DirNames |-> [name |-> n, is_dir |-> TRUE]] \in Surjection(DirNames, D)
      BY DEF Surjection
    <3>2. [n \in FileNames |-> [name |-> n, is_dir |-> FALSE]] \in Surjection(FileNames, F)
      BY DEF Surjection
    <3>3. IsFiniteSet(D) /\ IsFiniteSet(F)
      BY <3>1, <3>2, FileAssumption, FS_Surjection
    <3>4. Children(d) \subseteq D \cup F
      BY DEF Children
    <3> HIDE DEF D, F, d
    <3>5. IsFiniteSet(D \cup F)
      BY <3>3, FS_Union
    <3> QED
      BY <3>4, <3>5, FS_Subset
  <2>4. s \in Seq(Entries)
    <3>1. Cardinality(Children(d)) \in Nat
      BY <2>3, FS_CardinalityType
    <3>2. s \in [1 .. Cardinality(Children(d)) -> Children(d)]
      BY DEF SetToSeqs
    <3> HIDE DEF d
    <3>3. s \in [1 .. Cardinality(Children(d)) -> Entries]
      BY <2>2, <3>2
    <3> QED
      BY <3>1, <3>3
  <2> DEFINE r == << dots >> \o s
  <2>5. /\ r \in Seq(Entries) /\ Len(r) \in Nat /\ Len(r) >= 1 /\ r[1] = dots
        /\ \A k \in 1 .. Len(r) : r[k] \in Entries
    <3>1. << dots >> \in Seq(Entries) /\ Len(<< dots >>) = 1 /\ << dots >>[1] = dots
      BY <2>2
    <3>2. /\ r \in Seq(Entries) /\ Len(r) = 1 + Len(s)
          /\ \A k \in 1 .. 1 + Len(s) : r[k] = IF k <= 1 THEN << dots >>[k] ELSE s[k - 1]
      BY <2>4, <3>1, ConcatProperties
    <3>3. Len(s) \in Nat
      BY <2>4, LenProperties
    <3> HIDE DEF r, dots
    <3>4. Len(r) \in Nat /\ Len(r) >= 1 /\ r[1] = dots
      BY <3>1, <3>2, <3>3
    <3> QED
      BY <3>2, <3>4, ElementOfSeq
  <2>6. dots.name = Up
    OBVIOUS
  <2> HIDE DEF r, dots
  <2>7. CASE list = r
    BY <2>5, <2>6, <2>7
  <2>8. CASE list = SubSeq(r, 1, MAX_ENTRIES) /\ Len(r) > MAX_ENTRIES
    <3>1. MAX_ENTRIES \in Nat \ {0}
      BY FileAssumption
    <3>2. /\ SubSeq(r, 1, MAX_ENTRIES) \in Seq(Entries)
          /\ \A k \in 1 .. MAX_ENTRIES - 1 + 1 : SubSeq(r, 1, MAX_ENTRIES)[k] = r[1 + k - 1]
      BY <2>5, <2>8, <3>1, SubSeqProperties
    <3>3. SubSeq(r, 1, MAX_ENTRIES)[1] = r[1]
      BY <3>1, <3>2
    <3> QED
      BY <2>5, <2>6, <2>8, <3>2, <3>3
  <2> QED
    BY <2>1, <2>7, <2>8 DEF Limited, r, dots
<1> QED
  BY <1>1, <1>2

\* The panel shows the path p, to which the user has walked.
LEMMA ShowKeeps ==
    ASSUME FileInv, NEW s \in Panels, NEW p \in Paths, Show(s, p),
           where' = [where EXCEPT ![s] = Resolve(p)], Resolve(p) \in Seq(DirNames),
           active_panel' = active_panel
    PROVE  FileInv'
<1>1. PICK list \in Loaded(p) : entries' = [entries EXCEPT ![s] = list]
  BY DEF Show
<1>2. list \in Seq(Entries) /\ (list # << >> => list[1].name = Up)
  BY LoadedFacts
<1>3. /\ path' = [path EXCEPT ![s] = p] /\ selected' = [selected EXCEPT ![s] = 1]
  BY DEF Show
<1>4. FileTypes'
  BY <1>1, <1>2, <1>3 DEF FileInv, FileTypes
<1>5. /\ path'[s] = p /\ selected'[s] = 1 /\ entries'[s] = list /\ where'[s] = Resolve(p)
      /\ \A t \in Panels : t # s => /\ path'[t] = path[t] /\ selected'[t] = selected[t]
                                   /\ entries'[t] = entries[t] /\ where'[t] = where[t]
  BY <1>1, <1>3 DEF FileInv, FileTypes
<1>6. PathFollowsTheWalk'
  <2> SUFFICES ASSUME NEW t \in Panels
               PROVE  /\ Resolve(path'[t]) = where'[t]
                      /\ selected'[t] = 1 \/ selected'[t] \in DOMAIN entries'[t]
                      /\ entries'[t] # << >> => entries'[t][1].name = Up
    BY DEF PathFollowsTheWalk
  <2>1. CASE t = s
    BY <1>2, <1>5, <2>1
  <2>2. CASE t # s
    BY <1>5, <2>2 DEF FileInv, PathFollowsTheWalk
  <2> QED
    BY <2>1, <2>2
<1> QED
  BY <1>4, <1>6 DEF FileInv

LEMMA ChangeDirectoryKeeps ==
    ASSUME FileInv, ChangeDirectory
    PROVE  FileInv'
<1> DEFINE s == active_panel
           entry == entries[s][selected[s]]
<1>1. s \in Panels /\ path[s] \in Paths /\ entries[s] # << >> /\ active_panel' = active_panel
  BY DEF ChangeDirectory, FileInv, FileTypes
<1>2. entry \in Entries
  <2>1. entries[s] \in Seq(Entries) /\ selected[s] \in Nat
    BY <1>1 DEF FileInv, FileTypes
  <2>2. Len(entries[s]) \in Nat \ {0} /\ DOMAIN entries[s] = 1 .. Len(entries[s])
    BY <1>1, <2>1, EmptySeq, LenProperties
  <2>3. selected[s] \in 1 .. Len(entries[s])
    BY <1>1, <2>1, <2>2 DEF FileInv, PathFollowsTheWalk
  <2> QED
    BY <2>1, <2>3, ElementOfSeq
<1>3. Resolve(path[s]) = where[s] /\ where[s] \in Seq(DirNames)
  BY <1>1 DEF FileInv, FileTypes, PathFollowsTheWalk
<1>4. CASE entry.name = Up /\ Show(s, Parent(path[s]))
           /\ where' = [where EXCEPT ![s] = IF @ = << >> THEN @ ELSE Front(@)]
  <2>1. /\ Parent(path[s]) \in Paths
        /\ Resolve(Parent(path[s])) = IF where[s] = << >> THEN << >> ELSE Front(where[s])
    BY <1>1, <1>3, ParentLeadsUp
  <2>2. Resolve(Parent(path[s])) \in Seq(DirNames)
    BY <1>1, <2>1, ParentLeadsUp
  <2>3. where' = [where EXCEPT ![s] = Resolve(Parent(path[s]))]
    BY <1>4, <2>1
  <2> HIDE DEF s
  <2> QED
    BY <1>1, <1>4, <2>1, <2>2, <2>3, ShowKeeps
<1>5. CASE entry.name # Up /\ entry.is_dir /\ Show(s, [path[s] EXCEPT !.names = Append(@, entry.name)])
           /\ where' = [where EXCEPT ![s] = Append(@, entry.name)]
  <2> DEFINE n == entry.name
             p == [path[s] EXCEPT !.names = Append(@, n)]
  <2>1. n \in DirNames
    <3>1. \A e \in Entries : e.name # Up /\ e.is_dir => e.name \in DirNames
      BY DEF Entries
    <3> HIDE DEF entry
    <3> QED
      BY <1>2, <1>5, <3>1
  <2>2. /\ path[s].absolute \in BOOLEAN /\ path[s].names \in Seq(DirNames)
        /\ p = [absolute |-> path[s].absolute, names |-> Append(path[s].names, n)]
    <3>1. \A q \in Paths : \A m :
            /\ q.absolute \in BOOLEAN /\ q.names \in Seq(DirNames)
            /\ [q EXCEPT !.names = Append(@, m)] = [absolute |-> q.absolute, names |-> Append(q.names, m)]
      BY DEF Paths
    <3> HIDE DEF n, s
    <3> QED
      BY <1>1, <3>1
  <2>3. Append(path[s].names, n) \in Seq(DirNames)
    BY <2>1, <2>2, AppendProperties
  <2>4. p \in Paths /\ p.absolute = path[s].absolute /\ p.names = Append(path[s].names, n)
    BY <2>2, <2>3 DEF Paths
  <2>5. Resolve(p) = Append(where[s], n) /\ Append(where[s], n) \in Seq(DirNames)
    <3>1. Cwd \o Append(path[s].names, n) = Append(Cwd \o path[s].names, n)
      BY <2>1, <2>2, CwdFacts, AppendAfter
    <3>2. Append(where[s], n) \in Seq(DirNames)
      BY <1>3, <2>1, AppendProperties
    <3> HIDE DEF n, p, s
    <3> QED
      BY <1>3, <2>4, <3>1, <3>2 DEF Resolve
  <2>6. Show(s, p) /\ where' = [where EXCEPT ![s] = Append(@, n)]
    BY <1>5
  <2> HIDE DEF n, p, s
  <2> QED
    BY <1>1, <2>4, <2>5, <2>6, ShowKeeps
<1> QED
  BY <1>4, <1>5 DEF ChangeDirectory

\* The keys that move the selection, and what happens beside the panels.
LEMMA OtherKeysKeep ==
    ASSUME FileInv, KeyUp \/ KeyDown \/ Tab \/ QuitKey \/ OtherPrograms
    PROVE  FileInv'
<1>1. UNCHANGED <<path, entries, where>> /\ active_panel' \in Panels
  BY DEF KeyUp, KeyDown, Tab, QuitKey, OtherPrograms, panelVars, FileInv, FileTypes, Panels
<1>2. CASE UNCHANGED selected
  BY <1>1, <1>2 DEF FileInv, FileTypes, PathFollowsTheWalk
<1>3. CASE KeyUp \/ KeyDown
  <2>1. PICK s \in Panels : s = active_panel
    BY DEF FileInv, FileTypes
  <2>2. /\ selected[s] \in Nat /\ entries[s] \in Seq(Entries) /\ Len(entries[s]) \in Nat
        /\ DOMAIN entries[s] = 1 .. Len(entries[s])
        /\ selected[s] = 1 \/ selected[s] \in DOMAIN entries[s]
    BY LenProperties DEF FileInv, FileTypes, PathFollowsTheWalk
  <2>3. PICK n \in Nat : /\ selected' = [selected EXCEPT ![s] = n]
                         /\ n = 1 \/ n \in DOMAIN entries[s]
    BY <1>3, <2>1, <2>2 DEF KeyUp, KeyDown
  <2>4. FileTypes'
    BY <1>1, <2>3 DEF FileInv, FileTypes
  <2>5. selected'[s] = n /\ \A t \in Panels : t # s => selected'[t] = selected[t]
    BY <2>3 DEF FileInv, FileTypes
  <2> QED
    BY <1>1, <2>3, <2>4, <2>5 DEF FileInv, PathFollowsTheWalk
<1> QED
  BY <1>2, <1>3 DEF Tab, QuitKey, OtherPrograms, panelVars

\* Whatever way the user walks, the text of a panel's path leads to where the walk has
\* led, and the selection is in the list that was loaded (lab9/task2.c:84-135).
THEOREM WalkTheorem == FileSpec => []PathFollowsTheWalk
<1>1. FileInit => FileInv
  <2> SUFFICES ASSUME FileInit PROVE FileInv
    OBVIOUS
  <2>1. Dot \in Paths /\ Dot.names = << >> /\ Dot.absolute = FALSE
    BY DEF Dot, Paths
  <2>2. Resolve(Dot) = Cwd
    BY <2>1, CwdFacts, ConcatEmptySeq DEF Resolve
  <2>3. \A s \in Panels : /\ path[s] = Dot /\ selected[s] = 1 /\ where[s] = Cwd
                          /\ entries[s] \in Loaded(Dot)
    BY DEF FileInit
  <2>4. \A s \in Panels : /\ entries[s] \in Seq(Entries)
                          /\ entries[s] # << >> => entries[s][1].name = Up
    BY <2>3, LoadedFacts
  <2>5. FileTypes
    <3>1. entries \in [Panels -> Seq(Entries)]
      BY <2>4 DEF FileInit
    <3> QED
      BY <2>1, <3>1, CwdFacts DEF FileInit, FileTypes, Panels
  <2> QED
    BY <2>2, <2>3, <2>4, <2>5 DEF FileInv, PathFollowsTheWalk
<1>2. FileInv /\ [FileNext]_fileVars => FileInv'
  <2> SUFFICES ASSUME FileInv, [FileNext]_fileVars PROVE FileInv'
    OBVIOUS
  <2>1. CASE UNCHANGED fileVars
    BY <2>1 DEF fileVars, panelVars, FileInv, FileTypes, PathFollowsTheWalk
  <2>2. CASE FileNext
    BY <2>2, ChangeDirectoryKeeps, OtherKeysKeep DEF FileNext
  <2> QED
    BY <2>1, <2>2
<1>3. FileInv => PathFollowsTheWalk
  BY DEF FileInv
<1> QED
  BY <1>1, <1>2, <1>3, PTL DEF FileSpec

-----------------------------------------------------------------------------
(* Pipeline: who is there, and who holds the ends of a pipe.                *)

DoesPlaces == {"none", "setup", "read", "write", "lastWrite", "zombie"}
Processes == {Shell} \cup Stages

PipelineTypes ==
    /\ commands \in Seq(Commands) /\ Count <= MaxStages
    /\ shell \in {"prompt", "pipe", "fork", "close", "wait", "exit"}
    /\ stage \in Nat /\ prev_pipe \in Nat /\ waited \in Nat
    /\ does \in [Stages -> DoesPlaces]
    /\ readers \in [Pipes -> SUBSET Processes] /\ writers \in [Pipes -> SUBSET Processes]

\* The children that have been forked and not been waited for.
Started == {k \in Stages : does[k] # "none"}

StartedInv ==
    /\ Started \subseteq 1 .. Count
    /\ shell \in {"pipe", "fork", "close"} =>
         stage \in 1 .. Count /\ prev_pipe = stage - 1 /\ waited = 0
    /\ shell \in {"pipe", "close"} => Count > 1
    /\ shell \in {"pipe", "fork"} => Started = 1 .. stage - 1
    /\ shell = "close" => Started = 1 .. stage
    /\ shell = "wait" => waited + Cardinality(Started) = Count
    /\ shell = "prompt" => Started = {}

\* The pipe that has been made for the stage the shell is at.
Made(p) == shell \in {"fork", "close"} /\ p = stage /\ stage < Count

\* Only processes that run hold a pipe, only neighbours do, and the shell only the
\* pipe it has just made and the end it keeps for the next stage.
HeldInv ==
    shell # "exit" => \A p \in Pipes :
        /\ \A k \in Stages : k \in readers[p] \/ k \in writers[p] => Alive(k)
        /\ readers[p] \subseteq {Shell, p, p + 1} /\ writers[p] \subseteq {Shell, p}
        /\ Shell \in writers[p] => Made(p)
        /\ Shell \in readers[p] =>
             Made(p) \/ (shell \in {"pipe", "fork", "close"} /\ p = prev_pipe)

PipelineInv == PipelineTypes /\ StartedInv /\ HeldInv

LEMMA StageBounds ==
    ASSUME PipelineTypes
    PROVE  /\ MaxStages \in Nat /\ Count \in Nat /\ 1 .. Count \subseteq Stages
           /\ Shell \notin Stages /\ Pipes \subseteq Stages
           /\ IsFiniteSet(Started) /\ Cardinality(Started) \in Nat
<1>1. MaxStages \in Nat /\ Count \in Nat
  BY MaxStagesAssumption, LenProperties DEF PipelineTypes, Count
<1>2. 1 .. Count \subseteq Stages /\ Shell \notin Stages /\ Pipes \subseteq Stages
  BY <1>1 DEF PipelineTypes, Stages, Shell, Pipes
<1>3. IsFiniteSet(Started)
  <2>1. IsFiniteSet(Stages) /\ Started \in SUBSET Stages
    BY <1>1, FS_Interval DEF Started, Stages
  <2> QED
    BY <2>1, FS_Subset
<1> QED
  BY <1>1, <1>2, <1>3, FS_CardinalityType

\* What a child's own step leaves: it is still to be waited for, and what it holds it
\* held before, nothing when it is over.
LEMMA StageMoves ==
    ASSUME PipelineInv, NEW k \in Stages, NEW s \in DoesPlaces \ {"none"},
           Alive(k), does' = [does EXCEPT ![k] = s],
           UNCHANGED <<commands, shell, stage, prev_pipe, waited>>,
           readers' \in [Pipes -> SUBSET Processes], writers' \in [Pipes -> SUBSET Processes],
           \A p \in Pipes : readers'[p] \subseteq readers[p] /\ writers'[p] \subseteq writers[p],
           s = "zombie" => \A p \in Pipes : k \notin readers'[p] /\ k \notin writers'[p]
    PROVE  PipelineInv'
<1>1. PipelineTypes'
  BY DEF PipelineInv, PipelineTypes, Count
<1>2. does'[k] = s /\ \A j \in Stages : j # k => does'[j] = does[j]
  BY DEF PipelineInv, PipelineTypes
<1>3. Started' = Started
  BY <1>2 DEF Started, Alive
<1>4. StartedInv'
  BY <1>3 DEF PipelineInv, StartedInv, Count
<1>5. \A j \in Stages : j # k => (Alive(j)' <=> Alive(j))
  BY <1>2 DEF Alive
<1>6. s # "zombie" => Alive(k)'
  BY <1>2 DEF Alive, DoesPlaces
<1>7. HeldInv'
  <2> SUFFICES ASSUME shell # "exit", NEW p \in Pipes
               PROVE  /\ \A j \in Stages : j \in readers'[p] \/ j \in writers'[p] => Alive(j)'
                      /\ readers'[p] \subseteq {Shell, p, p + 1} /\ writers'[p] \subseteq {Shell, p}
                      /\ Shell \in writers'[p] => Made(p)
                      /\ Shell \in readers'[p] =>
                           \/ Made(p)
                           \/ shell \in {"pipe", "fork", "close"} /\ p = prev_pipe
    BY DEF HeldInv, Made, Count
  <2>1. \A j \in Stages : j \in readers'[p] \/ j \in writers'[p] => Alive(j)'
    BY <1>5, <1>6 DEF PipelineInv, HeldInv
  <2> QED
    BY <2>1 DEF PipelineInv, HeldInv
<1> QED
  BY <1>1, <1>4, <1>7 DEF PipelineInv

\* exit(), or the end by a signal.
LEMMA StageEnds ==
    ASSUME PipelineInv, NEW k \in Stages, Alive(k), Ends(k),
           UNCHANGED <<commands, shell, stage, prev_pipe, waited>>
    PROVE  PipelineInv'
<1>1. /\ readers \in [Pipes -> SUBSET Processes] /\ writers \in [Pipes -> SUBSET Processes]
      /\ readers' = [p \in Pipes |-> readers[p] \ {k}]
      /\ writers' = [p \in Pipes |-> writers[p] \ {k}]
  BY DEF Ends, CloseEnds, PipelineInv, PipelineTypes
<1>2. /\ readers' \in [Pipes -> SUBSET Processes] /\ writers' \in [Pipes -> SUBSET Processes]
      /\ \A p \in Pipes : readers'[p] \subseteq readers[p] /\ writers'[p] \subseteq writers[p]
      /\ \A p \in Pipes : k \notin readers'[p] /\ k \notin writers'[p]
  BY <1>1
<1>3. does' = [does EXCEPT ![k] = "zombie"] /\ "zombie" \in DoesPlaces \ {"none"}
  BY DEF Ends, DoesPlaces
<1> QED
  BY <1>2, <1>3, StageMoves

LEMMA StageKeeps ==
    ASSUME PipelineInv, NEW k \in Stages, Alive(k),
           NEW s \in DoesPlaces \ {"none", "zombie"}, does' = [does EXCEPT ![k] = s],
           UNCHANGED <<commands, shell, stage, prev_pipe, waited, readers, writers>>
    PROVE  PipelineInv'
BY StageMoves DEF PipelineInv, PipelineTypes

LEMMA StageStepKeeps ==
    ASSUME PipelineInv, NEW k \in Stages, StageStep(k)
    PROVE  PipelineInv'
<1>1. Alive(k)
  BY DEF StageStep, ChildSetup, ExecFails, StageReads, StageWrites, Alive
<1>2. UNCHANGED <<commands, shell, stage, prev_pipe, waited>>
  BY DEF StageStep, ChildSetup, ExecFails, StageReads, StageWrites
<1>3. commands[k] \in Commands
  BY <1>1, ElementOfSeq DEF PipelineInv, PipelineTypes, StartedInv, Started, Alive, Count
<1>4. /\ readers \in [Pipes -> SUBSET Processes] /\ writers \in [Pipes -> SUBSET Processes]
      /\ {"read", "write", "lastWrite"} \subseteq DoesPlaces \ {"none", "zombie"}
  BY DEF PipelineInv, PipelineTypes, DoesPlaces
<1>5. CASE ChildSetup(k)
  <2>1. PICK s \in {"read", "write", "lastWrite"} : does' = [does EXCEPT ![k] = s]
    BY <1>3, <1>5 DEF ChildSetup, FirstStep, Commands
  <2>2. /\ readers' = [j \in Pipes |-> IF j = k THEN readers[j] \ {k} ELSE readers[j]]
        /\ writers' = writers
    BY <1>5 DEF ChildSetup
  <2>3. /\ readers' \in [Pipes -> SUBSET Processes]
        /\ \A p \in Pipes : readers'[p] \subseteq readers[p] /\ writers'[p] \subseteq writers[p]
    BY <1>4, <2>2
  <2> QED
    BY <1>1, <1>2, <1>4, <2>1, <2>2, <2>3, StageMoves
<1>6. CASE ExecFails(k)
  BY <1>1, <1>2, <1>6, StageEnds DEF ExecFails
<1>7. CASE StageReads(k)
  <2>1. CASE Ends(k)
    BY <1>1, <1>2, <2>1, StageEnds
  <2>2. CASE GotLine(k) /\ UNCHANGED <<readers, writers>>
    BY <1>1, <1>2, <1>4, <2>2, StageKeeps DEF GotLine
  <2> QED
    BY <1>7, <2>1, <2>2 DEF StageReads, pipeVars
<1>8. CASE StageWrites(k)
  <2>1. CASE Ends(k)
    BY <1>1, <1>2, <2>1, StageEnds
  <2>2. CASE /\ does' = [does EXCEPT ![k] = IF commands[k] = "cat" THEN "read" ELSE "write"]
             /\ UNCHANGED <<readers, writers>>
    BY <1>1, <1>2, <1>4, <2>2, StageKeeps
  <2> QED
    BY <1>8, <2>1, <2>2 DEF StageWrites, Wrote
<1> QED
  BY <1>5, <1>6, <1>7, <1>8 DEF StageStep

LEMMA EndOfInputKeeps ==
    ASSUME PipelineInv, EndOfInput
    PROVE  PipelineInv'
<1>1. 1 \in Stages
  BY MaxStagesAssumption DEF Stages
<1> QED
  BY <1>1, StageEnds DEF EndOfInput, Alive

\* The user types a line, or exit.
LEMMA PromptKeeps ==
    ASSUME PipelineInv, ReadCommand \/ ExitCommand
    PROVE  PipelineInv'
<1>1. UNCHANGED <<does, readers, writers>> /\ shell = "prompt" /\ Started = {} /\ Started' = Started
  BY DEF ReadCommand, ExitCommand, pipeVars, PipelineInv, StartedInv, Started
<1>2. CASE ExitCommand
  BY <1>1, <1>2 DEF ExitCommand, PipelineInv, PipelineTypes, StartedInv, HeldInv, Count
<1>3. CASE ReadCommand
  <2>1. /\ shell' = (IF Count' = 1 THEN "fork" ELSE "pipe") /\ stage' = 1 /\ prev_pipe' = 0
        /\ waited' = 0
    BY <1>3 DEF ReadCommand, Count
  <2>2. commands' \in Seq(Commands) /\ Count' \in 1 .. MaxStages
    <3>1. PICK m \in 0 .. MaxStages : commands' \in [1 .. m -> Commands]
      BY <1>3 DEF ReadCommand, SeqOf
    <3>2. commands' # << >>
      BY <1>3 DEF ReadCommand
    <3>3. m \in Nat /\ MaxStages \in Nat
      BY MaxStagesAssumption
    <3>4. commands' \in Seq(Commands) /\ Len(commands') = m
      BY <3>1, <3>3, LenProperties
    <3>5. m # 0
      BY <3>2, <3>4, EmptySeq
    <3> QED
      BY <3>3, <3>4, <3>5 DEF Count
  <2>3. MaxStages \in Nat
    BY MaxStagesAssumption
  <2>4. PipelineTypes'
    BY <1>1, <2>1, <2>2, <2>3 DEF PipelineInv, PipelineTypes
  <2>5. StartedInv'
    BY <1>1, <2>1, <2>2, <2>3 DEF StartedInv
  <2>6. \A p \in Pipes : /\ \A k \in Stages : k \notin readers[p] /\ k \notin writers[p]
                        /\ Shell \notin readers[p] /\ Shell \notin writers[p]
    BY <1>1 DEF PipelineInv, HeldInv, Alive, Started, Made
  <2>7. HeldInv'
    BY <1>1, <2>6 DEF PipelineInv, HeldInv
  <2> QED
    BY <2>4, <2>5, <2>7 DEF PipelineInv
<1> QED
  BY <1>2, <1>3

\* A failed call ends the shell, or brings it back to the prompt with nothing begun.
LEMMA FailureKeeps ==
    ASSUME PipelineInv, MakePipeFails \/ ForkFails
    PROVE  PipelineInv'
<1>1. CASE Abort
  <2>1. /\ UNCHANGED <<commands, stage, prev_pipe, waited, does>> /\ shell' = "exit"
        /\ readers' = [p \in Pipes |-> readers[p] \ {Shell}]
        /\ writers' = [p \in Pipes |-> writers[p] \ {Shell}]
    BY <1>1 DEF Abort, CloseEnds
  <2>2. /\ readers' \in [Pipes -> SUBSET Processes] /\ writers' \in [Pipes -> SUBSET Processes]
    BY <2>1 DEF PipelineInv, PipelineTypes
  <2>3. PipelineTypes'
    BY <2>1, <2>2 DEF PipelineInv, PipelineTypes, Count
  <2>4. StartedInv'
    BY <2>1 DEF PipelineInv, StartedInv, Started, Count
  <2> QED
    BY <2>1, <2>3, <2>4 DEF PipelineInv, HeldInv
<1>2. CASE ForkFails /\ Count = 1
  <2>1. /\ shell = "fork" /\ shell' = "prompt" /\ commands' = << >>
        /\ UNCHANGED <<stage, prev_pipe, waited, does, readers, writers>>
    BY <1>2 DEF ForkFails, pipeVars
  <2>2. stage = 1 /\ Started = {} /\ Started' = {}
    BY <1>2, <2>1 DEF PipelineInv, StartedInv, Started
  <2>3. commands' \in Seq(Commands) /\ Count' = 0 /\ Count' <= MaxStages
    BY <2>1, MaxStagesAssumption, EmptySeq DEF Count
  <2>4. PipelineTypes'
    BY <2>1, <2>3 DEF PipelineInv, PipelineTypes
  <2>5. StartedInv'
    BY <2>1, <2>2, <2>3 DEF StartedInv
  <2>6. ASSUME NEW p \in Pipes PROVE readers[p] = {} /\ writers[p] = {}
    <3>1. \A k \in Stages : k \notin readers[p] /\ k \notin writers[p]
      BY <2>1, <2>2 DEF PipelineInv, HeldInv, Alive, Started
    <3>2. Shell \notin readers[p] /\ Shell \notin writers[p]
      <4>1. p # 0 /\ prev_pipe = 0 /\ ~ Made(p)
        BY <1>2, <2>1, <2>2 DEF PipelineInv, StartedInv, Pipes, Made
      <4> QED
        BY <2>1, <4>1 DEF PipelineInv, HeldInv
    <3> QED
      BY <3>1, <3>2 DEF PipelineInv, PipelineTypes, Processes
  <2>7. HeldInv'
    BY <2>1, <2>6 DEF HeldInv
  <2> QED
    BY <2>4, <2>5, <2>7 DEF PipelineInv
<1> QED
  BY <1>1, <1>2 DEF MakePipeFails, ForkFails

LEMMA MakePipeKeeps ==
    ASSUME PipelineInv, MakePipe
    PROVE  PipelineInv'
<1>1. /\ UNCHANGED <<commands, stage, prev_pipe, waited, does>>
      /\ shell = "pipe" /\ shell' = "fork"
  BY DEF MakePipe
<1>2. /\ stage \in 1 .. Count /\ prev_pipe = stage - 1 /\ waited = 0
      /\ Count > 1 /\ Started' = Started
  BY <1>1 DEF PipelineInv, StartedInv, Started
<1>3. Count \in Nat /\ Count <= MaxStages /\ MaxStages \in Nat /\ Shell \in Processes
  BY StageBounds DEF PipelineInv, PipelineTypes, Processes
<1>4. StartedInv'
  BY <1>1, <1>2 DEF PipelineInv, StartedInv, Count
<1>5. \A p \in Pipes : p # stage \/ stage = Count =>
        readers'[p] = readers[p] /\ writers'[p] = writers[p]
  BY DEF MakePipe, PipelineInv, PipelineTypes, pipeVars
<1>6. stage < Count => stage \in Pipes /\ readers'[stage] = {Shell} /\ writers'[stage] = {Shell}
  BY <1>2, <1>3 DEF MakePipe, PipelineInv, PipelineTypes, Pipes
<1>7. readers' \in [Pipes -> SUBSET Processes] /\ writers' \in [Pipes -> SUBSET Processes]
  BY <1>3 DEF MakePipe, PipelineInv, PipelineTypes, pipeVars
<1>8. PipelineTypes'
  BY <1>1, <1>7 DEF PipelineInv, PipelineTypes, Count
<1>9. HeldInv'
  <2> SUFFICES ASSUME NEW p \in Pipes
               PROVE  /\ \A j \in Stages : j \in readers'[p] \/ j \in writers'[p] => Alive(j)
                      /\ readers'[p] \subseteq {Shell, p, p + 1} /\ writers'[p] \subseteq {Shell, p}
                      /\ Shell \in writers'[p] => p = stage /\ stage < Count
                      /\ Shell \in readers'[p] => (p = stage /\ stage < Count) \/ p = prev_pipe
    BY <1>1 DEF HeldInv, Made, Alive, Count
  <2>1. CASE p = stage /\ stage < Count
    BY <1>6, <2>1, StageBounds DEF PipelineInv
  <2>2. CASE p # stage \/ stage = Count
    BY <1>1, <1>5, <2>2 DEF PipelineInv, HeldInv, Made
  <2> QED
    BY <1>2, <1>3, <2>1, <2>2
<1> QED
  BY <1>4, <1>8, <1>9 DEF PipelineInv

LEMMA ForkKeeps ==
    ASSUME PipelineInv, ForkStage
    PROVE  PipelineInv'
<1>1. /\ UNCHANGED <<commands, stage, prev_pipe, waited>>
      /\ shell = "fork" /\ shell' = IF Count = 1 THEN "wait" ELSE "close"
      /\ does' = [does EXCEPT ![stage] = "setup"]
  BY DEF ForkStage
<1>2. /\ stage \in 1 .. Count /\ prev_pipe = stage - 1 /\ waited = 0
      /\ Started = 1 .. stage - 1
  BY <1>1 DEF PipelineInv, StartedInv
<1>3. /\ Count \in Nat /\ Count <= MaxStages /\ MaxStages \in Nat /\ Shell \notin Stages
      /\ stage \in Stages /\ stage \in Processes
  BY <1>2, StageBounds DEF PipelineInv, PipelineTypes, Processes
<1>4. does'[stage] = "setup" /\ \A j \in Stages : j # stage => does'[j] = does[j]
  BY <1>1, <1>3 DEF PipelineInv, PipelineTypes
<1>5. Started' = 1 .. stage
  <2>1. Started' = Started \cup {stage}
    BY <1>3, <1>4 DEF Started
  <2> QED
    BY <1>2, <1>3, <2>1
<1>6. /\ readers' = [j \in Pipes |-> IF Shell \in readers[j] THEN readers[j] \cup {stage} ELSE readers[j]]
      /\ writers' = [j \in Pipes |-> IF Shell \in writers[j] THEN writers[j] \cup {stage} ELSE writers[j]]
  BY DEF ForkStage, Inherit
<1>7. PipelineTypes'
  <2>1. /\ readers' \in [Pipes -> SUBSET Processes] /\ writers' \in [Pipes -> SUBSET Processes]
    BY <1>3, <1>6 DEF PipelineInv, PipelineTypes
  <2>2. does' \in [Stages -> DoesPlaces]
    BY <1>1, <1>3 DEF PipelineInv, PipelineTypes, DoesPlaces
  <2> QED
    BY <1>1, <2>1, <2>2 DEF PipelineInv, PipelineTypes, Count
<1>8. StartedInv'
  <2>1. Count = 1 => stage = 1 /\ Cardinality(Started') = 1
    <3> DEFINE one == {1}
    <3>1. Cardinality(one) = 1
      BY FS_Singleton
    <3>2. 1 .. 1 = one
      OBVIOUS
    <3> HIDE DEF one
    <3> QED
      BY <1>2, <1>3, <1>5, <3>1, <3>2
  <2>2. Started' \subseteq 1 .. Count'
    BY <1>1, <1>2, <1>3, <1>5 DEF Count
  <2>3. Count' = Count
    BY <1>1 DEF Count
  <2> QED
    BY <1>1, <1>2, <1>3, <1>5, <2>1, <2>2, <2>3 DEF StartedInv
<1>9. HeldInv'
  <2> SUFFICES ASSUME NEW p \in Pipes
               PROVE  /\ \A j \in Stages : j \in readers'[p] \/ j \in writers'[p] => Alive(j)'
                      /\ readers'[p] \subseteq {Shell, p, p + 1} /\ writers'[p] \subseteq {Shell, p}
                      /\ Shell \in writers'[p] => Made(p)'
                      /\ Shell \in readers'[p] =>
                           \/ Made(p)'
                           \/ shell' \in {"pipe", "fork", "close"} /\ p = prev_pipe'
    BY DEF HeldInv
  <2>1. /\ \A j \in Stages : j \in readers[p] \/ j \in writers[p] => Alive(j)
        /\ readers[p] \subseteq {Shell, p, p + 1} /\ writers[p] \subseteq {Shell, p}
        /\ Shell \in writers[p] => Made(p)
        /\ Shell \in readers[p] => Made(p) \/ p = prev_pipe
    BY <1>1 DEF PipelineInv, HeldInv
  <2>2. /\ Shell \in readers'[p] => Shell \in readers[p]
        /\ Shell \in writers'[p] => Shell \in writers[p]
    BY <1>3, <1>6
  <2>3. \A j \in Stages : j \in readers'[p] \/ j \in writers'[p] => Alive(j)'
    BY <1>4, <1>6, <2>1 DEF Alive
  <2>4. Made(p) => p = stage /\ stage < Count
    BY DEF Made
  <2>5. readers'[p] \subseteq {Shell, p, p + 1} /\ writers'[p] \subseteq {Shell, p}
    BY <1>2, <1>3, <1>6, <2>1, <2>4
  <2>6. Count = 1 => Shell \notin readers[p] /\ Shell \notin writers[p]
    <3>1. p # 0 /\ (Count = 1 => prev_pipe = 0 /\ stage = 1)
      BY <1>2, <1>3 DEF Pipes
    <3> QED
      BY <2>1, <2>4, <3>1
  <2>7. Count # 1 => shell' = "close" /\ (Made(p) => Made(p)')
    BY <1>1 DEF Made, Count
  <2> QED
    BY <1>1, <2>1, <2>2, <2>3, <2>5, <2>6, <2>7
<1> QED
  BY <1>7, <1>8, <1>9 DEF PipelineInv

LEMMA ParentKeeps ==
    ASSUME PipelineInv, ParentCloses
    PROVE  PipelineInv'
<1>1. /\ UNCHANGED <<commands, waited, does>>
      /\ shell = "close" /\ shell' = IF stage < Count THEN "pipe" ELSE "wait"
      /\ prev_pipe' = IF stage < Count THEN stage ELSE prev_pipe
      /\ stage' = stage + 1
      /\ readers' = [k \in Pipes |-> IF k = prev_pipe THEN readers[k] \ {Shell} ELSE readers[k]]
      /\ writers' = [k \in Pipes |-> writers[k] \ {Shell}]
  BY DEF ParentCloses, CloseEnds
<1>2. /\ stage \in 1 .. Count /\ prev_pipe = stage - 1 /\ waited = 0 /\ Count > 1
      /\ Started = 1 .. stage /\ Started' = Started /\ Count' = Count
  BY <1>1 DEF PipelineInv, StartedInv, Started, Count
<1>3. /\ Count \in Nat /\ Count <= MaxStages /\ MaxStages \in Nat /\ Shell \notin Stages
  BY StageBounds DEF PipelineInv, PipelineTypes
<1>4. PipelineTypes'
  <2>1. /\ readers' \in [Pipes -> SUBSET Processes] /\ writers' \in [Pipes -> SUBSET Processes]
    BY <1>1 DEF PipelineInv, PipelineTypes
  <2>2. prev_pipe' \in Nat /\ stage' \in Nat
    BY <1>1, <1>2, <1>3
  <2> QED
    BY <1>1, <1>2, <2>1, <2>2 DEF PipelineInv, PipelineTypes
<1>5. StartedInv'
  <2>1. stage < Count => /\ stage' \in 1 .. Count' /\ prev_pipe' = stage' - 1
                         /\ Started' = 1 .. stage' - 1
    BY <1>1, <1>2, <1>3
  <2>2. ~(stage < Count) => stage = Count /\ waited' + Cardinality(Started') = Count'
    BY <1>1, <1>2, <1>3, FS_Interval
  <2>3. Started' \subseteq 1 .. Count'
    BY <1>2, <1>3
  <2> QED
    BY <1>1, <1>2, <2>1, <2>2, <2>3 DEF StartedInv
<1>6. HeldInv'
  <2> SUFFICES ASSUME NEW p \in Pipes
               PROVE  /\ \A j \in Stages : j \in readers'[p] \/ j \in writers'[p] => Alive(j)'
                      /\ readers'[p] \subseteq {Shell, p, p + 1} /\ writers'[p] \subseteq {Shell, p}
                      /\ Shell \notin writers'[p]
                      /\ Shell \in readers'[p] => shell' = "pipe" /\ p = prev_pipe'
    BY DEF HeldInv
  <2>1. /\ \A j \in Stages : j \in readers[p] \/ j \in writers[p] => Alive(j)
        /\ readers[p] \subseteq {Shell, p, p + 1} /\ writers[p] \subseteq {Shell, p}
        /\ Shell \in readers[p] => Made(p) \/ p = prev_pipe
    BY <1>1 DEF PipelineInv, HeldInv
  <2>2. /\ readers'[p] \subseteq readers[p] /\ writers'[p] \subseteq writers[p]
        /\ Shell \notin writers'[p] /\ Shell \in readers'[p] => p # prev_pipe
    BY <1>1
  <2>3. \A j \in Stages : Alive(j) => Alive(j)'
    BY <1>1 DEF Alive
  <2> QED
    BY <1>1, <2>1, <2>2, <2>3 DEF Made
<1> QED
  BY <1>4, <1>5, <1>6 DEF PipelineInv

LEMMA WaitKeeps ==
    ASSUME PipelineInv, NEW k \in Stages, WaitReturns(k)
    PROVE  PipelineInv'
<1>1. /\ UNCHANGED <<stage, prev_pipe, readers, writers>> /\ shell = "wait" /\ does[k] = "zombie"
      /\ does' = [does EXCEPT ![k] = "none"] /\ waited' = waited + 1
  BY DEF WaitReturns, pipeVars
<1>2. \/ waited' = Count /\ shell' = "prompt" /\ commands' = << >>
      \/ waited' # Count /\ UNCHANGED <<shell, commands>>
  BY DEF WaitReturns
<1>3. does'[k] = "none" /\ \A j \in Stages : j # k => does'[j] = does[j]
  BY <1>1 DEF PipelineInv, PipelineTypes
<1>4. Started' = Started \ {k} /\ k \in Started
  BY <1>1, <1>3 DEF Started
<1>5. /\ Count \in Nat /\ MaxStages \in Nat /\ Shell \notin Stages
      /\ IsFiniteSet(Started) /\ Cardinality(Started) \in Nat /\ waited \in Nat
      /\ waited + Cardinality(Started) = Count /\ Started \subseteq 1 .. Count
  BY <1>1, StageBounds DEF PipelineInv, PipelineTypes, StartedInv
<1>6. IsFiniteSet(Started') /\ Cardinality(Started') = Cardinality(Started) - 1
  BY <1>4, <1>5, FS_RemoveElement
<1>7. \A j \in Stages : Alive(j) => Alive(j)'
  BY <1>1, <1>3 DEF Alive
<1>8. does' \in [Stages -> DoesPlaces] /\ waited' \in Nat
  BY <1>1, <1>5 DEF PipelineInv, PipelineTypes, DoesPlaces
<1>9. \A p \in Pipes : Shell \notin readers[p] /\ Shell \notin writers[p]
  BY <1>1 DEF PipelineInv, HeldInv, Made
<1>10. HeldInv'
  BY <1>1, <1>7, <1>9 DEF PipelineInv, HeldInv
<1>11. CASE waited' = Count
  <2>1. shell' = "prompt" /\ commands' = << >>
    BY <1>2, <1>11
  <2>2. Started' = {}
    BY <1>1, <1>5, <1>6, <1>11, FS_EmptySet
  <2>3. commands' \in Seq(Commands) /\ Count' = 0 /\ Count' <= MaxStages
    BY <1>5, <2>1, EmptySeq DEF Count
  <2>4. PipelineTypes'
    BY <1>1, <1>8, <2>1, <2>3 DEF PipelineInv, PipelineTypes
  <2>5. StartedInv'
    BY <2>1, <2>2, <2>3 DEF StartedInv
  <2> QED
    BY <1>10, <2>4, <2>5 DEF PipelineInv
<1>12. CASE waited' # Count
  <2>1. UNCHANGED <<shell, commands>> /\ Count' = Count
    BY <1>2, <1>12 DEF Count
  <2>2. PipelineTypes'
    BY <1>1, <1>8, <2>1 DEF PipelineInv, PipelineTypes
  <2>3. StartedInv'
    BY <1>1, <1>4, <1>5, <1>6, <2>1 DEF StartedInv
  <2> QED
    BY <1>10, <2>2, <2>3 DEF PipelineInv
<1> QED
  BY <1>11, <1>12

\* After each line, however its pipe() and fork() calls went and in whatever order its
\* commands ended, the shell is left without a child, a zombie or an end of a pipe, and
\* while it waits only the neighbours of a pipe hold it (task3.c:49-95, 137-145).
THEOREM NothingLeftTheorem == PipelineSpec => []NothingLeftOver
<1>1. PipelineInit => PipelineInv
  <2> SUFFICES ASSUME PipelineInit PROVE PipelineInv
    OBVIOUS
  <2>1. /\ commands \in Seq(Commands) /\ Count = 0 /\ Count <= MaxStages
        /\ does \in [Stages -> DoesPlaces] /\ Started = {}
    BY EmptySeq, MaxStagesAssumption DEF PipelineInit, Count, DoesPlaces, Started
  <2>2. /\ readers \in [Pipes -> SUBSET Processes] /\ writers \in [Pipes -> SUBSET Processes]
        /\ \A p \in Pipes : readers[p] = {} /\ writers[p] = {}
    BY DEF PipelineInit
  <2>3. PipelineTypes
    BY <2>1, <2>2 DEF PipelineInit, PipelineTypes
  <2> QED
    BY <2>1, <2>2, <2>3 DEF PipelineInit, PipelineInv, StartedInv, HeldInv
<1>2. PipelineInv /\ [PipelineNext]_pipelineVars => PipelineInv'
  <2> SUFFICES ASSUME PipelineInv, [PipelineNext]_pipelineVars PROVE PipelineInv'
    OBVIOUS
  <2>1. CASE UNCHANGED pipelineVars
    BY <2>1 DEF pipelineVars, PipelineInv, PipelineTypes, StartedInv, HeldInv, Count, Started,
                Made, Alive
  <2>2. CASE PipelineNext
    BY <2>2, PromptKeeps, MakePipeKeeps, FailureKeeps, ForkKeeps, ParentKeeps, WaitKeeps,
       StageStepKeeps, EndOfInputKeeps DEF PipelineNext, ShellStep
  <2> QED
    BY <2>1, <2>2
<1>3. PipelineInv => NothingLeftOver
  <2> SUFFICES ASSUME PipelineInv PROVE NothingLeftOver
    OBVIOUS
  <2>1. ASSUME shell = "prompt", NEW p \in Pipes PROVE readers[p] = {} /\ writers[p] = {}
    <3>1. \A k \in Stages : ~ Alive(k)
      BY <2>1 DEF PipelineInv, StartedInv, Started, Alive
    <3>2. Shell \notin readers[p] /\ Shell \notin writers[p]
      BY <2>1 DEF PipelineInv, HeldInv, Made
    <3> QED
      BY <2>1, <3>1, <3>2 DEF PipelineInv, HeldInv, PipelineTypes, Processes
  <2>2. shell = "prompt" => \A k \in Stages : does[k] = "none"
    BY DEF PipelineInv, StartedInv, Started
  <2>3. ASSUME shell = "wait", NEW p \in Pipes
        PROVE  writers[p] \subseteq {p} /\ readers[p] \subseteq {p, p + 1}
    BY <2>3 DEF PipelineInv, HeldInv, Made
  <2> QED
    BY <2>1, <2>2, <2>3 DEF NothingLeftOver
<1> QED
  BY <1>1, <1>2, <1>3, PTL DEF PipelineSpec

-----------------------------------------------------------------------------
(* StreamServers: where a connection is.                                    *)

StreamTypes ==
    /\ kind \in ServerKinds
    /\ protocol \in [Users -> {"tcp", "udp"}]
    /\ user \in [Users -> {"unborn", "connected", "asked", "done", "killed"}]
    /\ backlog \in Seq(Users) /\ datagrams \in Seq(Users)
    /\ work \in [Workers -> {"none", "accept", "select", "stream", "datagram", "start", "read",
                             "write", "close", "failed", "over"}]
    /\ conn \in [Workers -> Users \cup {NoUser}]
    /\ thread_arg \in [Users -> Users \cup {NoUser}]
    /\ watched = {"tcp", "udp"} /\ ready \subseteq watched
    /\ answers \in [Users -> Nat]
    /\ closed \in SUBSET Users /\ up \in BOOLEAN

Holding(w) == work[w] \in {"read", "write", "close"}

\* Nobody has begun to serve c.
Unserved(c) ==
    /\ answers[c] = 0 /\ c \notin closed /\ work[c] = "none"
    /\ \A w \in Workers : Holding(w) => conn[w] # c

\* Connections and requests in the sockets are of different clients, and not served yet.
WaitingInv ==
    /\ \A c \in Users : user[c] = "unborn" => Unserved(c)
    /\ \A c \in Range(backlog) : Unserved(c) /\ user[c] # "unborn" /\ Tcp(c)
    /\ IsInjective(backlog)
    /\ \A c \in Range(datagrams) : Unserved(c) /\ user[c] # "unborn" /\ ~ Tcp(c)
    /\ IsInjective(datagrams)
    /\ "udp" \in ready => datagrams # << >>

\* w serves a connection that it has not answered, or not closed yet.
Serves(w) ==
    /\ conn[w] \in Users /\ Tcp(conn[w]) /\ user[conn[w]] # "unborn"
    /\ conn[w] \notin closed
    /\ answers[conn[w]] = (IF work[w] = "close" THEN 1 ELSE 0)

\* main serves the connections itself or starts a thread for each, which has its own.
ServingInv ==
    /\ work[Main] \in {"accept", "select", "stream", "datagram", "read", "write", "close"}
    /\ work[Main] \in {"select", "stream", "datagram"} => kind = "select"
    /\ Holding(Main) => kind # "threads"
    /\ \A w \in Users : work[w] # "none" => kind = "threads" /\ Tcp(w) /\ user[w] # "unborn"
    /\ \A w \in Users : Holding(w) => conn[w] = w
    /\ \A w \in Users : work[w] = "start" =>
         thread_arg[w] = w /\ answers[w] = 0 /\ w \notin closed
    /\ \A w \in Workers : Holding(w) => Serves(w)

AnsweredInv ==
    /\ \A c \in closed : answers[c] = 1
    /\ \A c \in Users : answers[c] <= 1
    /\ \A c \in Users : user[c] = "done" /\ answers[c] = 0 => ~ up

StreamInv == StreamTypes /\ WaitingInv /\ ServingInv /\ AnsweredInv

\* What a step of a client leaves of the invariant.
LEMMA UserStep ==
    ASSUME StreamInv, NEW c \in Users, Connect(c) \/ Ask(c) \/ ReadAnswer(c) \/ Kill(c)
    PROVE  StreamInv'
<1>1. UNCHANGED <<kind, protocol, work, conn, thread_arg, watched, ready, answers, closed, up>>
  BY DEF Connect, Ask, ReadAnswer, Kill, serverVars
<1>2. /\ user' \in [Users -> {"unborn", "connected", "asked", "done", "killed"}]
      /\ user'[c] # "unborn" /\ \A d \in Users : d # c => user'[d] = user[d]
  BY DEF StreamInv, StreamTypes, Connect, Ask, ReadAnswer, Kill
<1>3. \A d \in Users : Unserved(d)' <=> Unserved(d)
  BY <1>1 DEF Unserved, Holding
<1>4. \A w \in Workers : Holding(w)' <=> Holding(w)
  BY <1>1 DEF Holding
<1>5. \A d \in Users : user'[d] = "unborn" => user[d] = "unborn"
  BY <1>2
<1>6. /\ backlog \in Seq(Users) /\ datagrams \in Seq(Users)
      /\ IsInjective(backlog) /\ IsInjective(datagrams)
      /\ Range(backlog) \subseteq Users /\ Range(datagrams) \subseteq Users
      /\ user[c] = "unborn" => c \notin Range(backlog) /\ c \notin Range(datagrams)
  <2>1. ASSUME NEW q \in Seq(Users) PROVE Range(q) \subseteq Users
    BY ElementOfSeq, LenProperties DEF Range
  <2> QED
    BY <2>1 DEF StreamInv, StreamTypes, WaitingInv
<1>7. \/ backlog' = backlog
      \/ user[c] = "unborn" /\ Tcp(c) /\ backlog' = Append(backlog, c)
  BY DEF Connect, Ask, ReadAnswer, Kill
<1>8. \/ datagrams' = datagrams
      \/ user[c] = "unborn" /\ ~ Tcp(c) /\ datagrams' = Append(datagrams, c)
  BY DEF Connect, Ask, ReadAnswer, Kill
<1>9. /\ backlog' \in Seq(Users) /\ IsInjective(backlog')
      /\ \A d \in Range(backlog') :
           d \in Range(backlog) \/ (d = c /\ user[c] = "unborn" /\ Tcp(c))
  <2>1. CASE backlog' = backlog
    BY <1>6, <2>1
  <2>2. CASE user[c] = "unborn" /\ Tcp(c) /\ backlog' = Append(backlog, c)
    BY <1>6, <2>2, QueueAppend
  <2> QED
    BY <1>7, <2>1, <2>2
<1>10. /\ datagrams' \in Seq(Users) /\ IsInjective(datagrams')
       /\ \A d \in Range(datagrams') :
            d \in Range(datagrams) \/ (d = c /\ user[c] = "unborn" /\ ~ Tcp(c))
       /\ datagrams # << >> => datagrams' # << >>
  <2>1. CASE datagrams' = datagrams
    BY <1>6, <2>1
  <2>2. CASE user[c] = "unborn" /\ ~ Tcp(c) /\ datagrams' = Append(datagrams, c)
    BY <1>6, <2>2, QueueAppend
  <2> QED
    BY <1>8, <2>1, <2>2
<1>11. WaitingInv'
  <2>1. \A d \in Users : user'[d] = "unborn" => Unserved(d)'
    BY <1>3, <1>5 DEF StreamInv, WaitingInv
  <2>2. \A d \in Range(backlog') : Unserved(d)' /\ user'[d] # "unborn" /\ Tcp(d)'
    BY <1>1, <1>2, <1>3, <1>6, <1>9 DEF StreamInv, WaitingInv, Tcp
  <2>3. \A d \in Range(datagrams') : Unserved(d)' /\ user'[d] # "unborn" /\ ~ Tcp(d)'
    BY <1>1, <1>2, <1>3, <1>6, <1>10 DEF StreamInv, WaitingInv, Tcp
  <2>4. "udp" \in ready' => datagrams' # << >>
    BY <1>1, <1>10 DEF StreamInv, WaitingInv
  <2> QED
    BY <1>9, <1>10, <2>1, <2>2, <2>3, <2>4 DEF WaitingInv
<1>12. ServingInv'
  <2>1. \A w \in Workers : Holding(w) => conn[w] \in Users
    BY DEF StreamInv, ServingInv, Serves
  <2> QED
    BY <1>1, <1>4, <1>5, <2>1 DEF ServingInv, StreamInv, Serves, Tcp, Workers
<1>13. AnsweredInv'
  BY <1>1 DEF AnsweredInv, StreamInv, StreamTypes, Connect, Ask, ReadAnswer, Kill, Tcp
<1> QED
  BY <1>1, <1>2, <1>9, <1>10, <1>11, <1>12, <1>13 DEF StreamInv, StreamTypes

\* main takes a connection and serves it.
LEMMA AcceptStep ==
    ASSUME StreamInv, Accept
    PROVE  StreamInv'
<1>1. /\ UNCHANGED <<kind, protocol, user, datagrams, thread_arg, watched, answers, closed, up>>
      /\ ready' \subseteq ready /\ kind # "threads"
  BY DEF Accept, usersVars, StreamInv, ServingInv
<1>2. /\ Head(backlog) \in Users /\ Head(backlog) \in Range(backlog)
      /\ backlog' \in Seq(Users) /\ IsInjective(backlog')
      /\ Range(backlog') = Range(backlog) \ {Head(backlog)}
  BY QueueTail DEF Accept, StreamInv, StreamTypes, WaitingInv
<1>3. PICK c \in Users : c = Head(backlog) /\ Unserved(c) /\ user[c] # "unborn" /\ Tcp(c)
  BY <1>2 DEF StreamInv, WaitingInv
<1>4. conn' = [conn EXCEPT ![Main] = c] /\ work' = [work EXCEPT ![Main] = "read"]
  BY <1>3 DEF Accept
<1>5. StreamTypes'
  BY <1>1, <1>2, <1>3, <1>4 DEF StreamInv, StreamTypes, Workers
<1>6. /\ work'[Main] = "read" /\ conn'[Main] = c
      /\ \A w \in Users : work'[w] = work[w] /\ conn'[w] = conn[w]
  BY <1>4, MainAssumption DEF StreamInv, StreamTypes, Workers
<1>7. \A d \in Users : d # c /\ Unserved(d) => Unserved(d)'
  BY <1>1, <1>6 DEF Unserved, Holding, Workers
<1>8. WaitingInv'
  <2>1. \A d \in Users : user'[d] = "unborn" => Unserved(d)'
    BY <1>1, <1>3, <1>7 DEF StreamInv, WaitingInv
  <2>2. \A d \in Range(backlog') : Unserved(d)' /\ user'[d] # "unborn" /\ Tcp(d)'
    <3>1. \A d \in Range(backlog) : d \in Users
      BY ElementOfSeq, LenProperties DEF Range, StreamInv, StreamTypes
    <3> QED
      BY <1>1, <1>2, <1>3, <1>7, <3>1 DEF StreamInv, WaitingInv, Tcp
  <2>3. \A d \in Range(datagrams') : Unserved(d)' /\ user'[d] # "unborn" /\ ~ Tcp(d)'
    <3>1. \A d \in Range(datagrams) : d \in Users
      BY ElementOfSeq, LenProperties DEF Range, StreamInv, StreamTypes
    <3> QED
      BY <1>1, <1>3, <1>7, <3>1 DEF StreamInv, WaitingInv, Tcp
  <2> QED
    BY <1>1, <1>2, <2>1, <2>2, <2>3 DEF WaitingInv, StreamInv
<1>9. ServingInv'
  BY <1>1, <1>3, <1>6 DEF StreamInv, ServingInv, Serves, Holding, Workers, Tcp, Unserved
<1>10. AnsweredInv'
  BY <1>1 DEF AnsweredInv, StreamInv
<1> QED
  BY <1>5, <1>8, <1>9, <1>10 DEF StreamInv

\* Who waits in a socket is not served, and is left waiting when nobody begins to
\* serve it.
LEMMA WaitingKept ==
    ASSUME StreamInv, UNCHANGED <<protocol, user>>,
           backlog' \in Seq(Users), IsInjective(backlog'), Range(backlog') \subseteq Range(backlog),
           datagrams' \in Seq(Users), IsInjective(datagrams'),
           Range(datagrams') \subseteq Range(datagrams),
           "udp" \in ready' => datagrams' # << >>,
           \A d \in Users : Unserved(d) => \/ Unserved(d)'
                                        \/ /\ user[d] # "unborn" /\ d \notin Range(backlog')
                                           /\ d \notin Range(datagrams')
    PROVE  WaitingInv'
<1>1. \A d \in Range(backlog) : d \in Users
  BY ElementOfSeq, LenProperties DEF Range, StreamInv, StreamTypes
<1>2. \A d \in Range(datagrams) : d \in Users
  BY ElementOfSeq, LenProperties DEF Range, StreamInv, StreamTypes
<1>3. \A d \in Users : user'[d] = "unborn" => Unserved(d)'
  BY DEF StreamInv, WaitingInv
<1>4. \A d \in Range(backlog') : Unserved(d)' /\ user'[d] # "unborn" /\ Tcp(d)'
  BY <1>1 DEF StreamInv, WaitingInv, Tcp
<1>5. \A d \in Range(datagrams') : Unserved(d)' /\ user'[d] # "unborn" /\ ~ Tcp(d)'
  BY <1>2 DEF StreamInv, WaitingInv, Tcp
<1> QED
  BY <1>3, <1>4, <1>5 DEF WaitingInv

\* main takes a connection and makes a thread for it, or fails to.
LEMMA AcceptForThreadStep ==
    ASSUME StreamInv, AcceptForThread
    PROVE  StreamInv'
<1>1. /\ UNCHANGED <<kind, protocol, user, datagrams, watched, ready, answers, closed, up>>
      /\ kind = "threads"
  BY DEF AcceptForThread, usersVars
<1>2. /\ Head(backlog) \in Users /\ Head(backlog) \in Range(backlog)
      /\ backlog' \in Seq(Users) /\ IsInjective(backlog')
      /\ Range(backlog') = Range(backlog) \ {Head(backlog)}
  BY QueueTail DEF AcceptForThread, StreamInv, StreamTypes, WaitingInv
<1>3. PICK c \in Users : /\ c = Head(backlog) /\ Unserved(c) /\ user[c] # "unborn" /\ Tcp(c)
                         /\ c \notin Range(datagrams)
  BY <1>2 DEF StreamInv, WaitingInv
<1>4. PICK s \in {"start", "failed"} : work' = [work EXCEPT ![c] = s]
  BY <1>3 DEF AcceptForThread
<1>5. conn' = [conn EXCEPT ![Main] = c] /\ thread_arg' = [thread_arg EXCEPT ![c] = c]
  BY <1>3 DEF AcceptForThread
<1>6. StreamTypes'
  BY <1>1, <1>2, <1>3, <1>4, <1>5 DEF StreamInv, StreamTypes, Workers
<1>7. /\ work'[Main] = work[Main] /\ work'[c] = s /\ thread_arg'[c] = c
      /\ \A w \in Users : w # c => work'[w] = work[w] /\ thread_arg'[w] = thread_arg[w]
      /\ \A w \in Users : conn'[w] = conn[w]
  BY <1>3, <1>4, <1>5, MainAssumption DEF StreamInv, StreamTypes, Workers
<1>8. ~ Holding(Main) /\ ~ Holding(Main)' /\ ~ Holding(c)'
  BY <1>1, <1>4, <1>7 DEF StreamInv, ServingInv, Holding
<1>9. \A w \in Workers : Holding(w)' => w \in Users /\ w # c /\ Holding(w)
  BY <1>7, <1>8 DEF Holding, Workers
<1>10. \A d \in Users : d # c /\ Unserved(d) => Unserved(d)'
  BY <1>1, <1>7, <1>9 DEF Unserved
<1>11. WaitingInv'
  <2>1. \A d \in Users : Unserved(d) => \/ Unserved(d)'
                                       \/ /\ user[d] # "unborn" /\ d \notin Range(backlog')
                                          /\ d \notin Range(datagrams')
    BY <1>1, <1>2, <1>3, <1>10
  <2> QED
    BY <1>1, <1>2, <2>1, WaitingKept DEF StreamInv, StreamTypes, WaitingInv
<1>12. ServingInv'
  <2>1. \A w \in Users : work'[w] # "none" => Tcp(w)' /\ user'[w] # "unborn"
    BY <1>1, <1>3, <1>7 DEF StreamInv, ServingInv, Serves, Tcp
  <2>2. \A w \in Users : work'[w] = "start" =>
          thread_arg'[w] = w /\ answers'[w] = 0 /\ w \notin closed'
    BY <1>1, <1>3, <1>7 DEF StreamInv, ServingInv, Unserved
  <2>3. \A w \in Workers : Holding(w)' =>
          /\ conn'[w] = conn[w] /\ work'[w] = work[w] /\ Holding(w) /\ w \in Users
    BY <1>7, <1>9
  <2>4. \A w \in Workers : Holding(w)' => Serves(w)'
    BY <1>1, <2>3 DEF StreamInv, ServingInv, Serves, Tcp
  <2>5. \A w \in Users : Holding(w)' => conn'[w] = w
    BY <2>3 DEF StreamInv, ServingInv, Workers
  <2>6. work'[Main] = "accept" \/ work'[Main] \notin {"select", "stream", "datagram"}
    BY <1>1, <1>7 DEF StreamInv, ServingInv
  <2> QED
    BY <1>1, <1>7, <1>8, <2>1, <2>2, <2>4, <2>5, <2>6 DEF StreamInv, ServingInv
<1>13. AnsweredInv'
  BY <1>1 DEF AnsweredInv, StreamInv
<1> QED
  BY <1>6, <1>11, <1>12, <1>13 DEF StreamInv

\* The loop around select() looks at its sockets.
LEMMA SelectStep ==
    ASSUME StreamInv, Select \/ SkipStream
    PROVE  StreamInv'
<1>1. /\ UNCHANGED <<kind, protocol, user, backlog, datagrams, conn, thread_arg, watched,
                     answers, closed, up>>
      /\ ready' \subseteq {"tcp", "udp"} /\ ("udp" \in ready' => datagrams # << >>)
      /\ work[Main] \in {"select", "stream"}
  BY DEF Select, SkipStream, usersVars, serverVars, StreamInv, StreamTypes, WaitingInv, Reported
<1>2. PICK s \in {"stream", "datagram"} : work' = [work EXCEPT ![Main] = s]
  BY DEF Select, SkipStream
<1>3. StreamTypes'
  BY <1>1, <1>2 DEF StreamInv, StreamTypes, Workers
<1>4. work'[Main] = s /\ \A w \in Users : work'[w] = work[w]
  BY <1>2, MainAssumption DEF StreamInv, StreamTypes, Workers
<1>5. \A w \in Workers : (Holding(w)' <=> Holding(w)) /\ (Holding(w) => work'[w] = work[w])
  BY <1>1, <1>4 DEF Holding, Workers
<1>6. \A d \in Users : Unserved(d)' <=> Unserved(d)
  BY <1>1, <1>4, <1>5 DEF Unserved
<1>7. WaitingInv'
  BY <1>1, <1>6, WaitingKept DEF StreamInv, StreamTypes, WaitingInv
<1>8. ServingInv'
  <2>1. ~ Holding(Main)' /\ kind = "select"
    BY <1>1, <1>4 DEF StreamInv, ServingInv, Holding
  <2> QED
    BY <1>1, <1>4, <1>5, <2>1 DEF StreamInv, ServingInv, Serves, Tcp, Workers
<1>9. AnsweredInv'
  BY <1>1 DEF AnsweredInv, StreamInv
<1> QED
  BY <1>3, <1>7, <1>8, <1>9 DEF StreamInv

\* The loop answers a datagram, if it was told of one.
LEMMA DatagramStep ==
    ASSUME StreamInv, AnswerDatagram
    PROVE  StreamInv'
<1>1. /\ UNCHANGED <<kind, protocol, user, backlog, conn, thread_arg, watched, closed, up>>
      /\ ready' = {} /\ work[Main] = "datagram" /\ kind = "select"
      /\ work' = [work EXCEPT ![Main] = "select"]
  BY DEF AnswerDatagram, usersVars, StreamInv, ServingInv
<1>2. work'[Main] = "select" /\ \A w \in Users : work'[w] = work[w]
  BY <1>1, MainAssumption DEF StreamInv, StreamTypes, Workers
<1>3. \A w \in Workers : (Holding(w)' <=> Holding(w)) /\ (Holding(w) => work'[w] = work[w])
  BY <1>1, <1>2 DEF Holding, Workers
<1>4. CASE UNCHANGED <<answers, datagrams>>
  <2>1. StreamTypes'
    BY <1>1, <1>4 DEF StreamInv, StreamTypes, Workers
  <2>2. \A d \in Users : Unserved(d)' <=> Unserved(d)
    BY <1>1, <1>2, <1>3, <1>4 DEF Unserved
  <2>3. WaitingInv'
    BY <1>1, <1>4, <2>2, WaitingKept DEF StreamInv, StreamTypes, WaitingInv
  <2>4. ServingInv'
    <3>1. ~ Holding(Main)'
      BY <1>2 DEF Holding
    <3> QED
      BY <1>1, <1>2, <1>3, <1>4, <3>1 DEF StreamInv, ServingInv, Serves, Tcp, Workers
  <2>5. AnsweredInv'
    BY <1>1, <1>4 DEF AnsweredInv, StreamInv
  <2> QED
    BY <2>1, <2>3, <2>4, <2>5 DEF StreamInv
<1>5. CASE "udp" \in ready
  <2>1. /\ Head(datagrams) \in Users /\ Head(datagrams) \in Range(datagrams)
        /\ datagrams' \in Seq(Users) /\ IsInjective(datagrams')
        /\ Range(datagrams') = Range(datagrams) \ {Head(datagrams)}
    <3>1. datagrams # << >> /\ datagrams' = Tail(datagrams)
      BY <1>5 DEF AnswerDatagram, StreamInv, WaitingInv
    <3>2. datagrams \in Seq(Users) /\ IsInjective(datagrams)
      BY DEF StreamInv, StreamTypes, WaitingInv
    <3> QED
      BY <3>1, <3>2, QueueTail
  <2>2. PICK c \in Users : /\ c = Head(datagrams) /\ Unserved(c) /\ user[c] # "unborn"
                           /\ ~ Tcp(c) /\ c \notin Range(backlog)
    BY <2>1 DEF StreamInv, WaitingInv
  <2>3. answers' = [answers EXCEPT ![c] = @ + 1]
    BY <1>5, <2>2 DEF AnswerDatagram
  <2>4. answers[c] = 0 /\ answers'[c] = 1 /\ \A d \in Users : d # c => answers'[d] = answers[d]
    BY <2>2, <2>3 DEF Unserved, StreamInv, StreamTypes
  <2>5. StreamTypes'
    BY <1>1, <2>1, <2>2, <2>3 DEF StreamInv, StreamTypes, Workers
  <2>6. \A d \in Users : d # c /\ Unserved(d) => Unserved(d)'
    BY <1>1, <1>2, <1>3, <2>4 DEF Unserved
  <2>7. WaitingInv'
    <3>1. \A d \in Users : Unserved(d) => \/ Unserved(d)'
                                         \/ /\ user[d] # "unborn" /\ d \notin Range(backlog')
                                            /\ d \notin Range(datagrams')
      BY <1>1, <2>1, <2>2, <2>6
    <3> QED
      BY <1>1, <2>1, <3>1, WaitingKept DEF StreamInv, StreamTypes, WaitingInv
  <2>8. ServingInv'
    <3>1. ~ Holding(Main)' /\ work[c] = "none"
      BY <1>2, <2>2 DEF Holding, Unserved
    <3>2. \A w \in Workers : Holding(w)' =>
            conn[w] # c /\ Holding(w) /\ answers'[conn[w]] = answers[conn[w]]
      BY <1>3, <2>2, <2>4 DEF Unserved, StreamInv, ServingInv, Serves
    <3> QED
      BY <1>1, <1>2, <1>3, <2>4, <3>1, <3>2 DEF StreamInv, ServingInv, Serves, Tcp, Workers
  <2>9. AnsweredInv'
    <3>1. \A d \in closed : d \in Users /\ d # c
      BY <2>2 DEF StreamInv, StreamTypes, Unserved
    <3> QED
      BY <1>1, <2>4, <3>1 DEF AnsweredInv, StreamInv
  <2> QED
    BY <2>5, <2>7, <2>8, <2>9 DEF StreamInv
<1> QED
  BY <1>4, <1>5 DEF AnswerDatagram

\* A thread takes its connection out of its own cell.
LEMMA StartStep ==
    ASSUME StreamInv, NEW w \in Workers, StartThread(w)
    PROVE  StreamInv'
<1>1. UNCHANGED <<kind, protocol, user, backlog, datagrams, thread_arg, watched, ready, answers,
                  closed, up>>
  BY DEF StartThread, usersVars, serverVars
<1>2. /\ w \in Users /\ work[w] = "start" /\ thread_arg[w] = w /\ answers[w] = 0 /\ w \notin closed
      /\ kind = "threads" /\ Tcp(w) /\ user[w] # "unborn"
  BY DEF StartThread, StreamInv, ServingInv, Workers
<1>3. work' = [work EXCEPT ![w] = "read"] /\ conn' = [conn EXCEPT ![w] = w]
  BY <1>2 DEF StartThread
<1>4. StreamTypes'
  BY <1>1, <1>2, <1>3 DEF StreamInv, StreamTypes, Workers
<1>5. /\ work'[w] = "read" /\ conn'[w] = w
      /\ \A v \in Workers : v # w => work'[v] = work[v] /\ conn'[v] = conn[v]
  BY <1>3 DEF StreamInv, StreamTypes
<1>6. \A v \in Workers : v # w => (Holding(v)' <=> Holding(v))
  BY <1>5 DEF Holding
<1>7. \A d \in Users : Unserved(d) => Unserved(d)'
  <2> SUFFICES ASSUME NEW d \in Users, Unserved(d) PROVE Unserved(d)'
    OBVIOUS
  <2>1. d # w /\ work[d] = "none" /\ work'[d] = "none"
    BY <1>2, <1>5 DEF Unserved, Workers
  <2>2. \A v \in Workers : Holding(v)' => conn'[v] # d
    BY <1>5, <1>6, <2>1 DEF Unserved
  <2> QED
    BY <1>1, <2>1, <2>2 DEF Unserved
<1>8. WaitingInv'
  BY <1>1, <1>7, WaitingKept DEF StreamInv, StreamTypes, WaitingInv
<1>9. ServingInv'
  <2>1. w # Main /\ Main \in Workers
    BY <1>2, MainAssumption DEF Workers
  <2>2. \A v \in Workers : Holding(v)' => Serves(v)'
    BY <1>1, <1>2, <1>5, <1>6 DEF StreamInv, ServingInv, Serves, Tcp
  <2>3. \A v \in Users : Holding(v)' => conn'[v] = v
    BY <1>5, <1>6 DEF StreamInv, ServingInv, Workers
  <2>4. \A v \in Users : work'[v] # "none" =>
          kind' = "threads" /\ Tcp(v)' /\ user'[v] # "unborn"
    BY <1>1, <1>2, <1>5 DEF StreamInv, ServingInv, Workers, Tcp
  <2>5. \A v \in Users : work'[v] = "start" =>
         thread_arg'[v] = v /\ answers'[v] = 0 /\ v \notin closed'
    BY <1>1, <1>5 DEF StreamInv, ServingInv, Workers
  <2>6. work'[Main] = work[Main] /\ (Holding(Main)' <=> Holding(Main))
    BY <1>5, <1>6, <2>1
  <2> QED
    BY <1>1, <2>2, <2>3, <2>4, <2>5, <2>6 DEF StreamInv, ServingInv
<1>10. AnsweredInv'
  BY <1>1 DEF AnsweredInv, StreamInv
<1> QED
  BY <1>4, <1>8, <1>9, <1>10 DEF StreamInv

\* Two workers never serve the same connection.
LEMMA OneServes ==
    ASSUME StreamInv
    PROVE  \A v, w \in Workers : Holding(v) /\ Holding(w) /\ conn[v] = conn[w] => v = w
<1> SUFFICES ASSUME NEW v \in Workers, NEW w \in Workers, Holding(v), Holding(w),
                    conn[v] = conn[w]
             PROVE  v = w
  OBVIOUS
<1>1. CASE v \in Users /\ w \in Users
  BY <1>1 DEF StreamInv, ServingInv
<1>2. CASE v = Main /\ w = Main
  BY <1>2
<1>3. ASSUME NEW u \in Users, Holding(u), Holding(Main) PROVE FALSE
  BY <1>3 DEF StreamInv, ServingInv, Holding
<1> QED
  BY <1>1, <1>2, <1>3 DEF Workers

\* A worker reads the request, answers it, or closes the connection.
LEMMA ServeStep ==
    ASSUME StreamInv, NEW w \in Workers, ReadRequest(w) \/ WriteAnswer(w) \/ CloseConnection(w)
    PROVE  StreamInv'
<1>1. /\ UNCHANGED <<kind, protocol, user, backlog, datagrams, conn, thread_arg, watched, ready>>
      /\ up /\ Holding(w)
  BY DEF ReadRequest, WriteAnswer, CloseConnection, usersVars, serverVars, Holding
<1>2. PICK c \in Users : /\ c = conn[w] /\ Tcp(c) /\ user[c] # "unborn" /\ c \notin closed
                         /\ answers[c] = (IF work[w] = "close" THEN 1 ELSE 0)
  BY <1>1 DEF StreamInv, ServingInv, Serves
<1>3. \A v \in Workers : v # w /\ Holding(v) => conn[v] # c
  BY <1>1, <1>2, OneServes
<1>4. \A d \in Users : Unserved(d) => d # c
  BY <1>1, <1>2 DEF Unserved
<1>5. w = Main \/ (w = c /\ w # Main)
  BY <1>1, <1>2, MainAssumption DEF StreamInv, ServingInv, Workers
<1>6. Main \in Workers /\ Workers = {Main} \cup Users
  BY DEF Workers
<1>7. CASE ReadRequest(w) \/ (WriteAnswer(w) /\ up')
  <2>1. /\ work[w] = "read" /\ work' = [work EXCEPT ![w] = "write"] /\ answers' = answers
        \/ /\ work[w] = "write" /\ work' = [work EXCEPT ![w] = "close"]
           /\ answers' = [answers EXCEPT ![c] = @ + 1]
    BY <1>2, <1>7 DEF ReadRequest, WriteAnswer, serverVars
  <2>2. closed' = closed /\ up' = up
    BY <1>1, <1>7 DEF ReadRequest, WriteAnswer, serverVars
  <2>3. /\ Holding(w)' /\ work[w] # "close"
        /\ \A v \in Workers : v # w => work'[v] = work[v]
        /\ answers'[c] = (IF work'[w] = "close" THEN 1 ELSE 0)
        /\ \A d \in Users : d # c => answers'[d] = answers[d]
    BY <1>2, <2>1 DEF StreamInv, StreamTypes, Holding
  <2>4. StreamTypes'
    <3>1. answers' \in [Users -> Nat]
      <4>1. answers \in [Users -> Nat] /\ answers[c] + 1 \in Nat
        BY DEF StreamInv, StreamTypes
      <4> QED
        BY <2>1, <4>1
    <3>2. work' \in [Workers -> {"none", "accept", "select", "stream", "datagram", "start",
                                 "read", "write", "close", "failed", "over"}]
      BY <2>1 DEF StreamInv, StreamTypes
    <3> QED
      BY <1>1, <2>2, <3>1, <3>2 DEF StreamInv, StreamTypes
  <2>5. \A v \in Workers : Holding(v)' <=> Holding(v)
    BY <1>1, <2>3 DEF Holding
  <2>6. \A d \in Users : Unserved(d) => Unserved(d)'
    BY <1>1, <1>4, <1>6, <2>2, <2>3, <2>5 DEF Unserved, Holding
  <2>7. WaitingInv'
    BY <1>1, <2>6, WaitingKept DEF StreamInv, StreamTypes, WaitingInv
  <2>8. ServingInv'
    <3>1. \A v \in Workers : Holding(v)' => Serves(v)'
      BY <1>1, <1>2, <1>3, <2>2, <2>3, <2>5 DEF StreamInv, ServingInv, Serves, Tcp
    <3>2. \A v \in Users : work'[v] = "start" =>
           thread_arg'[v] = v /\ answers'[v] = 0 /\ v \notin closed'
      <4> SUFFICES ASSUME NEW v \in Users, work'[v] = "start"
                   PROVE  thread_arg'[v] = v /\ answers'[v] = 0 /\ v \notin closed'
        OBVIOUS
      <4>1. v # w /\ work[v] = "start"
        BY <1>6, <2>3 DEF Holding
      <4>2. v # c
        BY <1>1, <1>2, <1>5, <4>1 DEF StreamInv, ServingInv, Holding
      <4> QED
        BY <1>1, <2>2, <2>3, <4>1, <4>2 DEF StreamInv, ServingInv
    <3>3. \A v \in Users : work'[v] # "none" =>
            kind' = "threads" /\ Tcp(v)' /\ user'[v] # "unborn"
      BY <1>1, <1>6, <2>3 DEF StreamInv, ServingInv, Serves, Tcp, Holding
    <3>4. /\ work'[Main] \in {"accept", "select", "stream", "datagram", "read", "write", "close"}
          /\ work'[Main] \in {"select", "stream", "datagram"} => work[Main] = work'[Main]
      BY <1>6, <2>3 DEF StreamInv, ServingInv, Holding
    <3> QED
      BY <1>1, <1>6, <2>5, <3>1, <3>2, <3>3, <3>4 DEF StreamInv, ServingInv
  <2>9. AnsweredInv'
    <3>1. \A d \in closed : d \in Users /\ d # c
      BY <1>2 DEF StreamInv, StreamTypes
    <3>2. answers'[c] <= 1
      BY <2>3
    <3>3. user[c] = "done" /\ answers'[c] = 0 => answers[c] = 0
      BY <1>2, <2>3
    <3> QED
      BY <1>1, <2>2, <2>3, <3>1, <3>2, <3>3 DEF AnsweredInv, StreamInv
  <2> QED
    BY <2>4, <2>7, <2>8, <2>9 DEF StreamInv
<1>8. CASE WriteAnswer(w) /\ ~ up'
  <2>1. UNCHANGED <<answers, work, closed>> /\ up' = FALSE
    BY <1>1, <1>8 DEF WriteAnswer
  <2>2. StreamTypes'
    BY <1>1, <2>1 DEF StreamInv, StreamTypes
  <2>3. \A d \in Users : Unserved(d) => Unserved(d)'
    BY <1>1, <2>1 DEF Unserved, Holding
  <2>4. WaitingInv'
    BY <1>1, <2>3, WaitingKept DEF StreamInv, StreamTypes, WaitingInv
  <2>5. ServingInv'
    BY <1>1, <2>1 DEF StreamInv, ServingInv, Serves, Tcp, Holding
  <2>6. AnsweredInv'
    BY <1>1, <2>1 DEF AnsweredInv, StreamInv
  <2> QED
    BY <2>2, <2>4, <2>5, <2>6 DEF StreamInv
<1>9. CASE CloseConnection(w)
  <2>1. /\ work[w] = "close" /\ answers' = answers /\ up' = up /\ closed' = closed \cup {c}
        /\ work' = [work EXCEPT ![w] = IF w = Main THEN AfterServing ELSE "over"]
    BY <1>2, <1>9 DEF CloseConnection
  <2>2. /\ ~ Holding(w)' /\ work'[w] \in {"accept", "datagram", "over"}
        /\ w = Main => work'[w] = AfterServing
        /\ w # Main => work'[w] = "over"
        /\ \A v \in Workers : v # w => work'[v] = work[v]
    BY <2>1 DEF StreamInv, StreamTypes, Holding, AfterServing
  <2>3. StreamTypes'
    BY <1>1, <1>2, <2>1 DEF StreamInv, StreamTypes, AfterServing
  <2>4. \A v \in Workers : Holding(v)' <=> Holding(v) /\ v # w
    BY <2>2 DEF Holding
  <2>5. \A d \in Users : Unserved(d) => Unserved(d)'
    BY <1>1, <1>4, <1>5, <1>6, <2>1, <2>2, <2>4 DEF Unserved
  <2>6. WaitingInv'
    BY <1>1, <2>5, WaitingKept DEF StreamInv, StreamTypes, WaitingInv
  <2>7. ServingInv'
    <3>1. \A v \in Workers : Holding(v)' => Serves(v)'
      BY <1>1, <1>3, <2>1, <2>2, <2>4 DEF StreamInv, ServingInv, Serves, Tcp
    <3>2. \A v \in Users : work'[v] = "start" =>
           thread_arg'[v] = v /\ answers'[v] = 0 /\ v \notin closed'
      <4> SUFFICES ASSUME NEW v \in Users, work'[v] = "start"
                   PROVE  thread_arg'[v] = v /\ answers'[v] = 0 /\ v \notin closed'
        OBVIOUS
      <4>1. v # w /\ work[v] = "start"
        BY <1>6, <2>2
      <4>2. v # c
        BY <1>1, <1>2, <1>5, <4>1 DEF StreamInv, ServingInv, Holding
      <4> QED
        BY <1>1, <2>1, <4>1, <4>2 DEF StreamInv, ServingInv
    <3>3. \A v \in Users : work'[v] # "none" =>
            kind' = "threads" /\ Tcp(v)' /\ user'[v] # "unborn"
      BY <1>1, <1>6, <2>1, <2>2 DEF StreamInv, ServingInv, Serves, Tcp
    <3>4. /\ work'[Main] \in {"accept", "select", "stream", "datagram", "read", "write", "close"}
          /\ work'[Main] \in {"select", "stream", "datagram"} =>
               work[Main] = work'[Main] \/ kind = "select"
      BY <1>6, <2>2 DEF StreamInv, ServingInv, AfterServing
    <3> QED
      BY <1>1, <1>6, <2>4, <3>1, <3>2, <3>3, <3>4 DEF StreamInv, ServingInv
  <2>8. AnsweredInv'
    BY <1>1, <1>2, <2>1 DEF AnsweredInv, StreamInv
  <2> QED
    BY <2>3, <2>6, <2>7, <2>8 DEF StreamInv
<1> QED
  BY <1>7, <1>8, <1>9

LEMMA StreamFirst == StreamInit => StreamInv
<1> SUFFICES ASSUME StreamInit PROVE StreamInv
  OBVIOUS
<1>1. StreamTypes
  BY DEF StreamInit, StreamTypes, ServerKinds, Workers
<1>2. /\ \A w \in Workers : ~ Holding(w)
      /\ \A c \in Users : Unserved(c) /\ work[c] = "none" /\ user[c] = "unborn"
      /\ work[Main] = (IF kind = "select" THEN "select" ELSE "accept")
  BY MainAssumption DEF StreamInit, Holding, Unserved, Workers
<1>3. WaitingInv
  BY <1>2, QueueEmpty DEF StreamInit, WaitingInv
<1>4. ServingInv
  BY <1>2 DEF StreamInit, ServingInv, Workers
<1>5. AnsweredInv
  BY <1>2 DEF StreamInit, AnsweredInv
<1> QED
  BY <1>1, <1>3, <1>4, <1>5 DEF StreamInv

LEMMA StreamStep == StreamInv /\ [StreamNext]_streamVars => StreamInv'
<1> SUFFICES ASSUME StreamInv, [StreamNext]_streamVars PROVE StreamInv'
  OBVIOUS
<1>1. CASE UNCHANGED streamVars
  BY <1>1 DEF streamVars, StreamInv, StreamTypes, WaitingInv, ServingInv, AnsweredInv,
              Unserved, Serves, Holding, Tcp
<1>2. CASE StreamNext
  BY <1>2, UserStep, AcceptStep, AcceptForThreadStep, SelectStep, DatagramStep, StartStep,
     ServeStep DEF StreamNext, ServerStep
<1> QED
  BY <1>1, <1>2

\* The four stream servers answer every request at most once, and a client that reads
\* to the end has its answer, unless the local server was killed by SIGPIPE: the threads
\* of time_server_thread_per_client.c each have their own client_fd, so none answers
\* another's client, however fast main accepts.
THEOREM EachAnsweredTheorem == StreamSpec => []EachAnsweredOnce
<1>1. StreamInv => EachAnsweredOnce
  BY DEF StreamInv, AnsweredInv, EachAnsweredOnce
<1> QED
  BY <1>1, StreamFirst, StreamStep, PTL DEF StreamSpec

-----------------------------------------------------------------------------
(* StreamServers: nobody is forgotten.  A client that may still want its       *)
(* answer has a place: in a socket, with a worker that has its connection, or  *)
(* with a thread that begins or was never made.                                *)

Wanting(c) == user[c] \in {"connected", "asked"} /\ answers[c] = 0 /\ up

Placed(c) ==
    /\ Tcp(c) => \/ c \in Range(backlog)
                 \/ \E w \in Workers : Holding(w) /\ conn[w] = c
                 \/ work[c] \in {"start", "failed"}
    /\ ~ Tcp(c) => c \in Range(datagrams)

PlacesInv ==
    /\ \A c \in Users : Wanting(c) => Placed(c)
    /\ kind \in ServerKinds
    /\ kind # "select" => \A c \in Users : Tcp(c)
    /\ kind = "select" => work[Main] # "accept"
    /\ work[Main] = "stream" /\ "tcp" \in ready => backlog # << >>

\* Where a connection is when it is not with the worker that moves.
LEMMA PlacedElsewhere ==
    ASSUME NEW c \in Users, NEW w \in Workers, Placed(c), UNCHANGED protocol,
           Range(backlog) \ Range(backlog') \subseteq Users \ {c},
           Range(datagrams) \ Range(datagrams') \subseteq Users \ {c},
           w # c \/ work[c] \notin {"start", "failed"}, ~ (Holding(w) /\ conn[w] = c),
           \A v \in Workers : v # w => work'[v] = work[v] /\ (Holding(v) => conn'[v] = conn[v])
    PROVE  Placed(c)'
<1>1. ASSUME ~ Tcp(c) PROVE c \in Range(datagrams')
  BY <1>1 DEF Placed
<1>2. CASE c \in Range(backlog)
  BY <1>1, <1>2 DEF Placed, Tcp
<1>3. ASSUME NEW v \in Workers, Holding(v), conn[v] = c PROVE Placed(c)'
  <2>1. v # w /\ Holding(v)' /\ conn'[v] = c
    BY <1>3 DEF Holding
  <2> QED
    BY <1>1, <2>1 DEF Placed, Tcp
<1>4. ASSUME work[c] \in {"start", "failed"} PROVE Placed(c)'
  <2>1. c \in Workers /\ work'[c] = work[c]
    BY <1>4 DEF Workers
  <2> QED
    BY <1>1, <1>4, <2>1 DEF Placed, Tcp
<1>5. CASE ~ Tcp(c)
  BY <1>1, <1>5 DEF Placed, Tcp
<1> QED
  BY <1>2, <1>3, <1>4, <1>5 DEF Placed

LEMMA UserPlaces ==
    ASSUME StreamInv, PlacesInv, NEW c \in Users,
           Connect(c) \/ Ask(c) \/ ReadAnswer(c) \/ Kill(c)
    PROVE  PlacesInv'
<1>1. UNCHANGED <<kind, protocol, work, conn, ready, answers, up>>
  BY DEF Connect, Ask, ReadAnswer, Kill, serverVars
<1>2. \A d \in Users : d # c => user'[d] = user[d]
  BY DEF StreamInv, StreamTypes, Connect, Ask, ReadAnswer, Kill
<1>3. backlog \in Seq(Users) /\ datagrams \in Seq(Users)
  BY DEF StreamInv, StreamTypes
<1>4. /\ \A d \in Range(backlog) : d \in Range(backlog')
      /\ backlog # << >> => backlog' # << >>
      /\ user[c] = "unborn" /\ Tcp(c) /\ up => c \in Range(backlog')
  <2>1. \/ backlog' = backlog /\ (user[c] # "unborn" \/ ~ Tcp(c) \/ ~ up)
        \/ backlog' = Append(backlog, c)
    BY DEF Connect, Ask, ReadAnswer, Kill
  <2> QED
    BY <1>3, <2>1, AppendRange
<1>5. /\ \A d \in Range(datagrams) : d \in Range(datagrams')
      /\ user[c] = "unborn" /\ ~ Tcp(c) => c \in Range(datagrams')
  <2>1. \/ datagrams' = datagrams /\ (user[c] # "unborn" \/ Tcp(c))
        \/ datagrams' = Append(datagrams, c)
    BY DEF Connect, Ask, ReadAnswer, Kill
  <2> QED
    BY <1>3, <2>1, AppendRange
<1>6. \A d \in Users : Placed(d) => Placed(d)'
  BY <1>1, <1>4, <1>5 DEF Placed, Tcp, Holding
<1>7. ASSUME NEW d \in Users, Wanting(d)' PROVE Placed(d)'
  <2>1. CASE Wanting(d)
    BY <1>6, <2>1 DEF PlacesInv
  <2>2. CASE ~ Wanting(d)
    <3>1. d = c /\ user[c] \notin {"connected", "asked"} /\ up
      BY <1>1, <1>2, <1>7, <2>2 DEF Wanting
    <3>2. user[c] = "unborn"
      BY <1>7, <3>1 DEF Connect, Ask, ReadAnswer, Kill, Wanting, StreamInv, StreamTypes
    <3> QED
      BY <1>1, <1>4, <1>5, <3>1, <3>2 DEF Placed, Tcp
  <2> QED
    BY <2>1, <2>2
<1> QED
  BY <1>1, <1>4, <1>7 DEF PlacesInv, Tcp

LEMMA AcceptPlaces ==
    ASSUME StreamInv, PlacesInv, Accept
    PROVE  PlacesInv'
<1>1. /\ UNCHANGED <<kind, protocol, user, datagrams, answers, up>>
      /\ ~ Holding(Main) /\ work' = [work EXCEPT ![Main] = "read"]
      /\ conn' = [conn EXCEPT ![Main] = Head(backlog)]
  BY DEF Accept, usersVars, Holding
<1>2. Range(backlog') = Range(backlog) \ {Head(backlog)} /\ Range(backlog) \subseteq Users
  <2>1. backlog \in Seq(Users)
    BY DEF StreamInv, StreamTypes
  <2>2. Range(backlog) \subseteq Users
    BY <2>1, ElementOfSeq, LenProperties DEF Range
  <2> QED
    BY <2>1, <2>2, QueueTail DEF Accept, StreamInv, WaitingInv
<1>3. /\ work'[Main] = "read" /\ conn'[Main] = Head(backlog) /\ Main \in Workers
      /\ \A w \in Workers : w # Main => work'[w] = work[w] /\ conn'[w] = conn[w]
  BY <1>1 DEF StreamInv, StreamTypes, Workers
<1>4. ASSUME NEW d \in Users, Wanting(d)' PROVE Placed(d)'
  <2>1. Placed(d)
    BY <1>1, <1>4 DEF PlacesInv, Wanting
  <2>2. CASE d # Head(backlog)
    <3>1. Main # d
      BY MainAssumption
    <3> QED
      BY <1>1, <1>2, <1>3, <2>1, <2>2, <3>1, PlacedElsewhere
  <2>3. CASE d = Head(backlog)
    BY <1>1, <1>3, <2>1, <2>3 DEF Placed, Holding, Tcp
  <2> QED
    BY <2>2, <2>3
<1> QED
  BY <1>1, <1>3, <1>4 DEF PlacesInv, Tcp

LEMMA AcceptForThreadPlaces ==
    ASSUME StreamInv, PlacesInv, AcceptForThread
    PROVE  PlacesInv'
<1>1. /\ UNCHANGED <<kind, protocol, user, datagrams, answers, up, ready>>
      /\ kind = "threads" /\ ~ Holding(Main)
  BY DEF AcceptForThread, usersVars, StreamInv, ServingInv
<1>2. /\ Range(backlog') = Range(backlog) \ {Head(backlog)} /\ Range(backlog) \subseteq Users
      /\ Head(backlog) \in Range(backlog)
  <2>1. backlog \in Seq(Users)
    BY DEF StreamInv, StreamTypes
  <2>2. Range(backlog) \subseteq Users
    BY <2>1, ElementOfSeq, LenProperties DEF Range
  <2> QED
    BY <2>1, <2>2, QueueTail DEF AcceptForThread, StreamInv, WaitingInv
<1>3. PICK c \in Users : c = Head(backlog) /\ Unserved(c)
  BY <1>2 DEF StreamInv, WaitingInv
<1>4. PICK s \in {"start", "failed"} : work' = [work EXCEPT ![c] = s]
  BY <1>3 DEF AcceptForThread
<1>5. conn' = [conn EXCEPT ![Main] = c]
  BY <1>3 DEF AcceptForThread
<1>6. /\ work'[c] = s /\ c \in Workers /\ c # Main /\ ~ Holding(c)
      /\ \A w \in Workers : w # c => work'[w] = work[w]
      /\ \A w \in Workers : Holding(w) => conn'[w] = conn[w]
  BY <1>1, <1>3, <1>4, <1>5, MainAssumption
  DEF StreamInv, StreamTypes, Workers, Unserved, Holding
<1>7. ASSUME NEW d \in Users, Wanting(d)' PROVE Placed(d)'
  <2>1. Placed(d)
    BY <1>1, <1>7 DEF PlacesInv, Wanting
  <2>2. CASE d # c
    BY <1>1, <1>2, <1>3, <1>6, <2>1, <2>2, PlacedElsewhere
  <2>3. CASE d = c
    BY <1>1, <1>6, <2>1, <2>3 DEF Placed, Tcp
  <2> QED
    BY <2>2, <2>3
<1>8. work'[Main] # "stream" /\ Main \in Workers
  BY <1>1, <1>6 DEF StreamInv, ServingInv, Workers
<1> QED
  BY <1>1, <1>7, <1>8 DEF PlacesInv, Tcp

LEMMA SelectPlaces ==
    ASSUME StreamInv, PlacesInv, Select \/ SkipStream
    PROVE  PlacesInv'
<1>1. /\ UNCHANGED <<kind, protocol, user, backlog, datagrams, conn, answers, up>>
      /\ work[Main] \in {"select", "stream"}
  BY DEF Select, SkipStream, usersVars, serverVars
<1>2. PICK s \in {"stream", "datagram"} : work' = [work EXCEPT ![Main] = s]
  BY DEF Select, SkipStream
<1>3. /\ work'[Main] = s /\ Main \in Workers /\ ~ Holding(Main)
      /\ \A w \in Workers : w # Main => work'[w] = work[w]
  BY <1>1, <1>2 DEF StreamInv, StreamTypes, Workers, Holding
<1>4. ASSUME NEW d \in Users, Wanting(d)' PROVE Placed(d)'
  <2>1. Placed(d) /\ Main # d
    BY <1>1, <1>4, MainAssumption DEF PlacesInv, Wanting
  <2> QED
    BY <1>1, <1>3, <2>1, PlacedElsewhere
<1>5. work'[Main] = "stream" /\ "tcp" \in ready' => backlog' # << >>
  <2>1. CASE Select
    BY <1>1, <2>1 DEF Select, Reported
  <2>2. CASE SkipStream
    BY <1>2, <1>3, <2>2 DEF SkipStream, StreamInv, StreamTypes
  <2> QED
    BY <2>1, <2>2
<1> QED
  BY <1>1, <1>3, <1>4, <1>5 DEF PlacesInv, Tcp

LEMMA DatagramPlaces ==
    ASSUME StreamInv, PlacesInv, AnswerDatagram
    PROVE  PlacesInv'
<1>1. /\ UNCHANGED <<kind, protocol, user, backlog, conn, up>> /\ work[Main] = "datagram"
      /\ work' = [work EXCEPT ![Main] = "select"]
  BY DEF AnswerDatagram, usersVars
<1>2. /\ work'[Main] = "select" /\ Main \in Workers /\ ~ Holding(Main)
      /\ \A w \in Workers : w # Main => work'[w] = work[w]
  BY <1>1 DEF StreamInv, StreamTypes, Workers, Holding
<1>3. ASSUME NEW d \in Users, Wanting(d)' PROVE Wanting(d) /\ d \notin Range(datagrams) \ Range(datagrams')
  <2>1. CASE UNCHANGED <<answers, datagrams>>
    BY <1>1, <1>3, <2>1 DEF Wanting
  <2>2. CASE "udp" \in ready
    <3>1. /\ Head(datagrams) \in Users
          /\ Range(datagrams') = Range(datagrams) \ {Head(datagrams)}
      BY <2>2, QueueTail DEF AnswerDatagram, StreamInv, StreamTypes, WaitingInv
    <3>2. answers' = [answers EXCEPT ![Head(datagrams)] = @ + 1] /\ answers \in [Users -> Nat]
      BY <2>2 DEF AnswerDatagram, StreamInv, StreamTypes
    <3>3. d # Head(datagrams) /\ answers[d] = 0
      BY <1>3, <3>1, <3>2 DEF Wanting
    <3> QED
      BY <1>1, <1>3, <3>1, <3>3 DEF Wanting
  <2> QED
    BY <2>1, <2>2 DEF AnswerDatagram
<1>4. ASSUME NEW d \in Users, Wanting(d)' PROVE Placed(d)'
  <2>1. Placed(d) /\ Main # d /\ d \notin Range(datagrams) \ Range(datagrams')
    BY <1>3, <1>4, MainAssumption DEF PlacesInv
  <2>2. Range(datagrams) \subseteq Users
    BY ElementOfSeq, LenProperties DEF Range, StreamInv, StreamTypes
  <2> QED
    BY <1>1, <1>2, <2>1, <2>2, PlacedElsewhere
<1> QED
  BY <1>1, <1>2, <1>4 DEF PlacesInv, Tcp

LEMMA StartPlaces ==
    ASSUME StreamInv, PlacesInv, NEW w \in Workers, StartThread(w)
    PROVE  PlacesInv'
<1>1. UNCHANGED <<kind, protocol, user, backlog, datagrams, ready, answers, up>>
  BY DEF StartThread, usersVars, serverVars
<1>2. w \in Users /\ work[w] = "start" /\ thread_arg[w] = w /\ w # Main
  BY MainAssumption DEF StartThread, StreamInv, ServingInv, Workers
<1>3. /\ Holding(w)' /\ conn'[w] = w /\ ~ Holding(w)
      /\ \A v \in Workers : v # w => work'[v] = work[v] /\ conn'[v] = conn[v]
  BY <1>2 DEF StartThread, StreamInv, StreamTypes, Holding
<1>4. ASSUME NEW d \in Users, Wanting(d)' PROVE Placed(d)'
  <2>1. Placed(d)
    BY <1>1, <1>4 DEF PlacesInv, Wanting
  <2>2. CASE d # w
    BY <1>1, <1>3, <2>1, <2>2, PlacedElsewhere
  <2>3. CASE d = w
    BY <1>1, <1>3, <2>1, <2>3 DEF Placed, Tcp
  <2> QED
    BY <2>2, <2>3
<1>5. work'[Main] = work[Main]
  BY <1>2, <1>3 DEF Workers
<1> QED
  BY <1>1, <1>4, <1>5 DEF PlacesInv, Tcp

LEMMA ServePlaces ==
    ASSUME StreamInv, PlacesInv, NEW w \in Workers,
           ReadRequest(w) \/ WriteAnswer(w) \/ CloseConnection(w)
    PROVE  PlacesInv'
<1>1. /\ UNCHANGED <<kind, protocol, user, backlog, datagrams, conn, ready>> /\ up /\ Holding(w)
  BY DEF ReadRequest, WriteAnswer, CloseConnection, usersVars, serverVars, Holding
<1>2. PICK c \in Users : c = conn[w] /\ answers[c] = (IF work[w] = "close" THEN 1 ELSE 0)
  BY <1>1 DEF StreamInv, ServingInv, Serves
<1>3. \A v \in Workers : v # w => work'[v] = work[v]
  BY DEF ReadRequest, WriteAnswer, CloseConnection, StreamInv, StreamTypes
<1>4. ASSUME NEW d \in Users, d # c, Wanting(d)' PROVE Placed(d)'
  <2>1. answers'[d] = answers[d]
    BY <1>2, <1>4 DEF ReadRequest, WriteAnswer, CloseConnection, StreamInv, StreamTypes
  <2>2. Placed(d)
    BY <1>1, <1>4, <2>1 DEF PlacesInv, Wanting
  <2>3. work[w] \notin {"start", "failed"}
    BY <1>1 DEF Holding
  <2> QED
    BY <1>1, <1>2, <1>3, <1>4, <2>2, <2>3, PlacedElsewhere
<1>5. ASSUME Wanting(c)' PROVE Placed(c)'
  <2>1. work[w] = "read" /\ work'[w] = "write" /\ answers'[c] = 0
    BY <1>1, <1>2, <1>5
    DEF ReadRequest, WriteAnswer, CloseConnection, Wanting, StreamInv, StreamTypes
  <2>2. Tcp(c)
    BY <1>1, <1>2 DEF StreamInv, ServingInv, Serves
  <2> QED
    BY <1>1, <1>2, <2>1, <2>2 DEF Placed, Holding, Tcp
<1>6. /\ work'[Main] # "stream"
      /\ kind = "select" => work'[Main] # "accept"
  <2>1. Main \in Workers
    BY DEF Workers
  <2>2. CASE w # Main
    <3>1. kind = "threads"
      BY <1>1, <2>2 DEF StreamInv, ServingInv, Workers, Holding
    <3> QED
      BY <1>3, <2>1, <2>2, <3>1 DEF StreamInv, ServingInv
  <2>3. CASE w = Main
    BY <2>3, <1>1 DEF ReadRequest, WriteAnswer, CloseConnection, StreamInv, StreamTypes, AfterServing, Holding
  <2> QED
    BY <2>2, <2>3
<1> QED
  BY <1>1, <1>4, <1>5, <1>6 DEF PlacesInv, Tcp

LEMMA PlacesFirst == StreamInit => PlacesInv
  BY MainAssumption DEF StreamInit, PlacesInv, Wanting, ServerKinds, Workers, Tcp

LEMMA PlacesStep == StreamInv /\ PlacesInv /\ [StreamNext]_streamVars => PlacesInv'
<1> SUFFICES ASSUME StreamInv, PlacesInv, [StreamNext]_streamVars PROVE PlacesInv'
  OBVIOUS
<1>1. CASE UNCHANGED streamVars
  BY <1>1 DEF streamVars, PlacesInv, Wanting, Placed, Holding, Tcp
<1>2. CASE StreamNext
  BY <1>2, UserPlaces, AcceptPlaces, AcceptForThreadPlaces, SelectPlaces, DatagramPlaces,
     StartPlaces, ServePlaces DEF StreamNext, ServerStep
<1> QED
  BY <1>1, <1>2

\* Who waits for a server that waits.
LEMMA WaitersServed == StreamInv /\ PlacesInv => WaitsForASilentClient
<1> SUFFICES ASSUME StreamInv, PlacesInv, NEW c \in Users,
                    user[c] = "asked", answers[c] = 0, EveryWorkerWaits, work[c] # "failed"
             PROVE  kind # "threads" /\ SilentClientServed
  BY DEF WaitsForASilentClient
<1>1. Placed(c) /\ Main \in Workers /\ c \in Workers
  BY DEF PlacesInv, Wanting, EveryWorkerWaits, Workers
<1>2. \A w \in Workers : Holding(w) => work[w] = "read" /\ user[conn[w]] = "connected"
  BY DEF Holding, EveryWorkerWaits, WorkerCanGoOn
<1>3. IF Tcp(c) THEN c \in Range(backlog) ELSE c \in Range(datagrams)
  BY <1>1, <1>2 DEF Placed, EveryWorkerWaits, WorkerCanGoOn
<1>4. /\ Tcp(c) => backlog # << >>
      /\ ~ Tcp(c) => datagrams # << >> /\ kind = "select"
  BY <1>3 DEF Range, PlacesInv
<1>5. kind # "threads"
  BY <1>4 DEF EveryWorkerWaits, MainCanGoOn
<1>6. work[Main] # "accept"
  BY <1>4, <1>5 DEF EveryWorkerWaits, MainCanGoOn, PlacesInv, ServerKinds
<1>7. work[Main] # "select"
  BY <1>4 DEF EveryWorkerWaits, MainCanGoOn, Reported, StreamInv, StreamTypes
<1>8. work[Main] \notin {"stream", "datagram"}
  BY DEF EveryWorkerWaits, MainCanGoOn, PlacesInv
<1>9. Holding(Main)
  BY <1>6, <1>7, <1>8 DEF StreamInv, ServingInv, Holding
<1> QED
  BY <1>1, <1>2, <1>5, <1>9 DEF SilentClientServed

\* When every worker of a stream server waits and a client has no answer, main is in the
\* read() of a silent client, or the client's thread was never made: no connection and no
\* datagram is ever overlooked by the loops around accept() and select().
THEOREM WaitsForASilentClientTheorem == StreamSpec => []WaitsForASilentClient
  BY StreamFirst, StreamStep, PlacesFirst, PlacesStep, WaitersServed, PTL DEF StreamSpec

-----------------------------------------------------------------------------
(* DgramServers: whose name it is.                                          *)

PeerPlaces == {"unborn", "bind", "send", "receive", "unlink", "done", "failed", "killed"}

DgramTypes ==
    /\ family \in Families
    /\ peerAt \in [Peers -> PeerPlaces]
    /\ listener \in {"unborn", "bind", "up", "killed"}
    /\ clientPath \in Peers \cup {NoSocket} /\ serverPath \in BOOLEAN
    /\ requests \in Seq(Peers) /\ replies \in SUBSET Peers
    /\ company \in [Peers -> SUBSET Peers] /\ unheard \in SUBSET Peers

\* Clients that are there at the same time have met, and a local client that has met
\* nobody has the name of the clients for itself.
NameInv ==
    /\ \A c, d \in Peers : c # d /\ Present(c) /\ Present(d) => d \in company[c]
    /\ family = "inet" => \A c \in Peers : peerAt[c] \notin {"bind", "unlink", "failed"}
    /\ family = "local" => \A c \in Peers : company[c] = {} =>
         /\ peerAt[c] = "bind" => clientPath = NoSocket
         /\ peerAt[c] \in {"send", "receive", "unlink"} => clientPath = c

DgramInv == DgramTypes /\ NameInv /\ UndisturbedIsServed

\* A step of a client: it alone goes somewhere.
LEMMA ClientGoes ==
    ASSUME DgramTypes, NEW c \in Peers,
           NEW place \in PeerPlaces,
           Goes(c, place)
    PROVE  /\ peerAt' \in [Peers -> PeerPlaces]
           /\ peerAt'[c] = place /\ \A d \in Peers : d # c => peerAt'[d] = peerAt[d]
BY DEF Goes, DgramTypes

LEMMA StartClientStep ==
    ASSUME DgramInv, NEW c \in Peers, StartClient(c)
    PROVE  DgramInv'
<1>1. /\ UNCHANGED <<family, listener, serverPath, requests, replies, unheard, deaths>>
      /\ peerAt[c] = "unborn" /\ ~ Present(c)
  BY DEF StartClient, Present
<1>2. PICK place \in {"bind", "send"} :
        /\ Goes(c, place)
        /\ family = "local" => place = "bind" /\ clientPath' = NoSocket
        /\ family = "inet" => place = "send" /\ clientPath' = clientPath
  BY DEF StartClient, DgramInv, DgramTypes, Families
<1>3. /\ peerAt' \in [Peers -> PeerPlaces]
      /\ peerAt'[c] = place /\ \A d \in Peers : d # c => peerAt'[d] = peerAt[d]
  BY <1>2, ClientGoes DEF DgramInv, PeerPlaces
<1>4. /\ company' \in [Peers -> SUBSET Peers]
      /\ company'[c] = {e \in Peers : Present(e)}
      /\ \A d \in Peers : d # c /\ Present(d) => company'[d] = company[d] \cup {c}
      /\ \A d \in Peers : d # c /\ ~ Present(d) => company'[d] = company[d]
  BY DEF StartClient, DgramInv, DgramTypes
<1>5. \A d \in Peers : d # c => (Present(d)' <=> Present(d))
  BY <1>3 DEF Present
<1>6. DgramTypes'
  BY <1>1, <1>2, <1>3, <1>4 DEF DgramInv, DgramTypes, Families
<1>7. NameInv'
  <2>1. \A b, d \in Peers : b # d /\ Present(b)' /\ Present(d)' => d \in company'[b]
    <3> SUFFICES ASSUME NEW b \in Peers, NEW d \in Peers, b # d, Present(b)', Present(d)'
                 PROVE  d \in company'[b]
      OBVIOUS
    <3>1. CASE b = c
      BY <1>4, <1>5, <3>1
    <3>2. CASE b # c
      BY <1>4, <1>5, <3>2 DEF DgramInv, NameInv
    <3> QED
      BY <3>1, <3>2
  <2>2. family' = "inet" => \A d \in Peers : peerAt'[d] \notin {"bind", "unlink", "failed"}
    BY <1>1, <1>2, <1>3 DEF DgramInv, NameInv
  <2>3. ASSUME family = "local", NEW d \in Peers, company'[d] = {}
        PROVE  /\ peerAt'[d] = "bind" => clientPath' = NoSocket
               /\ peerAt'[d] \in {"send", "receive", "unlink"} => clientPath' = d
    <3>1. CASE d = c
      BY <1>2, <1>3, <2>3, <3>1
    <3>2. CASE d # c
      <4>1. ~ Present(d)
        BY <1>4, <2>3, <3>2
      <4> QED
        BY <1>3, <3>2, <4>1 DEF Present
    <3> QED
      BY <3>1, <3>2
  <2> QED
    BY <1>1, <2>1, <2>2, <2>3 DEF NameInv
<1>8. UndisturbedIsServed'
  <2>1. \A d \in Peers : company'[d] = {} /\ d # c => company[d] = {}
    BY <1>4
  <2> QED
    BY <1>1, <1>3, <2>1 DEF DgramInv, UndisturbedIsServed
<1> QED
  BY <1>6, <1>7, <1>8 DEF DgramInv

LEMMA BindClientStep ==
    ASSUME DgramInv, NEW c \in Peers, BindClient(c)
    PROVE  DgramInv'
<1>1. /\ UNCHANGED <<family, listener, serverPath, requests, replies, company, unheard, deaths>>
      /\ peerAt[c] = "bind" /\ Present(c) /\ family = "local"
  BY DEF BindClient, Present, DgramInv, NameInv, DgramTypes, Families
<1>2. PICK place \in {"send", "failed"} :
        /\ Goes(c, place)
        /\ place = "send" => clientPath = NoSocket /\ clientPath' = c
        /\ place = "failed" => clientPath # NoSocket /\ clientPath' = clientPath
  BY DEF BindClient
<1>3. /\ peerAt' \in [Peers -> PeerPlaces]
      /\ peerAt'[c] = place /\ \A d \in Peers : d # c => peerAt'[d] = peerAt[d]
  BY <1>2, ClientGoes DEF DgramInv, PeerPlaces
<1>4. DgramTypes'
  BY <1>1, <1>2, <1>3 DEF DgramInv, DgramTypes
<1>5. \A d \in Peers : Present(d)' => Present(d)
  BY <1>1, <1>3 DEF Present
<1>6. ASSUME NEW d \in Peers, company[d] = {}, d # c PROVE ~ Present(d)
  BY <1>1, <1>6 DEF DgramInv, NameInv
<1>7. company[c] = {} => place = "send"
  BY <1>1, <1>2 DEF DgramInv, NameInv
<1>8. NameInv'
  <2>1. ASSUME NEW d \in Peers, company[d] = {}
        PROVE  /\ peerAt'[d] = "bind" => clientPath' = NoSocket
               /\ peerAt'[d] \in {"send", "receive", "unlink"} => clientPath' = d
    <3>1. CASE d = c
      BY <1>2, <1>3, <2>1, <3>1
    <3>2. CASE d # c
      BY <1>3, <1>6, <2>1, <3>2 DEF Present
    <3> QED
      BY <3>1, <3>2
  <2> QED
    BY <1>1, <1>5, <2>1 DEF DgramInv, NameInv
<1>9. UndisturbedIsServed'
  BY <1>1, <1>3, <1>7 DEF DgramInv, UndisturbedIsServed
<1> QED
  BY <1>4, <1>8, <1>9 DEF DgramInv

\* The name of the clients is kept, or is of nobody who has met no other.
LEMMA NameKept ==
    ASSUME DgramInv, NEW c \in Peers, Present(c), UNCHANGED <<family, company>>,
           \A d \in Peers : d # c => peerAt'[d] = peerAt[d],
           clientPath' \in {clientPath, NoSocket},
           peerAt'[c] \in {"receive", "unlink"} =>
             peerAt[c] \in {"send", "receive", "unlink"} /\ clientPath' = clientPath,
           peerAt'[c] \in {"receive", "unlink", "done", "failed", "killed"},
           family = "inet" => peerAt'[c] \notin {"unlink", "failed"},
           clientPath' # clientPath => family = "local"
    PROVE  NameInv'
<1>1. \A d \in Peers : Present(d)' => Present(d)
  BY DEF Present
<1>2. ASSUME NEW d \in Peers, company[d] = {}, d # c PROVE ~ Present(d)
  BY <1>2 DEF DgramInv, NameInv
<1>3. ASSUME family = "local", NEW d \in Peers, company[d] = {}
      PROVE  /\ peerAt'[d] = "bind" => clientPath' = NoSocket
             /\ peerAt'[d] \in {"send", "receive", "unlink"} => clientPath' = d
  <2>1. CASE d = c
    BY <1>3, <2>1 DEF DgramInv, NameInv
  <2>2. CASE d # c
    BY <1>2, <1>3, <2>2 DEF Present
  <2> QED
    BY <2>1, <2>2
<1>4. \A b, d \in Peers : b # d /\ Present(b)' /\ Present(d)' => d \in company'[b]
  BY <1>1 DEF DgramInv, NameInv
<1>5. family' = "inet" => \A d \in Peers : peerAt'[d] \notin {"bind", "unlink", "failed"}
  BY DEF DgramInv, NameInv
<1> QED
  BY <1>3, <1>4, <1>5 DEF NameInv

LEMMA SendHelloStep ==
    ASSUME DgramInv, NEW c \in Peers, SendHelloLocal(c) \/ SendHelloInet(c)
    PROVE  DgramInv'
<1>1. /\ UNCHANGED <<family, listener, serverPath, replies, company, deaths>>
      /\ peerAt[c] = "send" /\ Present(c)
  BY DEF SendHelloLocal, SendHelloInet, Present
<1>2. PICK place \in {"receive", "failed"} :
        /\ Goes(c, place)
        /\ place = "failed" => family = "local"
        /\ place = "receive" => clientPath' = clientPath
        /\ clientPath' \in {clientPath, NoSocket}
        /\ clientPath' # clientPath => family = "local"
        /\ \/ place = "receive" /\ requests' = Append(requests, c) /\ unheard' = unheard
           \/ requests' = requests /\ unheard' = unheard \cup {c}
  BY DEF SendHelloLocal, SendHelloInet
<1>3. /\ peerAt' \in [Peers -> PeerPlaces]
      /\ peerAt'[c] = place /\ \A d \in Peers : d # c => peerAt'[d] = peerAt[d]
  BY <1>2, ClientGoes DEF DgramInv, PeerPlaces
<1>4. /\ requests' \in Seq(Peers) /\ Range(requests) \subseteq Range(requests')
      /\ c \in unheard' \/ (place = "receive" /\ c \in Range(requests'))
      /\ unheard' \subseteq Peers /\ unheard \subseteq unheard'
  <2>1. requests \in Seq(Peers) /\ unheard \subseteq Peers
    BY DEF DgramInv, DgramTypes
  <2>2. CASE place = "receive" /\ requests' = Append(requests, c) /\ unheard' = unheard
    BY <2>1, <2>2, QueueAppend
  <2>3. CASE requests' = requests /\ unheard' = unheard \cup {c}
    BY <2>1, <2>3
  <2> QED
    BY <1>2, <2>2, <2>3
<1>5. DgramTypes'
  BY <1>1, <1>2, <1>3, <1>4 DEF DgramInv, DgramTypes
<1>6. NameInv'
  BY <1>1, <1>2, <1>3, NameKept
<1>7. UndisturbedIsServed'
  BY <1>1, <1>3, <1>4 DEF DgramInv, UndisturbedIsServed
<1> QED
  BY <1>5, <1>6, <1>7 DEF DgramInv

\* The client has its answer, removes the name, or is killed.
LEMMA ClientEndsStep ==
    ASSUME DgramInv, NEW c \in Peers, ReceiveHi(c) \/ UnlinkClient(c) \/ KillClient(c)
    PROVE  DgramInv'
<1>1. /\ UNCHANGED <<family, listener, serverPath, requests, replies, company, unheard>>
      /\ Present(c)
  BY DEF ReceiveHi, UnlinkClient, KillClient, Present
<1>2. PICK place \in {"unlink", "done", "killed"} :
        /\ Goes(c, place)
        /\ place = "unlink" => family = "local" /\ peerAt[c] = "receive" /\ clientPath' = clientPath
        /\ clientPath' # clientPath => peerAt[c] = "unlink"
        /\ clientPath' \in {clientPath, NoSocket}
  BY DEF ReceiveHi, UnlinkClient, KillClient
<1>3. /\ peerAt' \in [Peers -> PeerPlaces]
      /\ peerAt'[c] = place /\ \A d \in Peers : d # c => peerAt'[d] = peerAt[d]
  BY <1>2, ClientGoes DEF DgramInv, PeerPlaces
<1>4. DgramTypes'
  BY <1>1, <1>2, <1>3 DEF DgramInv, DgramTypes
<1>5. peerAt[c] = "unlink" => family = "local"
  BY DEF DgramInv, DgramTypes, NameInv, Families
<1>6. NameInv'
  BY <1>1, <1>2, <1>3, <1>5, NameKept
<1>7. UndisturbedIsServed'
  BY <1>1, <1>3 DEF DgramInv, UndisturbedIsServed
<1> QED
  BY <1>4, <1>6, <1>7 DEF DgramInv

\* The server is started, bound or killed.
LEMMA ListenerStep ==
    ASSUME DgramInv, StartListener \/ BindListener \/ KillListener
    PROVE  DgramInv'
<1>1. /\ UNCHANGED <<family, peerAt, clientPath, replies, company>>
      /\ listener' \in {"bind", "up", "killed"} /\ serverPath' \in BOOLEAN
  BY DEF StartListener, BindListener, KillListener, DgramInv, DgramTypes
<1>2. /\ requests' \in Seq(Peers) /\ unheard' \subseteq Peers /\ unheard \subseteq unheard'
      /\ \A c \in Peers : c \in Range(requests) => c \in Range(requests') \/ c \in unheard'
  <2>1. requests \in Seq(Peers) /\ unheard \subseteq Peers /\ Range(requests) \subseteq Peers
    BY ElementOfSeq, LenProperties DEF DgramInv, DgramTypes, Range
  <2>2. CASE StartListener \/ BindListener
    BY <2>1, <2>2 DEF StartListener, BindListener
  <2>3. CASE KillListener
    <3>1. requests' = << >> /\ unheard' = unheard \cup Range(requests)
      BY <2>3 DEF KillListener
    <3> QED
      BY <2>1, <3>1
  <2> QED
    BY <2>2, <2>3
<1>3. DgramTypes'
  BY <1>1, <1>2 DEF DgramInv, DgramTypes
<1>4. NameInv'
  BY <1>1 DEF DgramInv, NameInv, Present
<1>5. UndisturbedIsServed'
  BY <1>1, <1>2 DEF DgramInv, UndisturbedIsServed
<1> QED
  BY <1>3, <1>4, <1>5 DEF DgramInv

\* The answer goes to the asker, when nobody has taken its name.
LEMMA ServeDgramStep ==
    ASSUME DgramInv, Serve
    PROVE  DgramInv'
<1>1. UNCHANGED <<family, peerAt, listener, clientPath, serverPath, company, unheard>>
  BY DEF Serve
<1>2. /\ Head(requests) \in Peers /\ requests' \in Seq(Peers) /\ requests # << >>
      /\ \A c \in Peers : c \in Range(requests) => c = Head(requests) \/ c \in Range(requests')
  <2>1. requests \in Seq(Peers) /\ requests # << >> /\ requests' = Tail(requests)
    BY DEF Serve, DgramInv, DgramTypes
  <2>2. /\ DOMAIN Tail(requests) = 1 .. Len(requests) - 1 /\ DOMAIN requests = 1 .. Len(requests)
        /\ Len(requests) \in Nat /\ Head(requests) = requests[1] /\ Head(requests) \in Peers
        /\ Tail(requests) \in Seq(Peers)
        /\ \A m \in DOMAIN Tail(requests) : Tail(requests)[m] = requests[m + 1]
    BY <2>1, TailFacts, LenProperties
  <2>3. ASSUME NEW k \in DOMAIN requests, k # 1 PROVE requests[k] \in Range(Tail(requests))
    <3>1. k - 1 \in DOMAIN Tail(requests) /\ (k - 1) + 1 = k
      BY <2>2, <2>3
    <3>2. requests[k] = Tail(requests)[k - 1]
      BY <2>2, <3>1
    <3> QED
      BY <3>1, <3>2 DEF Range
  <2> QED
    BY <2>1, <2>2, <2>3 DEF Range
<1>3. PICK c \in Peers : c = Head(requests)
  BY <1>2
<1>4. /\ replies \subseteq replies' /\ replies' \subseteq Peers
      /\ Destination(c) # NoSocket /\ Present(Destination(c)) => Destination(c) \in replies'
  BY <1>3, NoSocketAssumption DEF Serve, Destination, DgramInv, DgramTypes
<1>5. (company[c] = {} \/ family = "inet") /\ peerAt[c] = "receive" => c \in replies'
  BY <1>3, <1>4, NoSocketAssumption
     DEF Destination, DgramInv, DgramTypes, NameInv, Present, Families
<1>6. DgramTypes'
  BY <1>1, <1>2, <1>4 DEF DgramInv, DgramTypes
<1>7. NameInv'
  BY <1>1 DEF DgramInv, NameInv, Present
<1>8. UndisturbedIsServed'
  BY <1>1, <1>2, <1>3, <1>4, <1>5 DEF DgramInv, UndisturbedIsServed
<1> QED
  BY <1>6, <1>7, <1>8 DEF DgramInv

\* A datagram client that was alone while it ran is answered by a server that lives to
\* do so, whatever names killed clients have left behind; on the Internet pair all are
\* (local_dgram_client.c:18-67, local_dgram_server.c, inet_dgram_client.c,
\* inet_dgram_server.c).
THEOREM UndisturbedTheorem == DgramSpec => []UndisturbedIsServed
<1>1. DgramInit => DgramInv
  <2> SUFFICES ASSUME DgramInit PROVE DgramInv
    OBVIOUS
  <2>1. DgramTypes
    <3>1. company = [c \in Peers |-> {}] /\ peerAt = [c \in Peers |-> "unborn"]
      BY DEF DgramInit
    <3>2. company \in [Peers -> SUBSET Peers] /\ peerAt \in [Peers -> PeerPlaces]
      BY <3>1 DEF PeerPlaces
    <3>3. requests \in Seq(Peers) /\ replies \in SUBSET Peers /\ unheard \in SUBSET Peers
      BY DEF DgramInit
    <3>4. /\ family \in Families /\ listener = "unborn" /\ clientPath = NoSocket
          /\ serverPath = FALSE
      BY DEF DgramInit
    <3> QED
      BY <3>2, <3>3, <3>4 DEF DgramTypes
  <2>2. \A c \in Peers : peerAt[c] = "unborn"
    BY DEF DgramInit
  <2> QED
    BY <2>1, <2>2 DEF DgramInv, NameInv, UndisturbedIsServed, Present
<1>2. DgramInv /\ [DgramNext]_dgramVars => DgramInv'
  <2> SUFFICES ASSUME DgramInv, [DgramNext]_dgramVars PROVE DgramInv'
    OBVIOUS
  <2>1. CASE UNCHANGED dgramVars
    BY <2>1 DEF dgramVars, DgramInv, DgramTypes, NameInv, UndisturbedIsServed, Present
  <2>2. CASE DgramNext
    BY <2>2, StartClientStep, BindClientStep, SendHelloStep, ClientEndsStep, ListenerStep,
       ServeDgramStep DEF DgramNext
  <2> QED
    BY <2>1, <2>2
<1>3. DgramInv => UndisturbedIsServed
  BY DEF DgramInv
<1> QED
  BY <1>1, <1>2, <1>3, PTL DEF DgramSpec

-----------------------------------------------------------------------------
(* GroupAck: whose answer to which message is printed.                      *)

AskSet == [to : Hosts, message : Nat]
AnswerSet == [from : Hosts, of : Nat]
ShownSet == [from : Hosts, of : Nat, at : Nat]

GroupTypes ==
    /\ mode \in Modes
    /\ server \in [Hosts -> {"down", "bound", "up"}]
    /\ client \in {"prompt", "joining", "waiting", "exit"}
    /\ peer \in Hosts \cup {Everyone} /\ inputEnded \in BOOLEAN
    /\ sentTo \in Seq(Hosts \cup {Everyone})
    /\ toServers \subseteq AskSet /\ toClient \subseteq AnswerSet
    /\ printed \in Seq(ShownSet)
    /\ asked \subseteq Hosts /\ IsFiniteSet(asked)
    /\ faults \in Nat /\ timeouts \in Nat

\* Message m is on its way to h, h's answer to it is on its way back, or printed.
AskTravels(h, m) == [to |-> h, message |-> m] \in toServers
AnswerTravels(h, m) == [from |-> h, of |-> m] \in toClient
IsPrinted(h, m) == \E k \in DOMAIN printed : printed[k].from = h /\ printed[k].of = m

WasSent(h, m) == m \in DOMAIN sentTo /\ sentTo[m] \in {h, Everyone}

\* Datagrams are about messages sent, and answers from hosts that were asked.
TravelInv ==
    /\ \A h \in Hosts, m \in Nat :
         /\ AskTravels(h, m) \/ AnswerTravels(h, m) \/ IsPrinted(h, m) => WasSent(h, m)
         /\ AnswerTravels(h, m) \/ IsPrinted(h, m) => h \in asked
    /\ \A k \in DOMAIN printed : printed[k].of <= printed[k].at /\ printed[k].at <= Len(sentTo)

\* A message and a host are in one place at a time.
OnceInv ==
    /\ \A h \in Hosts, m \in Nat :
         /\ ~ (AskTravels(h, m) /\ AnswerTravels(h, m))
         /\ ~ (AskTravels(h, m) /\ IsPrinted(h, m))
         /\ ~ (AnswerTravels(h, m) /\ IsPrinted(h, m))
    /\ \A j, k \in DOMAIN printed :
         j # k => printed[j].from # printed[k].from \/ printed[j].of # printed[k].of

\* The messages that are behind the client.
Behind == {m \in DOMAIN sentTo : client = "prompt" \/ m < Len(sentTo)}

\* As long as nothing has timed out and one host at most was asked, that host has
\* answered every message behind the client, each before the next one was sent.
InTurn(h) ==
    timeouts = 0 /\ asked \subseteq {h} =>
        /\ \A m \in Behind : IsPrinted(h, m)
        /\ \A k \in DOMAIN printed : printed[k].of = printed[k].at

\* Without a fault the answer to the multicast client does not go away.
WaitedForInv ==
    mode = "multicast" /\ client # "exit" /\ faults = 0 /\ asked # {} => toClient # {}

GroupInv ==
    /\ GroupTypes
    /\ TravelInv
    /\ OnceInv
    /\ \A h \in Hosts : InTurn(h)
    /\ WaitedForInv

LEMMA GroupInitial == GroupInit => GroupInv
<1> SUFFICES ASSUME GroupInit PROVE GroupInv
  OBVIOUS
<1>1. << >> \in Seq(Hosts \cup {Everyone}) /\ << >> \in Seq(ShownSet)
  OBVIOUS
<1>2. DOMAIN sentTo = {} /\ DOMAIN printed = {} /\ toServers = {} /\ toClient = {}
  BY DEF GroupInit
<1>3. GroupTypes
  BY <1>1, FS_EmptySet DEF GroupInit, GroupTypes
<1>4. TravelInv /\ OnceInv
  BY <1>2 DEF TravelInv, OnceInv, AskTravels, AnswerTravels, IsPrinted
<1>5. \A h \in Hosts : InTurn(h)
  BY <1>2 DEF InTurn, Behind
<1>6. WaitedForInv
  BY DEF WaitedForInv, GroupInit
<1> QED
  BY <1>3, <1>4, <1>5, <1>6 DEF GroupInv

\* What the client prints and has sent stays as it is; datagrams may get lost.
LEMMA NothingPrinted ==
    ASSUME GroupInv, UNCHANGED <<sentTo, printed, asked>>,
           toServers' \subseteq toServers, toClient' \subseteq toClient,
           timeouts' \in Nat, timeouts' = 0 => timeouts = 0,
           client' = "prompt" => client = "prompt" \/ timeouts' # 0
    PROVE  TravelInv' /\ OnceInv' /\ \A h \in Hosts : InTurn(h)'
<1>1. \A h \in Hosts, m \in Nat :
        /\ AskTravels(h, m)' => AskTravels(h, m)
        /\ AnswerTravels(h, m)' => AnswerTravels(h, m)
        /\ IsPrinted(h, m)' <=> IsPrinted(h, m)
        /\ WasSent(h, m)' <=> WasSent(h, m)
  BY DEF AskTravels, AnswerTravels, IsPrinted, WasSent
<1>2. TravelInv'
  BY <1>1 DEF GroupInv, TravelInv
<1>3. OnceInv'
  BY <1>1 DEF GroupInv, OnceInv
<1>4. ASSUME NEW h \in Hosts PROVE InTurn(h)'
  <2>1. sentTo \in Seq(Hosts \cup {Everyone})
    BY DEF GroupInv, GroupTypes
  <2>2. DOMAIN sentTo \subseteq Nat
    BY <2>1, LenProperties
  <2> SUFFICES ASSUME timeouts' = 0, asked \subseteq {h}
               PROVE  /\ \A m \in Behind' : IsPrinted(h, m)'
                      /\ \A k \in DOMAIN printed : printed[k].of = printed[k].at
    BY DEF InTurn
  <2>3. Behind' \subseteq Behind
    BY DEF Behind
  <2> QED
    BY <1>1, <2>2, <2>3 DEF GroupInv, InTurn, Behind
<1> QED
  BY <1>2, <1>3, <1>4

LEMMA ServerStarts ==
    ASSUME GroupInv, NEW h \in Hosts, BindServer(h) \/ JoinGroup(h) PROVE GroupInv'
<1>1. /\ UNCHANGED <<mode, client, peer, inputEnded, sentTo, toServers, toClient, printed,
                     asked, faults, timeouts>>
      /\ server' \in [Hosts -> {"down", "bound", "up"}]
  BY DEF BindServer, JoinGroup, GroupInv, GroupTypes, networkVars
<1>2. GroupTypes'
  BY <1>1 DEF GroupInv, GroupTypes
<1>3. TravelInv' /\ OnceInv' /\ \A g \in Hosts : InTurn(g)'
  BY <1>1, <1>2, NothingPrinted DEF GroupTypes
<1>4. WaitedForInv'
  BY <1>1 DEF GroupInv, WaitedForInv
<1> QED
  BY <1>2, <1>3, <1>4 DEF GroupInv

LEMMA DatagramsGetLost ==
    ASSUME GroupInv, LoseDatagram \/ \E h \in Hosts : KillServer(h) PROVE GroupInv'
<1>1. /\ UNCHANGED <<mode, client, peer, inputEnded, sentTo, printed, asked, timeouts>>
      /\ toServers' \subseteq toServers /\ toClient' \subseteq toClient
      /\ faults' = faults + 1
  BY DEF LoseDatagram, KillServer
<1>2. server' \in [Hosts -> {"down", "bound", "up"}]
  BY DEF LoseDatagram, KillServer, GroupInv, GroupTypes
<1>3. GroupTypes'
  BY <1>1, <1>2 DEF GroupInv, GroupTypes
<1>4. TravelInv' /\ OnceInv' /\ \A g \in Hosts : InTurn(g)'
  BY <1>1, <1>3, NothingPrinted DEF GroupTypes
<1>5. WaitedForInv'
  BY <1>1 DEF GroupInv, GroupTypes, WaitedForInv
<1> QED
  BY <1>3, <1>4, <1>5 DEF GroupInv

\* Steps of the client in which no datagram is sent or received.
LEMMA ClientMoves ==
    ASSUME GroupInv, SendFails \/ ClientJoins \/ InputEnds \/ Quit \/ NoAnswer
    PROVE  GroupInv'
<1>1. /\ UNCHANGED <<mode, server, peer, sentTo, toServers, toClient, printed, asked, faults>>
      /\ client' \in {"prompt", "waiting", "exit"}
      /\ inputEnded' \in BOOLEAN
  BY DEF SendFails, ClientJoins, InputEnds, Quit, NoAnswer, networkVars, GroupInv, GroupTypes
<1>2. /\ timeouts' \in Nat
      /\ timeouts' = 0 => timeouts = 0
      /\ client' = "prompt" => client = "prompt" \/ timeouts' # 0
      /\ client = "exit" => client' = "exit"
  BY DEF SendFails, ClientJoins, InputEnds, Quit, NoAnswer, GroupInv, GroupTypes
<1>3. GroupTypes'
  BY <1>1, <1>2 DEF GroupInv, GroupTypes
<1>4. TravelInv' /\ OnceInv' /\ \A h \in Hosts : InTurn(h)'
  BY <1>1, <1>2, NothingPrinted
<1>5. WaitedForInv'
  BY <1>1, <1>2 DEF GroupInv, WaitedForInv
<1> QED
  BY <1>3, <1>4, <1>5 DEF GroupInv

LEMMA AcknowledgeStep ==
    ASSUME GroupInv, NEW h \in Hosts, Acknowledge(h) PROVE GroupInv'
<1>1. PICK d \in toServers :
        /\ d.to = h
        /\ toServers' = toServers \ {d}
        /\ toClient' = toClient \cup {[from |-> h, of |-> d.message]}
  BY DEF Acknowledge
<1>2. PICK n \in Nat : d = [to |-> h, message |-> n] /\ n = d.message
  BY <1>1 DEF GroupInv, GroupTypes, AskSet
<1>3. /\ UNCHANGED <<mode, server, client, peer, inputEnded, sentTo, printed, faults, timeouts>>
      /\ asked' = asked \cup {h}
  BY DEF Acknowledge
<1>4. \A g \in Hosts, m \in Nat :
        /\ AskTravels(g, m)' <=> AskTravels(g, m) /\ ~ (g = h /\ m = n)
        /\ AnswerTravels(g, m)' <=> AnswerTravels(g, m) \/ (g = h /\ m = n)
        /\ IsPrinted(g, m)' <=> IsPrinted(g, m)
        /\ WasSent(g, m)' <=> WasSent(g, m)
  BY <1>1, <1>2, <1>3 DEF AskTravels, AnswerTravels, IsPrinted, WasSent
<1>5. AskTravels(h, n)
  BY <1>2 DEF AskTravels
<1>6. GroupTypes'
  <2>1. IsFiniteSet(asked') /\ asked' \subseteq Hosts
    BY <1>3, FS_AddElement DEF GroupInv, GroupTypes
  <2>2. toServers' \subseteq AskSet /\ toClient' \subseteq AnswerSet
    BY <1>1, <1>2 DEF GroupInv, GroupTypes, AnswerSet
  <2> QED
    BY <1>3, <2>1, <2>2 DEF GroupInv, GroupTypes
<1>7. TravelInv'
  BY <1>3, <1>4, <1>5 DEF GroupInv, TravelInv
<1>8. OnceInv'
  BY <1>3, <1>4, <1>5 DEF GroupInv, OnceInv
<1>9. ASSUME NEW g \in Hosts PROVE InTurn(g)'
  BY <1>3 DEF GroupInv, InTurn, Behind, IsPrinted
<1>10. WaitedForInv'
  BY <1>1 DEF WaitedForInv
<1> QED
  BY <1>6, <1>7, <1>8, <1>9, <1>10 DEF GroupInv

LEMMA SendMessageStep ==
    ASSUME GroupInv, SendMessage PROVE GroupInv'
<1>0. PICK n \in Nat : n = Len(sentTo) + 1
  <2>1. Len(sentTo) \in Nat
    BY LenProperties DEF GroupInv, GroupTypes
  <2> QED
    BY <2>1
<1>1. /\ client = "prompt" /\ client' \in {"waiting", "joining"}
      /\ sentTo' = Append(sentTo, peer)
      /\ toServers' = toServers \cup {[to |-> h, message |-> n] : h \in Reached(peer)}
      /\ UNCHANGED <<mode, server, peer, inputEnded, toClient, printed, asked, faults, timeouts>>
  BY <1>0 DEF SendMessage
<1>2. peer \in Hosts \cup {Everyone} /\ sentTo \in Seq(Hosts \cup {Everyone})
  BY DEF GroupInv, GroupTypes
<1>3. /\ sentTo' \in Seq(Hosts \cup {Everyone})
      /\ Len(sentTo) \in Nat /\ DOMAIN sentTo = 1 .. Len(sentTo) /\ n \notin DOMAIN sentTo
      /\ DOMAIN sentTo' = DOMAIN sentTo \cup {n}
      /\ \A m \in DOMAIN sentTo : sentTo'[m] = sentTo[m]
      /\ sentTo'[n] = peer
  BY <1>0, <1>1, <1>2, AppendFacts
<1>4. Len(sentTo') = n
  BY <1>0, <1>1, <1>2, AppendProperties
<1>5. \A h \in Hosts, m \in Nat :
        /\ AnswerTravels(h, m)' <=> AnswerTravels(h, m)
        /\ IsPrinted(h, m)' <=> IsPrinted(h, m)
        /\ AskTravels(h, m)' <=> AskTravels(h, m) \/ (h \in Reached(peer) /\ m = n)
  BY <1>1 DEF AskTravels, AnswerTravels, IsPrinted, Reached
<1>6. \A h \in Hosts, m \in Nat :
        /\ WasSent(h, m) => WasSent(h, m)' /\ m # n
        /\ h \in Reached(peer) => WasSent(h, n)'
  BY <1>1, <1>3 DEF WasSent, Reached
<1>7. GroupTypes'
  <2>1. toServers' \subseteq AskSet
    BY <1>1 DEF GroupInv, GroupTypes, AskSet, Reached
  <2> QED
    BY <1>1, <1>3, <2>1 DEF GroupInv, GroupTypes
<1>8. TravelInv'
  <2>1. \A k \in DOMAIN printed : printed[k].of <= printed[k].at /\ printed[k].at <= n
    <3>1. \A k \in DOMAIN printed : printed[k] \in ShownSet
      BY DEF GroupInv, GroupTypes
    <3>2. \A k \in DOMAIN printed : printed[k].at \in Nat
      BY <3>1 DEF ShownSet
    <3> QED
      BY <1>0, <1>3, <3>2 DEF GroupInv, TravelInv
  <2>2. \A h \in Hosts, m \in Nat :
         /\ AskTravels(h, m)' \/ AnswerTravels(h, m)' \/ IsPrinted(h, m)' => WasSent(h, m)'
         /\ AnswerTravels(h, m)' \/ IsPrinted(h, m)' => h \in asked
    BY <1>5, <1>6 DEF GroupInv, TravelInv
  <2> QED
    BY <1>1, <1>4, <2>1, <2>2 DEF TravelInv
<1>9. OnceInv'
  <2>1. \A h \in Hosts, m \in Nat :
         /\ ~ (AskTravels(h, m)' /\ AnswerTravels(h, m)')
         /\ ~ (AskTravels(h, m)' /\ IsPrinted(h, m)')
         /\ ~ (AnswerTravels(h, m)' /\ IsPrinted(h, m)')
    BY <1>5, <1>6 DEF GroupInv, OnceInv, TravelInv
  <2> QED
    BY <1>1, <2>1 DEF GroupInv, OnceInv
<1>10. ASSUME NEW h \in Hosts PROVE InTurn(h)'
  <2>1. Behind' = DOMAIN sentTo /\ Behind = DOMAIN sentTo
    BY <1>0, <1>1, <1>3, <1>4 DEF Behind
  <2>2. DOMAIN sentTo \subseteq Nat
    BY <1>3
  <2> QED
    BY <1>1, <1>5, <2>1, <2>2 DEF GroupInv, InTurn
<1>11. WaitedForInv'
  BY <1>1 DEF GroupInv, WaitedForInv
<1> QED
  BY <1>7, <1>8, <1>9, <1>10, <1>11 DEF GroupInv

LEMMA ReceiveAnswerStep ==
    ASSUME GroupInv, ReceiveAnswer PROVE GroupInv'
<1>1. PICK d \in toClient :
        /\ toClient' = toClient \ {d}
        /\ peer' = d.from
        /\ printed' = Append(printed, [from |-> d.from, of |-> d.of, at |-> Len(sentTo)])
  BY DEF ReceiveAnswer
<1>2. PICK h \in Hosts, n \in Nat : d = [from |-> h, of |-> n] /\ h = d.from /\ n = d.of
  BY <1>1 DEF GroupInv, GroupTypes, AnswerSet
<1>3. /\ UNCHANGED <<mode, server, inputEnded, sentTo, toServers, asked, faults, timeouts>>
      /\ client' = IF mode = "broadcast" THEN "prompt" ELSE "exit"
      /\ client = "waiting"
  BY DEF ReceiveAnswer
<1> DEFINE line == [from |-> h, of |-> n, at |-> Len(sentTo)]
           end == Len(printed) + 1
<1>4. sentTo \in Seq(Hosts \cup {Everyone}) /\ printed \in Seq(ShownSet)
  BY DEF GroupInv, GroupTypes
<1>5. /\ Len(sentTo) \in Nat /\ DOMAIN sentTo = 1 .. Len(sentTo)
  BY <1>4, LenProperties
<1>6. line \in ShownSet
  BY <1>5 DEF ShownSet
<1>7. printed' = Append(printed, line)
  BY <1>1, <1>2
<1>8. line.from = h /\ line.of = n /\ line.at = Len(sentTo)
  OBVIOUS
<1> HIDE DEF line
<1>9. /\ printed' \in Seq(ShownSet)
      /\ end \notin DOMAIN printed
      /\ DOMAIN printed' = DOMAIN printed \cup {end}
      /\ \A k \in DOMAIN printed : printed'[k] = printed[k]
      /\ printed'[end] = line
  BY <1>4, <1>6, <1>7, AppendFacts
<1> HIDE DEF end
<1>10. \A g \in Hosts, m \in Nat :
        /\ AskTravels(g, m)' <=> AskTravels(g, m)
        /\ AnswerTravels(g, m)' <=> AnswerTravels(g, m) /\ ~ (g = h /\ m = n)
        /\ WasSent(g, m)' <=> WasSent(g, m)
  BY <1>1, <1>2, <1>3 DEF AskTravels, AnswerTravels, WasSent
<1>11. \A g, m : IsPrinted(g, m)' <=> IsPrinted(g, m) \/ (g = h /\ m = n)
  BY <1>8, <1>9 DEF IsPrinted
<1>12. AnswerTravels(h, n)
  BY <1>2 DEF AnswerTravels
<1>13. ~ AskTravels(h, n) /\ ~ IsPrinted(h, n) /\ h \in asked /\ n \in 1 .. Len(sentTo)
  BY <1>5, <1>12 DEF GroupInv, OnceInv, TravelInv, WasSent
<1>14. GroupTypes'
  <2>1. peer' \in Hosts /\ toClient' \subseteq AnswerSet
    BY <1>1, <1>2 DEF GroupInv, GroupTypes
  <2> QED
    BY <1>3, <1>9, <2>1 DEF GroupInv, GroupTypes
<1>15. TravelInv'
  <2>1. \A g \in Hosts, m \in Nat :
         /\ AskTravels(g, m)' \/ AnswerTravels(g, m)' \/ IsPrinted(g, m)' => WasSent(g, m)'
         /\ AnswerTravels(g, m)' \/ IsPrinted(g, m)' => g \in asked
    BY <1>10, <1>11, <1>12 DEF GroupInv, TravelInv
  <2>2. \A k \in DOMAIN printed' :
          printed'[k].of <= printed'[k].at /\ printed'[k].at <= Len(sentTo)
    BY <1>5, <1>8, <1>9, <1>13 DEF GroupInv, TravelInv
  <2> QED
    BY <1>3, <2>1, <2>2 DEF TravelInv
<1>16. OnceInv'
  <2>1. \A g \in Hosts, m \in Nat :
         /\ ~ (AskTravels(g, m)' /\ AnswerTravels(g, m)')
         /\ ~ (AskTravels(g, m)' /\ IsPrinted(g, m)')
         /\ ~ (AnswerTravels(g, m)' /\ IsPrinted(g, m)')
    BY <1>10, <1>11, <1>13 DEF GroupInv, OnceInv
  <2>2. \A j \in DOMAIN printed : printed[j].from # h \/ printed[j].of # n
    BY <1>13 DEF IsPrinted
  <2>3. \A j, k \in DOMAIN printed' :
          j # k => printed'[j].from # printed'[k].from \/ printed'[j].of # printed'[k].of
    BY <1>8, <1>9, <2>2 DEF GroupInv, OnceInv
  <2> QED
    BY <2>1, <2>3 DEF OnceInv
<1>17. ASSUME NEW g \in Hosts PROVE InTurn(g)'
  <2> SUFFICES ASSUME timeouts = 0, asked \subseteq {g}
               PROVE  /\ \A m \in Behind' : IsPrinted(g, m)'
                      /\ \A k \in DOMAIN printed' : printed'[k].of = printed'[k].at
    BY <1>3 DEF InTurn
  <2>1. /\ \A m \in Behind : IsPrinted(g, m)
        /\ \A k \in DOMAIN printed : printed[k].of = printed[k].at
    BY DEF GroupInv, InTurn
  <2>2. g = h
    BY <1>13
  <2>3. n = Len(sentTo)
    <3>1. n \notin Behind
      BY <1>13, <2>1, <2>2
    <3>2. n \in DOMAIN sentTo
      BY <1>5, <1>13
    <3>3. ~ (n < Len(sentTo))
      BY <3>1, <3>2 DEF Behind
    <3>4. n \in 1 .. Len(sentTo) /\ Len(sentTo) \in Nat
      BY <1>5, <1>13
    <3> QED
      BY <3>3, <3>4
  <2>4. Behind' \subseteq Behind \cup {n}
    BY <1>3, <1>5, <2>3 DEF Behind
  <2> QED
    BY <1>8, <1>9, <1>11, <2>1, <2>2, <2>3, <2>4
<1>18. WaitedForInv'
  BY <1>3 DEF WaitedForInv, GroupInv, GroupTypes, Modes
<1> QED
  BY <1>14, <1>15, <1>16, <1>17, <1>18 DEF GroupInv

LEMMA GroupStep == GroupInv /\ [GroupNext]_groupVars => GroupInv'
<1> SUFFICES ASSUME GroupInv, [GroupNext]_groupVars PROVE GroupInv'
  OBVIOUS
<1>1. CASE \E h \in Hosts : BindServer(h) \/ JoinGroup(h)
  BY <1>1, ServerStarts
<1>2. CASE \E h \in Hosts : Acknowledge(h)
  BY <1>2, AcknowledgeStep
<1>3. CASE LoseDatagram \/ \E h \in Hosts : KillServer(h)
  BY <1>3, DatagramsGetLost
<1>4. CASE SendMessage
  BY <1>4, SendMessageStep
<1>5. CASE SendFails \/ ClientJoins \/ InputEnds \/ Quit \/ NoAnswer
  BY <1>5, ClientMoves
<1>6. CASE ReceiveAnswer
  BY <1>6, ReceiveAnswerStep
<1>7. CASE UNCHANGED groupVars
  <2>1. GroupTypes' /\ WaitedForInv'
    BY <1>7 DEF groupVars, GroupInv, GroupTypes, WaitedForInv
  <2>2. TravelInv' /\ OnceInv' /\ \A h \in Hosts : InTurn(h)'
    <3>1. timeouts \in Nat
      BY DEF GroupInv, GroupTypes
    <3> QED
      BY <1>7, <3>1, NothingPrinted DEF groupVars
  <2> QED
    BY <2>1, <2>2 DEF GroupInv
<1> QED
  BY <1>1, <1>2, <1>3, <1>4, <1>5, <1>6, <1>7 DEF GroupNext

LEMMA AnswersFollow == GroupInv => AnswersAreAccountedFor
<1> SUFFICES ASSUME GroupInv PROVE AnswersAreAccountedFor
  OBVIOUS
<1>1. \A k \in DOMAIN printed :
        /\ printed[k].from \in Hosts /\ printed[k].of \in Nat /\ printed[k].at \in Nat
        /\ IsPrinted(printed[k].from, printed[k].of)
  <2>1. \A k \in DOMAIN printed : printed[k] \in ShownSet
    BY DEF GroupInv, GroupTypes
  <2> QED
    BY <2>1 DEF ShownSet, IsPrinted
<1>2. \A k \in DOMAIN printed :
        /\ printed[k].of <= printed[k].at
        /\ sentTo[printed[k].of] \in {printed[k].from, Everyone}
        /\ printed[k].from \in asked
  BY <1>1 DEF GroupInv, TravelInv, WasSent
<1>3. \A j, k \in DOMAIN printed :
        j # k => <<printed[j].from, printed[j].of>> # <<printed[k].from, printed[k].of>>
  BY DEF GroupInv, OnceInv
<1>4. ASSUME NEW k \in DOMAIN printed, printed[k].of < printed[k].at
      PROVE  timeouts > 0 \/ Cardinality(asked) > 1
  <2> SUFFICES ASSUME timeouts = 0 PROVE Cardinality(asked) > 1
    BY DEF GroupInv, GroupTypes
  <2>1. IsFiniteSet(asked) /\ asked \subseteq Hosts
    BY DEF GroupInv, GroupTypes
  <2>2. \A h \in Hosts : ~ (asked \subseteq {h})
    BY <1>1, <1>4 DEF GroupInv, InTurn
  <2>3. Cardinality(asked) # 0
    BY <1>2, <1>4, <2>1, FS_EmptySet
  <2>4. Cardinality(asked) # 1
    <3> SUFFICES ASSUME Cardinality(asked) = 1 PROVE FALSE
      OBVIOUS
    <3>1. PICK h : asked = {h}
      BY <2>1, FS_Singleton
    <3> QED
      BY <2>1, <2>2, <3>1
  <2>5. Cardinality(asked) \in Nat
    BY <2>1, FS_CardinalityType
  <2> QED
    BY <2>3, <2>4, <2>5
<1>5. mode = "multicast" /\ client = "waiting" /\ toServers = {} /\ toClient = {} =>
        faults > 0 \/ asked = {}
  BY DEF GroupInv, GroupTypes, WaitedForInv
<1> QED
  BY <1>2, <1>3, <1>4, <1>5 DEF AnswersAreAccountedFor

\* lab16/task3: every acknowledgement the client prints was given to a message that was
\* sent to that server, none is printed twice, one to an earlier message only after a
\* timeout or if more servers than one were asked (broadcast_client.c:66-70), and the
\* multicast client waits in vain only if a datagram was lost, a server died or none had
\* joined (multicast_client.c:40-60).
THEOREM AnswersTheorem == GroupSpec => []AnswersAreAccountedFor
<1>1. GroupInit => GroupInv
  BY GroupInitial
<1>2. GroupInv /\ [GroupNext]_groupVars => GroupInv'
  BY GroupStep
<1>3. GroupInv => AnswersAreAccountedFor
  BY AnswersFollow
<1> QED
  BY <1>1, <1>2, <1>3, PTL DEF GroupSpec

-----------------------------------------------------------------------------
(* RawUdp: what a packet socket keeps.                                      *)

Packets == [from : {"client", "server"}, of : RawClients]

RawUdpTypes ==
    /\ layer \in [RawClients -> Layers]
    /\ rawAt \in [RawClients -> {"start", "send", "receive", "done", "failed"}]
    /\ tap \in [RawClients -> Seq(Packets)]
    /\ modifier \in BOOLEAN /\ inbox \in Seq(RawClients)
    /\ shownOf \in [RawClients -> RawClients \cup {NoAnswerYet}]
    /\ answered \in Seq(RawClients)
    /\ openedAt \in [RawClients -> Nat]

\* The k-th packet in c's socket is an answer, to whomever; it is the first of them.
IsAnswer(c, k) == tap[c][k].from = "server"
IsFirst(c, k) ==
    /\ k \in DOMAIN tap[c] /\ IsAnswer(c, k)
    /\ \A j \in DOMAIN tap[c] : IsAnswer(c, j) => k <= j

\* An open packet socket holds an answer when there was one since it was made, and the
\* first it holds is the first there was.
TapOk(c) ==
    /\ openedAt[c] <= Len(answered)
    /\ rawAt[c] = "start" => tap[c] = << >>
    /\ Taps(c) =>
         /\ openedAt[c] < Len(answered) => \E k \in DOMAIN tap[c] : IsAnswer(c, k)
         /\ \A k \in DOMAIN tap[c] : IsAnswer(c, k) => openedAt[c] < Len(answered)
         /\ \A k \in DOMAIN tap[c] : IsFirst(c, k) => tap[c][k].of = answered[openedAt[c] + 1]
    /\ rawAt[c] = "receive" =>
         c \in dropped \/ c \in Range(inbox) \/ openedAt[c] < Len(answered)
    /\ layer[c] = "eth" /\ rawAt[c] = "done" =>
         openedAt[c] < Len(answered) /\ shownOf[c] = answered[openedAt[c] + 1]

TapInv == \A c \in RawClients : TapOk(c)

RawUdpInv == RawUdpTypes /\ TapInv

\* A packet on its way goes into the packet sockets that are open, after all others.
LEMMA PassesFacts ==
    ASSUME RawUdpTypes, NEW p \in Packets, Passes(p)
    PROVE  /\ tap' \in [RawClients -> Seq(Packets)]
           /\ \A c \in RawClients : ~ Taps(c) => tap'[c] = tap[c]
           /\ \A c \in RawClients : Taps(c) =>
                /\ Len(tap[c]) \in Nat /\ DOMAIN tap[c] = 1 .. Len(tap[c])
                /\ Len(tap[c]) + 1 \notin DOMAIN tap[c]
                /\ DOMAIN tap'[c] = DOMAIN tap[c] \cup {Len(tap[c]) + 1}
                /\ \A m \in DOMAIN tap[c] : tap'[c][m] = tap[c][m]
                /\ tap'[c][Len(tap[c]) + 1] = p
<1>1. \A c \in RawClients : tap[c] \in Seq(Packets)
  BY DEF RawUdpTypes
<1>2. tap' = [c \in RawClients |-> IF Taps(c) THEN Append(tap[c], p) ELSE tap[c]]
  BY DEF Passes
<1>3. \A c \in RawClients :
        /\ Append(tap[c], p) \in Seq(Packets)
        /\ Len(tap[c]) \in Nat /\ DOMAIN tap[c] = 1 .. Len(tap[c])
        /\ Len(tap[c]) + 1 \notin DOMAIN tap[c]
        /\ DOMAIN Append(tap[c], p) = DOMAIN tap[c] \cup {Len(tap[c]) + 1}
        /\ \A m \in DOMAIN tap[c] : Append(tap[c], p)[m] = tap[c][m]
        /\ Append(tap[c], p)[Len(tap[c]) + 1] = p
  BY <1>1, AppendFacts
<1> QED
  BY <1>1, <1>2, <1>3

LEMMA OpenRawStep ==
    ASSUME RawUdpInv, NEW c \in RawClients, OpenRaw(c) \/ SendRawFails(c)
    PROVE  RawUdpInv'
<1>1. /\ UNCHANGED <<layer, tap, modifier, inbox, shownOf, answered, dropped, kills>>
      /\ rawAt[c] \in {"start", "send"}
      /\ Len(answered) \in Nat
  BY LenProperties DEF OpenRaw, SendRawFails, RawUdpInv, RawUdpTypes
<1>2. PICK place \in {"send", "failed"} : rawAt' = [rawAt EXCEPT ![c] = place]
  BY DEF OpenRaw, SendRawFails
<1>3. PICK n \in Nat : /\ openedAt' = [openedAt EXCEPT ![c] = n]
                       /\ place = "send" => rawAt[c] = "start" /\ n = Len(answered)
                       /\ n <= Len(answered)
  <2>1. CASE OpenRaw(c)
    <3>1. rawAt[c] = "start" /\ openedAt' = [openedAt EXCEPT ![c] = Len(answered)]
      BY <2>1 DEF OpenRaw
    <3>2. Len(answered) <= Len(answered)
      BY <1>1
    <3> QED
      BY <1>1, <3>1, <3>2
  <2>2. CASE SendRawFails(c)
    <3>1. openedAt' = [openedAt EXCEPT ![c] = openedAt[c]] /\ openedAt[c] \in Nat
      BY <2>2 DEF SendRawFails, RawUdpInv, RawUdpTypes
    <3>2. place = "failed"
      BY <1>2, <2>2 DEF SendRawFails, RawUdpInv, RawUdpTypes
    <3> QED
      BY <3>1, <3>2 DEF RawUdpInv, TapInv, TapOk
  <2> QED
    BY <2>1, <2>2
<1>4. /\ rawAt'[c] = place /\ openedAt'[c] = n
      /\ \A d \in RawClients : d # c => rawAt'[d] = rawAt[d] /\ openedAt'[d] = openedAt[d]
  BY <1>2, <1>3 DEF RawUdpInv, RawUdpTypes
<1>5. RawUdpTypes'
  BY <1>1, <1>2, <1>3 DEF RawUdpInv, RawUdpTypes
<1>6. \A d \in RawClients : d # c => (Taps(d)' <=> Taps(d))
  BY <1>1, <1>4 DEF Taps
<1>7. place = "send" => tap[c] = << >> /\ DOMAIN tap[c] = {}
  BY <1>3 DEF RawUdpInv, TapInv, TapOk
<1>8. TapInv'
  <2> SUFFICES ASSUME NEW d \in RawClients
               PROVE  TapOk(d)'
    BY DEF TapInv
  <2>1. CASE d = c
    BY <1>1, <1>3, <1>4, <1>7, <2>1 DEF Taps, TapOk
  <2>2. CASE d # c
    BY <1>1, <1>4, <1>6, <2>2 DEF RawUdpInv, TapInv, TapOk, IsAnswer, IsFirst
  <2> QED
    BY <2>1, <2>2
<1> QED
  BY <1>5, <1>8 DEF RawUdpInv

\* A packet of c is on its way: everybody's socket gets it, and it is no answer.
LEMMA SendRawStep ==
    ASSUME RawUdpInv, NEW c \in RawClients,
           SendFromUdp(c) \/ SendFromIp(c) \/ SendFromEth(c)
    PROVE  RawUdpInv'
<1> DEFINE p == [from |-> "client", of |-> c]
<1>1. /\ UNCHANGED <<layer, modifier, shownOf, answered, openedAt, kills>>
      /\ rawAt[c] = "send" /\ rawAt' = [rawAt EXCEPT ![c] = "receive"]
      /\ p \in Packets /\ p.from = "client" /\ Passes(p)
      /\ Arrives(c) \/ Vanishes(c)
  BY DEF SendFromUdp, SendFromIp, SendFromEth, Sends, Packets
<1> HIDE DEF p
<1>2. /\ tap' \in [RawClients -> Seq(Packets)]
      /\ \A d \in RawClients : ~ Taps(d) => tap'[d] = tap[d]
      /\ \A d \in RawClients : Taps(d) =>
           /\ Len(tap[d]) \in Nat /\ DOMAIN tap[d] = 1 .. Len(tap[d])
           /\ Len(tap[d]) + 1 \notin DOMAIN tap[d]
           /\ DOMAIN tap'[d] = DOMAIN tap[d] \cup {Len(tap[d]) + 1}
           /\ \A m \in DOMAIN tap[d] : tap'[d][m] = tap[d][m]
           /\ tap'[d][Len(tap[d]) + 1] = p
  BY <1>1, PassesFacts DEF RawUdpInv
<1>3. /\ inbox' \in Seq(RawClients)
      /\ \A d \in RawClients : d \in dropped \/ d \in Range(inbox) \/ d = c
                              => d \in dropped' \/ d \in Range(inbox')
  <2>1. inbox \in Seq(RawClients)
    BY DEF RawUdpInv, RawUdpTypes
  <2>2. CASE Arrives(c)
    BY <2>1, <2>2, QueueAppend DEF Arrives
  <2>3. CASE Vanishes(c)
    BY <2>1, <2>3 DEF Vanishes
  <2> QED
    BY <1>1, <2>2, <2>3
<1>4. rawAt'[c] = "receive" /\ \A d \in RawClients : d # c => rawAt'[d] = rawAt[d]
  BY <1>1 DEF RawUdpInv, RawUdpTypes
<1>5. RawUdpTypes'
  BY <1>1, <1>2, <1>3 DEF RawUdpInv, RawUdpTypes
<1>6. TapInv'
  <2> SUFFICES ASSUME NEW d \in RawClients
               PROVE  TapOk(d)'
    BY DEF TapInv
  <2>1. TapOk(d)
    BY DEF RawUdpInv, TapInv
  <2>2. Taps(d)' <=> Taps(d)
    BY <1>1, <1>4 DEF Taps
  <2>3. CASE Taps(d)
    <3> PICK n \in Nat : n = Len(tap[d]) + 1
      BY <1>2, <2>3
    <3>1. DOMAIN tap'[d] = DOMAIN tap[d] \cup {n} /\ ~ IsAnswer(d, n)'
      BY <1>1, <1>2, <2>3 DEF IsAnswer
    <3>2. \A k \in DOMAIN tap[d] : IsAnswer(d, k)' <=> IsAnswer(d, k)
      BY <1>2, <2>3 DEF IsAnswer
    <3>3. \A k \in DOMAIN tap'[d] : IsAnswer(d, k)' => k \in DOMAIN tap[d] /\ IsAnswer(d, k)
      BY <3>1, <3>2
    <3>4. \A k \in DOMAIN tap'[d] : IsFirst(d, k)' => k \in DOMAIN tap[d] /\ IsFirst(d, k)
      BY <1>2, <2>3, <3>2, <3>3 DEF IsFirst
    <3>5. /\ openedAt[d] < Len(answered) => \E k \in DOMAIN tap'[d] : IsAnswer(d, k)'
          /\ \A k \in DOMAIN tap'[d] : IsAnswer(d, k)' => openedAt[d] < Len(answered)
          /\ \A k \in DOMAIN tap'[d] : IsFirst(d, k)' => tap'[d][k].of = answered[openedAt[d] + 1]
      BY <1>2, <2>1, <2>3, <3>2, <3>3, <3>4 DEF TapOk
    <3> QED
      BY <1>1, <1>3, <1>4, <2>1, <2>3, <3>5 DEF TapOk, Taps
  <2>4. CASE ~ Taps(d)
    <3>1. tap'[d] = tap[d]
      BY <1>2, <2>4
    <3> QED
      BY <1>1, <1>3, <1>4, <2>1, <2>2, <2>4, <3>1 DEF TapOk
  <2> QED
    BY <2>3, <2>4
<1> QED
  BY <1>5, <1>6 DEF RawUdpInv

\* c looks at the next packet, and is done when that is an answer.
LEMMA ReceiveRawStep ==
    ASSUME RawUdpInv, NEW c \in RawClients, ReceiveRaw(c)
    PROVE  RawUdpInv'
<1>1. /\ UNCHANGED <<layer, modifier, inbox, answered, openedAt, dropped, kills>>
      /\ rawAt[c] = "receive" /\ tap[c] # << >> /\ tap[c] \in Seq(Packets)
      /\ tap' = [tap EXCEPT ![c] = Tail(tap[c])]
  BY DEF ReceiveRaw, RawUdpInv, RawUdpTypes
<1>2. /\ 1 \in DOMAIN tap[c] /\ Head(tap[c]) = tap[c][1] /\ Head(tap[c]) \in Packets
      /\ Tail(tap[c]) \in Seq(Packets)
      /\ DOMAIN Tail(tap[c]) = 1 .. Len(tap[c]) - 1
      /\ DOMAIN tap[c] = 1 .. Len(tap[c]) /\ Len(tap[c]) \in Nat
      /\ \A m \in DOMAIN Tail(tap[c]) : Tail(tap[c])[m] = tap[c][m + 1]
  BY <1>1, TailFacts, LenProperties
<1>3. tap'[c] = Tail(tap[c]) /\ \A d \in RawClients : d # c => tap'[d] = tap[d]
  BY <1>1 DEF RawUdpInv, RawUdpTypes
<1>4. /\ \A k \in DOMAIN tap'[c] : k + 1 \in DOMAIN tap[c] /\ (IsAnswer(c, k)' <=> IsAnswer(c, k + 1))
      /\ \A k \in DOMAIN tap[c] : k # 1 => k - 1 \in DOMAIN tap'[c] /\ (k - 1) + 1 = k
      /\ DOMAIN tap'[c] \subseteq Nat
  BY <1>2, <1>3 DEF IsAnswer
<1>5. TapOk(c) /\ \A d \in RawClients : TapOk(d)
  BY DEF RawUdpInv, TapInv
<1>6. CASE IsAnswer(c, 1)
  <2>1. /\ rawAt' = [rawAt EXCEPT ![c] = "done"]
        /\ shownOf' = [shownOf EXCEPT ![c] = tap[c][1].of]
    BY <1>2, <1>6 DEF ReceiveRaw, IsAnswer
  <2>2. tap[c][1].of \in RawClients
    BY <1>2 DEF Packets
  <2>3. /\ rawAt'[c] = "done" /\ shownOf'[c] = tap[c][1].of
        /\ \A d \in RawClients : d # c => rawAt'[d] = rawAt[d] /\ shownOf'[d] = shownOf[d]
    BY <2>1, <2>2 DEF RawUdpInv, RawUdpTypes
  <2>4. RawUdpTypes'
    BY <1>1, <1>2, <2>1, <2>2 DEF RawUdpInv, RawUdpTypes
  <2>5. TapOk(c)'
    <3>1. IsFirst(c, 1)
      BY <1>2, <1>6 DEF IsFirst
    <3>2. layer[c] = "eth" => /\ openedAt[c] < Len(answered)
                              /\ tap[c][1].of = answered[openedAt[c] + 1]
      BY <1>1, <1>2, <1>5, <1>6, <3>1 DEF TapOk, Taps
    <3> QED
      BY <1>1, <1>5, <2>3, <3>2 DEF TapOk, Taps
  <2>6. \A d \in RawClients : d # c => TapOk(d)'
    BY <1>1, <1>3, <1>5, <2>3 DEF TapOk, Taps, IsFirst, IsAnswer
  <2> QED
    BY <2>4, <2>5, <2>6 DEF RawUdpInv, TapInv
<1>7. CASE ~ IsAnswer(c, 1)
  <2>1. UNCHANGED <<rawAt, shownOf>>
    BY <1>2, <1>7 DEF ReceiveRaw, IsAnswer
  <2>2. RawUdpTypes'
    BY <1>1, <1>2, <2>1 DEF RawUdpInv, RawUdpTypes
  <2>3. TapOk(c)'
    <3>1. Taps(c)' <=> Taps(c)
      BY <1>1, <2>1 DEF Taps
    <3>2. \A k \in DOMAIN tap[c] : IsAnswer(c, k) => k # 1 /\ IsAnswer(c, k - 1)'
      BY <1>4, <1>7
    <3>3. \A k \in DOMAIN tap'[c] : IsFirst(c, k)' => IsFirst(c, k + 1)
      <4> SUFFICES ASSUME NEW k \in DOMAIN tap'[c], IsFirst(c, k)',
                          NEW j \in DOMAIN tap[c], IsAnswer(c, j)
                   PROVE  k + 1 <= j
        BY <1>4 DEF IsFirst
      <4>1. j # 1 /\ j - 1 \in DOMAIN tap'[c] /\ IsAnswer(c, j - 1)'
        BY <1>4, <3>2
      <4>2. k <= j - 1
        BY <4>1 DEF IsFirst
      <4> QED
        BY <1>2, <1>4, <4>2
    <3>4. \A k \in DOMAIN tap'[c] : tap'[c][k] = tap[c][k + 1]
      BY <1>2, <1>3
    <3>5. Taps(c) =>
           /\ openedAt[c] < Len(answered) => \E k \in DOMAIN tap'[c] : IsAnswer(c, k)'
           /\ \A k \in DOMAIN tap'[c] : IsAnswer(c, k)' => openedAt[c] < Len(answered)
           /\ \A k \in DOMAIN tap'[c] : IsFirst(c, k)' => tap'[c][k].of = answered[openedAt[c] + 1]
      BY <1>4, <1>5, <3>2, <3>3, <3>4 DEF TapOk
    <3> QED
      BY <1>1, <1>5, <2>1, <3>1, <3>5 DEF TapOk
  <2>4. \A d \in RawClients : d # c => TapOk(d)'
    BY <1>1, <1>3, <1>5, <2>1 DEF TapOk, Taps, IsFirst, IsAnswer
  <2> QED
    BY <2>2, <2>3, <2>4 DEF RawUdpInv, TapInv
<1> QED
  BY <1>6, <1>7

\* The server answers whose datagram is next, and all packet sockets get a copy.
LEMMA ModifyStep ==
    ASSUME RawUdpInv, ModifyAndAnswer
    PROVE  RawUdpInv'
<1>1. /\ UNCHANGED <<layer, rawAt, modifier, shownOf, openedAt, dropped, kills>>
      /\ inbox # << >> /\ inbox' = Tail(inbox) /\ answered' = Append(answered, Head(inbox))
      /\ inbox \in Seq(RawClients) /\ answered \in Seq(RawClients)
  BY DEF ModifyAndAnswer, RawUdpInv, RawUdpTypes
<1>2. PICK a \in RawClients : a = Head(inbox)
  BY <1>1, TailFacts
<1> DEFINE p == [from |-> "server", of |-> a]
<1>3. p \in Packets /\ p.from = "server" /\ p.of = a /\ Passes(p)
  BY <1>2 DEF ModifyAndAnswer, Packets
<1> HIDE DEF p
<1>4. /\ tap' \in [RawClients -> Seq(Packets)]
      /\ \A d \in RawClients : ~ Taps(d) => tap'[d] = tap[d]
      /\ \A d \in RawClients : Taps(d) =>
           /\ Len(tap[d]) \in Nat /\ DOMAIN tap[d] = 1 .. Len(tap[d])
           /\ Len(tap[d]) + 1 \notin DOMAIN tap[d]
           /\ DOMAIN tap'[d] = DOMAIN tap[d] \cup {Len(tap[d]) + 1}
           /\ \A m \in DOMAIN tap[d] : tap'[d][m] = tap[d][m]
           /\ tap'[d][Len(tap[d]) + 1] = p
  BY <1>3, PassesFacts DEF RawUdpInv
<1>5. /\ Len(answered) \in Nat /\ Len(answered') = Len(answered) + 1
      /\ answered' \in Seq(RawClients)
      /\ \A m \in 1 .. Len(answered) : answered'[m] = answered[m]
      /\ answered'[Len(answered) + 1] = a
  BY <1>1, <1>2, AppendProperties, LenProperties
<1>6. /\ inbox' \in Seq(RawClients)
  BY <1>1, TailFacts
<1>7. RawUdpTypes'
  BY <1>1, <1>4, <1>5, <1>6 DEF RawUdpInv, RawUdpTypes
<1>8. TapInv'
  <2> SUFFICES ASSUME NEW d \in RawClients
               PROVE  TapOk(d)'
    BY DEF TapInv
  <2>1. TapOk(d) /\ openedAt[d] \in Nat
    BY DEF RawUdpInv, TapInv, RawUdpTypes
  <2>2. (Taps(d)' <=> Taps(d)) /\ openedAt'[d] < Len(answered')
    BY <1>1, <1>5, <2>1 DEF Taps, TapOk
  <2>3. openedAt[d] < Len(answered) => answered'[openedAt[d] + 1] = answered[openedAt[d] + 1]
    BY <1>5, <2>1
  <2>4. ASSUME Taps(d)
        PROVE  /\ \E k \in DOMAIN tap'[d] : IsAnswer(d, k)'
               /\ \A k \in DOMAIN tap'[d] : IsFirst(d, k)' =>
                    tap'[d][k].of = answered'[openedAt'[d] + 1]
    <3> PICK n \in Nat : n = Len(tap[d]) + 1
      BY <1>4, <2>4
    <3>1. IsAnswer(d, n)' /\ n \in DOMAIN tap'[d]
      BY <1>3, <1>4, <2>4 DEF IsAnswer
    <3>2. \A k \in DOMAIN tap[d] : k \in DOMAIN tap'[d] /\ (IsAnswer(d, k)' <=> IsAnswer(d, k))
      BY <1>4, <2>4 DEF IsAnswer
    <3>3. CASE openedAt[d] < Len(answered)
      <4> SUFFICES ASSUME NEW k \in DOMAIN tap'[d], IsFirst(d, k)'
                   PROVE  tap'[d][k].of = answered'[openedAt'[d] + 1]
        BY <3>1
      <4>1. PICK j \in DOMAIN tap[d] : IsAnswer(d, j)
        BY <2>1, <2>4, <3>3 DEF TapOk
      <4>2. k <= j /\ k \in DOMAIN tap[d]
        BY <1>4, <2>4, <3>2, <4>1 DEF IsFirst
      <4>3. IsFirst(d, k)
        BY <3>2, <4>2 DEF IsFirst
      <4>4. tap[d][k].of = answered[openedAt[d] + 1]
        BY <2>1, <2>4, <4>2, <4>3 DEF TapOk
      <4> QED
        BY <1>1, <1>4, <2>3, <2>4, <3>3, <4>2, <4>4
    <3>4. CASE ~ (openedAt[d] < Len(answered))
      <4> SUFFICES ASSUME NEW k \in DOMAIN tap'[d], IsFirst(d, k)'
                   PROVE  tap'[d][k].of = answered'[openedAt'[d] + 1]
        BY <3>1
      <4>1. openedAt[d] = Len(answered)
        BY <1>5, <2>1, <3>4 DEF TapOk
      <4>2. k \notin DOMAIN tap[d]
        BY <2>1, <2>4, <3>2, <3>4 DEF TapOk, IsFirst
      <4>3. tap'[d][k] = p
        BY <1>4, <2>4, <4>2
      <4> QED
        BY <1>1, <1>3, <1>5, <4>1, <4>3
    <3> QED
      BY <3>3, <3>4
  <2>5. rawAt[d] = "start" => tap'[d] = << >>
    BY <1>4, <2>1 DEF Taps, TapOk
  <2> QED
    BY <1>1, <1>5, <2>1, <2>2, <2>3, <2>4, <2>5 DEF TapOk
<1> QED
  BY <1>7, <1>8 DEF RawUdpInv

LEMMA ModifierStep ==
    ASSUME RawUdpInv, StartModifier \/ KillModifier
    PROVE  RawUdpInv'
<1>1. UNCHANGED <<layer, rawAt, tap, shownOf, answered, openedAt>> /\ modifier' \in BOOLEAN
  BY DEF StartModifier, KillModifier
<1>2. /\ inbox' \in Seq(RawClients)
      /\ \A d \in RawClients : d \in dropped \/ d \in Range(inbox)
                              => d \in dropped' \/ d \in Range(inbox')
  <2>1. inbox \in Seq(RawClients)
    BY DEF RawUdpInv, RawUdpTypes
  <2>2. CASE StartModifier
    BY <2>1, <2>2 DEF StartModifier
  <2>3. CASE KillModifier
    <3>1. inbox' = << >> /\ dropped' = dropped \cup Range(inbox)
      BY <2>3 DEF KillModifier
    <3> QED
      BY <3>1
  <2> QED
    BY <2>2, <2>3
<1>3. RawUdpTypes'
  BY <1>1, <1>2 DEF RawUdpInv, RawUdpTypes
<1>4. TapInv'
  BY <1>1, <1>2 DEF RawUdpInv, TapInv, TapOk, Taps, IsFirst, IsAnswer
<1> QED
  BY <1>3, <1>4 DEF RawUdpInv

\* The client with the packet socket prints the first answer the server has given to
\* anyone since the socket was made, takes no question for an answer, and waits in vain
\* only when its question was dropped (raw_client_eth_ip_udp.c:154-178).
THEOREM FirstAnswerTheorem == RawUdpSpec => []FirstAnswerIsTaken
<1>1. RawUdpInit => RawUdpInv
  <2> SUFFICES ASSUME RawUdpInit PROVE RawUdpInv
    OBVIOUS
  <2>1. /\ tap = [c \in RawClients |-> << >>] /\ << >> \in Seq(Packets)
        /\ Len(answered) = 0
    BY EmptySeq DEF RawUdpInit
  <2>2. RawUdpTypes
    <3>1. /\ tap \in [RawClients -> Seq(Packets)] /\ inbox \in Seq(RawClients)
          /\ answered \in Seq(RawClients)
      BY <2>1 DEF RawUdpInit
    <3>2. /\ layer \in [RawClients -> Layers] /\ modifier \in BOOLEAN
          /\ rawAt \in [RawClients -> {"start", "send", "receive", "done", "failed"}]
          /\ shownOf \in [RawClients -> RawClients \cup {NoAnswerYet}]
          /\ openedAt \in [RawClients -> Nat]
      BY DEF RawUdpInit
    <3> QED
      BY <3>1, <3>2 DEF RawUdpTypes
  <2>3. \A c \in RawClients : rawAt[c] = "start" /\ tap[c] = << >> /\ openedAt[c] = 0
    BY <2>1 DEF RawUdpInit
  <2>4. TapInv
    BY <2>1, <2>3 DEF TapInv, TapOk, Taps
  <2> QED
    BY <2>2, <2>4 DEF RawUdpInv
<1>2. RawUdpInv /\ [RawUdpNext]_rawUdpVars => RawUdpInv'
  <2> SUFFICES ASSUME RawUdpInv, [RawUdpNext]_rawUdpVars PROVE RawUdpInv'
    OBVIOUS
  <2>1. CASE UNCHANGED rawUdpVars
    BY <2>1 DEF rawUdpVars, RawUdpInv, RawUdpTypes, TapInv, TapOk, Taps, IsFirst, IsAnswer
  <2>2. CASE RawUdpNext
    BY <2>2, OpenRawStep, SendRawStep, ReceiveRawStep, ModifyStep, ModifierStep DEF RawUdpNext
  <2> QED
    BY <2>1, <2>2
<1>3. RawUdpInv => FirstAnswerIsTaken
  <2> SUFFICES ASSUME RawUdpInv, NEW c \in RawClients, layer[c] = "eth"
               PROVE  /\ rawAt[c] = "done" =>
                           /\ openedAt[c] < Len(answered)
                           /\ shownOf[c] = answered[openedAt[c] + 1]
                      /\ rawAt[c] = "receive" /\ tap[c] = << >> =>
                           /\ Len(answered) = openedAt[c]
                           /\ c \in dropped \/ c \in Range(inbox)
    BY DEF FirstAnswerIsTaken
  <2>1. TapOk(c) /\ openedAt[c] \in Nat /\ Len(answered) \in Nat
    BY LenProperties DEF RawUdpInv, TapInv, RawUdpTypes
  <2>2. ASSUME rawAt[c] = "receive", tap[c] = << >>
        PROVE  ~ (openedAt[c] < Len(answered))
    <3>1. DOMAIN tap[c] = {} /\ Taps(c)
      BY <2>2 DEF Taps
    <3> QED
      BY <2>1, <3>1 DEF TapOk
  <2> QED
    BY <2>1, <2>2 DEF TapOk
<1> QED
  BY <1>1, <1>2, <1>3, PTL DEF RawUdpSpec

-----------------------------------------------------------------------------
(* Checksum: for every packet of any length and any bytes it is the one the   *)
(* receiver accepts.  The heart is arithmetic: two additions fold any sum an  *)
(* int can hold, and folding keeps the residue modulo 2^16 - 1.  The solver   *)
(* divides by numerals only, so the lemmas say 65536 where the model says     *)
(* Word.                                                                      *)

\* The sums of at most 32767 words.
Sums == {s \in Nat : s <= 32767 * 65535}

\* Division with remainder.
LEMMA HighAndLow ==
    ASSUME NEW s \in Nat
    PROVE  /\ s \div 65536 \in Nat
           /\ s % 65536 \in Nat /\ s % 65536 < 65536
           /\ s = 65536 * (s \div 65536) + (s % 65536)
<1>1. s \div 65536 \in Nat
  BY SMT
<1>2. s % 65536 \in Nat
  BY SMT
<1>3. s % 65536 < 65536
  BY SMT
<1>4. s = 65536 * (s \div 65536) + (s % 65536)
  BY SMT
<1> QED
  BY <1>1, <1>2, <1>3, <1>4

\* A sum below 2^16 has no carry, and one below 2^17 the carry 1.
LEMMA NoCarry ==
    ASSUME NEW s \in Nat, s < 65536
    PROVE  s \div 65536 = 0 /\ s % 65536 = s
  BY SMT

LEMMA OneCarry ==
    ASSUME NEW s \in Nat, 65536 <= s, s < 2 * 65536
    PROVE  s \div 65536 = 1 /\ s % 65536 = s - 65536
<1>1. s \div 65536 = 1
  BY SMT
<1>2. s % 65536 = s - 65536
  BY SMT
<1> QED
  BY <1>1, <1>2

LEMMA Multiple == ASSUME NEW k \in Nat PROVE (65535 * k) % 65535 = 0
  BY SMT

\* Two additions fold every sum of a packet: what is left of the sum, complemented,
\* makes it up to a multiple of 2^16 - 1.  One addition does not.
LEMMA FoldedSum ==
    ASSUME NEW s \in Sums
    PROVE  LET complement == 65535 - (Folded(s) % 65536)
           IN  /\ complement \in Nat /\ complement < 65536
               /\ (s + complement) % 65535 = 0
<1> DEFINE q == s \div 65536
           r == s % 65536
           once == q + r
<1>1. q \in Nat /\ r \in Nat /\ r < 65536 /\ s = 65536 * q + r
  BY HighAndLow DEF Sums
<1>2. s <= 32767 * 65535
  BY DEF Sums
<1>3. Folded(s) = once + (once \div 65536)
  BY DEF Folded, Word
<1> HIDE DEF q, r
<1>4. q < 32767
  BY <1>1, <1>2
<1>5. once \in Nat /\ once < 2 * 65536 - 1 /\ s = 65535 * q + once
  BY <1>1, <1>4
<1> HIDE DEF once
<1>6. CASE once < 65536
  <2>1. Folded(s) = once /\ Folded(s) % 65536 = once
    BY <1>3, <1>5, <1>6, NoCarry
  <2>2. s + (65535 - once) = 65535 * (q + 1) /\ q + 1 \in Nat
    BY <1>1, <1>5
  <2>3. (65535 * (q + 1)) % 65535 = 0
    BY <2>2, Multiple
  <2> QED
    BY <2>1, <2>2, <2>3, <1>5, <1>6
<1>7. CASE once >= 65536
  <2>1. Folded(s) = once + 1
    BY <1>3, <1>5, <1>7, OneCarry
  <2>2. once + 1 \in Nat /\ 65536 <= once + 1 /\ once + 1 < 2 * 65536
    BY <1>5, <1>7
  <2> DEFINE twice == Folded(s)
  <2>3. twice = once + 1
    BY <2>1
  <2> HIDE DEF twice
  <2>6. twice \in Nat /\ 65536 <= twice /\ twice < 2 * 65536
    BY <2>2, <2>3
  <2>7. twice % 65536 = twice - 65536
    BY <2>6, OneCarry
  <2>4. s + (65535 - (twice - 65536)) = 65535 * (q + 2) /\ q + 2 \in Nat
    BY <1>1, <1>5, <2>3, <2>6
  <2>5. (65535 * (q + 2)) % 65535 = 0
    BY <2>4, Multiple
  <2> QED
    BY <2>4, <2>5, <2>6, <2>7 DEF twice
<1> QED
  BY <1>5, <1>6, <1>7

-----------------------------------------------------------------------------

\* The sum is bounded by the words taken so far, so it never overflows; what is
\* folded at last is the sum that was complete.
SumInv ==
    /\ packet \in Seq(Bytes) /\ Len(packet) <= 65534
    /\ nleft \in Nat /\ nleft <= Len(packet)
    /\ summing \in {"loop", "fold", "done"}
    /\ summing = "loop" => sum \in Nat /\ 2 * sum <= 65535 * (Len(packet) - nleft)
    /\ summing = "fold" => sum \in Sums /\ total = sum
    /\ summing = "done" => ReceiverAccepts

LEMMA InitSum == ChecksumInit => SumInv
<1> SUFFICES ASSUME ChecksumInit PROVE SumInv
  OBVIOUS
<1>1. PICK n \in 0 .. MaxLength : packet \in [1 .. n -> Bytes]
  BY DEF ChecksumInit
<1>2. MaxLength \in Nat /\ MaxLength <= 65534
  BY ChecksumAssumption DEF ChecksumAssumption
<1>3. n \in Nat /\ n <= 65534
  BY <1>2
<1>4. packet \in Seq(Bytes) /\ Len(packet) = n
  BY <1>1, <1>3
<1> QED
  BY <1>3, <1>4 DEF ChecksumInit, SumInv

\* A byte the loop reads is one of the packet.
LEMMA ByteLeft ==
    ASSUME SumInv, NEW k \in {1, 2}, k <= nleft
    PROVE  Left(k) \in Nat /\ Left(k) <= 255
<1>1. Len(packet) - nleft + k \in 1 .. Len(packet)
  BY DEF SumInv
<1>2. Left(k) \in Bytes
  BY <1>1 DEF Left, SumInv
<1>3. Bytes \subseteq 0 .. 255
  BY ChecksumAssumption DEF ChecksumAssumption
<1>4. Left(k) \in 0 .. 255
  BY <1>2, <1>3
<1> QED
  BY <1>4

LEMMA NextSum == SumInv /\ [ChecksumNext]_checksumVars => SumInv'
<1> SUFFICES ASSUME SumInv, [ChecksumNext]_checksumVars PROVE SumInv'
  OBVIOUS
<1>1. CASE AddWord
  <2> DEFINE low == Left(1)
             high == Left(2)
  <2>1. /\ summing = "loop" /\ summing' = "loop" /\ packet' = packet
        /\ nleft > 1 /\ nleft' = nleft - 2 /\ sum' = sum + low + 256 * high
    BY <1>1 DEF AddWord
  <2>2. low \in Nat /\ low <= 255 /\ high \in Nat /\ high <= 255
    BY <2>1, ByteLeft DEF SumInv
  <2> HIDE DEF low, high
  <2>3. nleft' \in Nat /\ nleft' <= Len(packet)
    BY <2>1 DEF SumInv
  <2>4. sum' \in Nat /\ 2 * sum' <= 65535 * (Len(packet) - nleft')
    BY <2>1, <2>2 DEF SumInv
  <2> QED
    BY <2>1, <2>3, <2>4 DEF SumInv
<1>2. CASE AddOddByte
  <2> DEFINE last == IF nleft = 1 THEN Left(1) ELSE 0
  <2>1. /\ summing = "loop" /\ summing' = "fold" /\ packet' = packet
        /\ nleft' = nleft /\ total' = sum'
        /\ sum' = IF nleft = 1 THEN sum + Left(1) ELSE sum
    BY <1>2 DEF AddOddByte
  <2>2. last \in Nat /\ last <= 255 * nleft
    BY <2>1, ByteLeft DEF SumInv
  <2>3. sum \in Nat /\ 2 * sum <= 65535 * (Len(packet) - nleft)
    BY <2>1 DEF SumInv
  <2>4. sum' = sum + last
    BY <2>1, <2>3
  <2> HIDE DEF last
  <2>5. sum' \in Nat /\ sum' <= 32767 * 65535
    BY <2>2, <2>3, <2>4 DEF SumInv
  <2> QED
    BY <2>1, <2>5 DEF SumInv, Sums
<1>3. CASE FoldSum
  <2>1. sum \in Sums /\ total = sum
    BY <1>3 DEF FoldSum, SumInv
  <2>2. answer' = 65535 - (Folded(sum) % 65536) /\ total' = sum /\ summing' = "done"
    BY <1>3, <2>1 DEF FoldSum, Word
  <2>3. answer' \in Nat /\ answer' < 65536 /\ (total' + answer') % 65535 = 0
    BY <2>1, <2>2, FoldedSum
  <2>4. ReceiverAccepts'
    BY <2>3 DEF ReceiverAccepts, Word
  <2> QED
    BY <1>3, <2>2, <2>4 DEF FoldSum, SumInv
<1>4. CASE UNCHANGED checksumVars
  BY <1>4 DEF checksumVars, SumInv, ReceiverAccepts
<1> QED
  BY <1>1, <1>2, <1>3, <1>4 DEF ChecksumNext

\* The checksum of every packet passes the receiver's test (raw_client_udp.c:21-41).
THEOREM ReceiverAlwaysAccepts == ChecksumSpec => []ReceiverAccepts
<1>1. SumInv => ReceiverAccepts
  BY DEF SumInv, ReceiverAccepts
<1> QED
  BY InitSum, NextSum, <1>1, PTL DEF ChecksumSpec
=============================================================================
