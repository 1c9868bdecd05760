---------------------------- MODULE HandshakesProofs ----------------------------
(***************************************************************************)
(* Proofs about ListBook for a list of any length, and about Handshakes for   *)
(* any number of servers, clients and kills: what a server that ends has      *)
(* heard, and that nobody waits in vain when nothing moves any more.          *)
(***************************************************************************)
EXTENDS ListBook, Handshakes, FiniteSetTheorems, SequenceTheorems, TLAPS

-----------------------------------------------------------------------------
(* Sequences, as in LabProgramsProofs.                                        *)

LEMMA TailFacts ==
    ASSUME NEW S, NEW q \in Seq(S), q # << >>
    PROVE  /\ 1 \in DOMAIN q /\ Head(q) = q[1] /\ Head(q) \in S
           /\ Tail(q) \in Seq(S)
           /\ DOMAIN Tail(q) = 1 .. Len(q) - 1
           /\ \A m \in DOMAIN Tail(q) : m + 1 \in DOMAIN q /\ m + 1 # 1 /\ Tail(q)[m] = q[m + 1]
           /\ q = << Head(q) >> \o Tail(q)
<1>1. Len(q) \in Nat \ {0} /\ DOMAIN q = 1 .. Len(q) /\ Head(q) = q[1]
  BY EmptySeq, LenProperties
<1>2. /\ Head(q) \in S /\ Tail(q) \in Seq(S) /\ Len(Tail(q)) = Len(q) - 1
      /\ \A m \in 1 .. Len(Tail(q)) : Tail(q)[m] = q[m + 1]
  BY HeadTailProperties
<1>3. DOMAIN Tail(q) = 1 .. Len(q) - 1
  BY <1>2, LenProperties
<1>4. \A m \in DOMAIN Tail(q) : m + 1 \in DOMAIN q /\ m + 1 # 1 /\ Tail(q)[m] = q[m + 1]
  BY <1>1, <1>2, <1>3
<1>5. q = << Head(q) >> \o Tail(q)
  <2> DEFINE o == << Head(q) >>
             r == o \o Tail(q)
  <2>1. o \in Seq(S) /\ Len(o) = 1 /\ o[1] = Head(q)
    BY <1>2
  <2>2. /\ r \in Seq(S) /\ Len(r) = Len(o) + Len(Tail(q))
        /\ \A m \in 1 .. Len(o) + Len(Tail(q)) : r[m] = IF m <= Len(o) THEN o[m] ELSE Tail(q)[m - Len(o)]
    BY <1>2, <2>1, ConcatProperties
  <2>3. Len(r) = Len(q)
    BY <1>1, <1>2, <2>1, <2>2
  <2>4. \A m \in 1 .. Len(r) : r[m] = q[m]
    <3> SUFFICES ASSUME NEW m \in 1 .. Len(r) PROVE r[m] = q[m]
      OBVIOUS
    <3>1. r[m] = IF m <= 1 THEN o[m] ELSE Tail(q)[m - 1]
      BY <2>1, <2>2
    <3>2. CASE m = 1
      BY <1>1, <2>1, <3>1, <3>2
    <3>3. CASE m # 1
      <4>1. m - 1 \in 1 .. Len(Tail(q)) /\ (m - 1) + 1 = m /\ ~(m <= 1)
        BY <1>1, <1>2, <2>3, <3>3
      <4> QED
        BY <1>2, <3>1, <4>1
    <3> QED
      BY <3>2, <3>3
  <2> HIDE DEF o, r
  <2>5. r = q
    BY <2>2, <2>3, <2>4, SeqEqual
  <2> QED
    BY <2>5 DEF r, o
<1> QED
  BY <1>1, <1>2, <1>3, <1>4, <1>5

LEMMA AppendFacts ==
    ASSUME NEW S, NEW q \in Seq(S), NEW e \in S
    PROVE  /\ Append(q, e) \in Seq(S)
           /\ Len(q) \in Nat /\ DOMAIN q = 1 .. Len(q) /\ Len(q) + 1 \notin DOMAIN q
           /\ DOMAIN Append(q, e) = DOMAIN q \cup {Len(q) + 1}
           /\ \A m \in DOMAIN q : Append(q, e)[m] = q[m]
           /\ Append(q, e)[Len(q) + 1] = e
           /\ Append(q, e) = q \o << e >>
<1>1. Len(q) \in Nat /\ DOMAIN q = 1 .. Len(q)
  BY LenProperties
<1>2. /\ Append(q, e) \in Seq(S) /\ Len(Append(q, e)) = Len(q) + 1
      /\ \A m \in 1 .. Len(q) : Append(q, e)[m] = q[m]
      /\ Append(q, e)[Len(q) + 1] = e
  BY AppendProperties
<1>3. DOMAIN Append(q, e) = 1 .. Len(q) + 1
  BY <1>2, LenProperties
<1>4. Append(q, e) = q \o << e >>
  BY AppendIsConcat
<1> QED
  BY <1>1, <1>2, <1>3, <1>4

\* A queue of different things, when another one is added.
LEMMA QueueAppend ==
    ASSUME NEW S, NEW q \in Seq(S), NEW e \in S
    PROVE  /\ Append(q, e) \in Seq(S) /\ Append(q, e) # << >>
           /\ Range(Append(q, e)) = Range(q) \cup {e}
           /\ IsInjective(q) /\ e \notin Range(q) => IsInjective(Append(q, e))
<1>1. /\ Append(q, e) \in Seq(S)
      /\ Len(q) \in Nat /\ DOMAIN q = 1 .. Len(q) /\ Len(q) + 1 \notin DOMAIN q
      /\ DOMAIN Append(q, e) = DOMAIN q \cup {Len(q) + 1}
      /\ \A m \in DOMAIN q : Append(q, e)[m] = q[m]
      /\ Append(q, e)[Len(q) + 1] = e
  BY AppendFacts
<1>2. Range(Append(q, e)) = Range(q) \cup {e}
  <2>1. Range(Append(q, e)) \subseteq Range(q) \cup {e}
    BY <1>1 DEF Range
  <2>2. Range(q) \subseteq Range(Append(q, e))
    BY <1>1 DEF Range
  <2>3. e \in Range(Append(q, e))
    BY <1>1 DEF Range
  <2> QED
    BY <2>1, <2>2, <2>3
<1>3. IsInjective(q) /\ e \notin Range(q) => IsInjective(Append(q, e))
  BY <1>1 DEF IsInjective, Range
<1>4. Append(q, e) # << >>
  BY AppendProperties, EmptySeq
<1> QED
  BY <1>1, <1>2, <1>3, <1>4

LEMMA AppendRange ==
    ASSUME NEW S, NEW q \in Seq(S), NEW e \in S
    PROVE  /\ e \in Range(Append(q, e)) /\ Append(q, e) # << >>
           /\ \A x \in Range(q) : x \in Range(Append(q, e))
<1>1. /\ DOMAIN Append(q, e) = DOMAIN q \cup {Len(q) + 1}
      /\ \A m \in DOMAIN q : Append(q, e)[m] = q[m]
      /\ Append(q, e)[Len(q) + 1] = e
  BY AppendFacts
<1>2. Append(q, e) # << >>
  BY AppendProperties
<1> QED
  BY <1>1, <1>2 DEF Range

-----------------------------------------------------------------------------
(* ListBook: the links of the nodes and the order of the book.              *)

LEMMA RemoveAtFacts ==
    ASSUME NEW S, NEW q \in Seq(S), NEW k \in DOMAIN q
    PROVE  /\ RemoveAt(q, k) \in Seq(S)
           /\ DOMAIN RemoveAt(q, k) = 1 .. Len(q) - 1
           /\ \A j \in DOMAIN RemoveAt(q, k) :
                RemoveAt(q, k)[j] = IF j < k THEN q[j] ELSE q[j + 1]
<1>1. Len(q) \in Nat /\ DOMAIN q = 1 .. Len(q) /\ k \in 1 .. Len(q)
  BY LenProperties
<1> DEFINE u == SubSeq(q, 1, k - 1)
           v == SubSeq(q, k + 1, Len(q))
<1>2. \A m \in DOMAIN q : q[m] \in S
  BY ElementOfSeq, <1>1
<1>3. /\ u \in Seq(S) /\ Len(u) = k - 1
      /\ \A m \in 1 .. k - 1 : u[m] = q[m]
  <2>1. 1 \in Int /\ k - 1 \in Int /\ \A m \in 1 .. k - 1 : q[m] \in S
    BY <1>1, <1>2
  <2>2. /\ u \in Seq(S) /\ Len(u) = IF 1 <= k - 1 THEN k - 1 - 1 + 1 ELSE 0
        /\ \A m \in 1 .. (k - 1) - 1 + 1 : u[m] = q[1 + m - 1]
    BY <2>1, SubSeqProperties
  <2> QED
    BY <2>2, <1>1
<1>4. /\ v \in Seq(S) /\ Len(v) = Len(q) - k
      /\ \A m \in 1 .. Len(q) - k : v[m] = q[k + m]
  <2>1. k + 1 \in Int /\ Len(q) \in Int /\ \A m \in k + 1 .. Len(q) : q[m] \in S
    BY <1>1, <1>2
  <2>2. /\ v \in Seq(S) /\ Len(v) = IF k + 1 <= Len(q) THEN Len(q) - (k + 1) + 1 ELSE 0
        /\ \A m \in 1 .. Len(q) - (k + 1) + 1 : v[m] = q[(k + 1) + m - 1]
    BY <2>1, SubSeqProperties
  <2>3. /\ Len(q) - (k + 1) + 1 = Len(q) - k
        /\ \A m \in 1 .. Len(q) - k : (k + 1) + m - 1 = k + m
    BY <1>1
  <2> HIDE DEF v
  <2>4. Len(v) = Len(q) - k
    BY <2>2, <1>1
  <2>5. \A m \in 1 .. Len(q) - k : v[m] = q[k + m]
    BY <2>2, <2>3
  <2> QED
    BY <2>2, <2>4, <2>5
<1>5. /\ RemoveAt(q, k) = u \o v
      /\ u \o v \in Seq(S) /\ Len(u \o v) = Len(u) + Len(v)
      /\ \A m \in 1 .. Len(u) + Len(v) :
           (u \o v)[m] = IF m <= Len(u) THEN u[m] ELSE v[m - Len(u)]
  <2> HIDE DEF u, v
  <2>1. /\ u \o v \in Seq(S) /\ Len(u \o v) = Len(u) + Len(v)
        /\ \A m \in 1 .. Len(u) + Len(v) :
             (u \o v)[m] = IF m <= Len(u) THEN u[m] ELSE v[m - Len(u)]
    BY <1>3, <1>4, ConcatProperties
  <2> QED
    BY <2>1 DEF RemoveAt, u, v
<1> HIDE DEF u, v
<1>6. DOMAIN RemoveAt(q, k) = 1 .. Len(q) - 1
  <2>1. Len(u \o v) = Len(q) - 1
    BY <1>1, <1>3, <1>4, <1>5
  <2> QED
    BY <1>5, <2>1, LenProperties
<1>7. ASSUME NEW j \in 1 .. Len(q) - 1
      PROVE  RemoveAt(q, k)[j] = IF j < k THEN q[j] ELSE q[j + 1]
  <2>1. (u \o v)[j] = IF j <= Len(u) THEN u[j] ELSE v[j - Len(u)]
    <3>1. j \in 1 .. Len(u) + Len(v)
      BY <1>1, <1>3, <1>4
    <3> QED
      BY <1>5, <3>1
  <2>2. CASE j < k
    BY <1>1, <1>3, <1>5, <2>1, <2>2
  <2>3. CASE j >= k
    <3>1. j - (k - 1) \in 1 .. Len(q) - k /\ k + (j - (k - 1)) = j + 1 /\ ~ (j <= k - 1)
      BY <1>1, <2>3
    <3>2. (u \o v)[j] = v[j - (k - 1)]
      BY <1>3, <2>1, <3>1
    <3>3. v[j - (k - 1)] = q[j + 1]
      BY <1>4, <3>1
    <3>4. ~ (j < k)
      BY <1>1, <2>3
    <3> QED
      BY <1>5, <3>2, <3>3, <3>4
  <2> QED
    BY <1>1, <2>2, <2>3
<1> QED
  BY <1>5, <1>6, <1>7

\* The k-th of the nodes, or NULL before the first and behind the last.
NodeOf(nodes, k) == IF k \in DOMAIN nodes THEN nodes[k] ELSE NULL

\* From the first node to the last and back by the pointers.
Linked(nodes, first, last, after, before) ==
    /\ first = NodeOf(nodes, 1) /\ last = NodeOf(nodes, Len(nodes))
    /\ \A k \in DOMAIN nodes : /\ after[nodes[k]] = NodeOf(nodes, k + 1)
                               /\ before[nodes[k]] = NodeOf(nodes, k - 1)

\* The nodes from the k-th on.
From(nodes, k) == {nodes[m] : m \in k .. Len(nodes)}

BookTypes ==
    /\ pc \in {"menu", "walk", "search", "free", "exit"}
    /\ next \in [Nodes -> Nodes \cup {NULL}] /\ prev \in [Nodes -> Nodes \cup {NULL}]
    /\ order \in Seq(Nodes) /\ heap \subseteq Nodes
    /\ i \in Nat /\ shown \in Seq(Nat)
    /\ pc = "walk" => arg \in Nat

\* What a search has printed when it has come to the n-th node.
Found(n) ==
    /\ \A j, k \in DOMAIN shown : j < k => shown[j] < shown[k]
    /\ {shown[j] : j \in DOMAIN shown} = {j \in 0 .. n - 1 : Wanted(order[j + 1])}

ListInv ==
    /\ BookTypes
    /\ IsInjective(order) /\ abonent_count = Len(order)
    /\ Linked(order, head, tail, next, prev)
    /\ heap = From(order, IF pc = "free" THEN i + 1 ELSE 1)
    /\ pc \in {"walk", "search", "free"} => current = NodeOf(order, i + 1) /\ i <= Len(order)
    /\ pc = "walk" => i <= arg /\ arg < Len(order)
    /\ pc = "search" => Found(i)

LEMMA NodeOfFacts ==
    ASSUME NEW nodes \in Seq(Nodes)
    PROVE  /\ Len(nodes) \in Nat /\ DOMAIN nodes = 1 .. Len(nodes)
           /\ \A k \in DOMAIN nodes : nodes[k] \in Nodes
           /\ \A k \in Int : /\ NodeOf(nodes, k) \in Nodes \cup {NULL}
                             /\ NodeOf(nodes, k) = NULL <=> k \notin DOMAIN nodes
                             /\ k \in DOMAIN nodes => NodeOf(nodes, k) = nodes[k]
<1>1. Len(nodes) \in Nat /\ DOMAIN nodes = 1 .. Len(nodes)
  BY LenProperties
<1>2. \A k \in DOMAIN nodes : nodes[k] \in Nodes
  BY <1>1, ElementOfSeq
<1> QED
  BY <1>1, <1>2, BookAssumption DEF NodeOf

\* A node behind the last one (add_abonent).
LEMMA LinkedAppend ==
    ASSUME NEW nodes \in Seq(Nodes), IsInjective(nodes),
           NEW first, NEW last,
           NEW after \in [Nodes -> Nodes \cup {NULL}], NEW before \in [Nodes -> Nodes \cup {NULL}],
           Linked(nodes, first, last, after, before),
           NEW n \in Nodes, n \notin From(nodes, 1)
    PROVE  /\ first = NULL =>
                Linked(Append(nodes, n), n, n, [after EXCEPT ![n] = NULL], [before EXCEPT ![n] = NULL])
           /\ first # NULL =>
                /\ last \in Nodes
                /\ Linked(Append(nodes, n), first, n,
                          [after EXCEPT ![n] = NULL, ![last] = n], [before EXCEPT ![n] = last])
           /\ IsInjective(Append(nodes, n))
           /\ From(Append(nodes, n), 1) = From(nodes, 1) \cup {n}
           /\ Len(Append(nodes, n)) = Len(nodes) + 1
           /\ Append(nodes, n) \in Seq(Nodes)
<1> DEFINE more == Append(nodes, n)
<1>1. PICK L \in Nat : L = Len(nodes) /\ DOMAIN nodes = 1 .. L
  BY NodeOfFacts
<1>2. \A k \in 1 .. L : nodes[k] \in Nodes /\ nodes[k] # n
  <2>1. \A k \in 1 .. L : nodes[k] \in From(nodes, 1)
    BY <1>1 DEF From
  <2> QED
    BY <1>1, <2>1, NodeOfFacts
<1>3. /\ more \in Seq(Nodes) /\ DOMAIN more = 1 .. L + 1 /\ Len(more) = L + 1
      /\ \A k \in 1 .. L : more[k] = nodes[k]
      /\ more[L + 1] = n
  BY <1>1, AppendProperties, LenProperties
<1> HIDE DEF more
<1>4. \A k \in 1 .. L : /\ NodeOf(nodes, k) = nodes[k]
                        /\ NodeOf(more, k) = nodes[k]
  BY <1>1, <1>3 DEF NodeOf
<1>5. /\ NodeOf(more, L + 1) = n /\ NodeOf(more, L + 2) = NULL /\ NodeOf(more, 0) = NULL
      /\ NodeOf(nodes, 0) = NULL /\ NodeOf(nodes, L + 1) = NULL
  <2>1. L + 1 \in 1 .. L + 1 /\ L + 2 \notin 1 .. L + 1 /\ 0 \notin 1 .. L + 1
        /\ 0 \notin 1 .. L /\ L + 1 \notin 1 .. L
    OBVIOUS
  <2> QED
    BY <1>1, <1>3, <2>1 DEF NodeOf
<1>6. /\ first = NodeOf(nodes, 1) /\ last = NodeOf(nodes, L)
      /\ \A k \in 1 .. L : /\ after[nodes[k]] = NodeOf(nodes, k + 1)
                           /\ before[nodes[k]] = NodeOf(nodes, k - 1)
  BY <1>1 DEF Linked
<1>7. first = NULL <=> L = 0
  <2>1. CASE L = 0
    BY <1>5, <1>6, <2>1
  <2>2. CASE L # 0
    BY <1>2, <1>4, <1>6, <2>2, BookAssumption
  <2> QED
    BY <2>1, <2>2
<1>8. ASSUME first = NULL
      PROVE  Linked(more, n, n, [after EXCEPT ![n] = NULL], [before EXCEPT ![n] = NULL])
  <2>1. DOMAIN more = {1} /\ more[1] = n /\ Len(more) = 1
    BY <1>3, <1>7, <1>8
  <2>2. NodeOf(more, 1) = n /\ NodeOf(more, 1 + 1) = NULL /\ NodeOf(more, 1 - 1) = NULL
    BY <1>5, <1>7, <1>8
  <2> QED
    BY <2>1, <2>2 DEF Linked
<1>9. ASSUME first # NULL
      PROVE  /\ last \in Nodes
             /\ Linked(more, first, n, [after EXCEPT ![n] = NULL, ![last] = n],
                       [before EXCEPT ![n] = last])
  <2>1. L \in 1 .. L /\ 1 \in 1 .. L
    BY <1>7, <1>9
  <2>2. last = nodes[L] /\ last \in Nodes /\ last # n /\ first = NodeOf(more, 1)
    BY <1>2, <1>4, <1>6, <2>1
  <2> DEFINE nx == [after EXCEPT ![n] = NULL, ![last] = n]
             pv == [before EXCEPT ![n] = last]
  <2>3. /\ \A m \in Nodes : nx[m] = IF m = last THEN n ELSE IF m = n THEN NULL ELSE after[m]
        /\ \A m \in Nodes : pv[m] = IF m = n THEN last ELSE before[m]
    BY <2>2
  <2> HIDE DEF nx, pv
  <2>4. ASSUME NEW k \in 1 .. L, k # L
        PROVE  nx[more[k]] = NodeOf(more, k + 1)
    <3>1. k + 1 \in 1 .. L /\ nodes[k] # last
      BY <1>1, <2>1, <2>2, <2>4 DEF IsInjective
    <3>2. nx[nodes[k]] = after[nodes[k]]
      BY <1>2, <2>3, <3>1
    <3> QED
      BY <1>3, <1>4, <1>6, <3>1, <3>2
  <2>5. nx[more[L]] = NodeOf(more, L + 1)
    BY <1>3, <1>5, <2>1, <2>2, <2>3
  <2>6. nx[more[L + 1]] = NodeOf(more, (L + 1) + 1)
    <3>1. (L + 1) + 1 = L + 2
      OBVIOUS
    <3> QED
      BY <1>3, <1>5, <2>2, <2>3, <3>1
  <2>7. ASSUME NEW k \in 1 .. L PROVE pv[more[k]] = NodeOf(more, k - 1)
    <3>1. pv[nodes[k]] = NodeOf(nodes, k - 1)
      BY <1>2, <1>6, <2>3
    <3>2. CASE k = 1
      BY <1>3, <1>5, <3>1, <3>2
    <3>3. CASE k # 1
      <4>1. k - 1 \in 1 .. L
        BY <3>3
      <4> QED
        BY <1>3, <1>4, <3>1, <4>1
    <3> QED
      BY <3>2, <3>3
  <2>8. pv[more[L + 1]] = NodeOf(more, (L + 1) - 1)
    <3>1. (L + 1) - 1 = L
      OBVIOUS
    <3> QED
      BY <1>3, <1>4, <2>1, <2>2, <2>3, <3>1
  <2>9. \A k \in 1 .. L + 1 : nx[more[k]] = NodeOf(more, k + 1) /\ pv[more[k]] = NodeOf(more, k - 1)
    <3>1. \A k \in 1 .. L + 1 : k \in 1 .. L \/ k = L + 1
      OBVIOUS
    <3> QED
      BY <2>4, <2>5, <2>6, <2>7, <2>8, <3>1
  <2>10. Linked(more, first, n, nx, pv)
    BY <1>3, <1>5, <2>2, <2>9 DEF Linked
  <2> QED
    BY <2>2, <2>10 DEF nx, pv
<1>10. IsInjective(more)
  BY <1>1, <1>2, <1>3 DEF IsInjective
<1>11. From(more, 1) = From(nodes, 1) \cup {n}
  <2>1. From(more, 1) = {more[m] : m \in 1 .. L + 1} /\ From(nodes, 1) = {nodes[m] : m \in 1 .. L}
    BY <1>1, <1>3 DEF From
  <2>2. 1 .. L + 1 = (1 .. L) \cup {L + 1}
    OBVIOUS
  <2> QED
    BY <1>3, <2>1, <2>2
<1> QED
  BY <1>1, <1>3, <1>8, <1>9, <1>10, <1>11 DEF more

\* What del_abonent makes of the pointers around n.
FirstBut(n, first, after, before) == IF before[n] # NULL THEN first ELSE after[n]
LastBut(n, last, after, before) == IF after[n] # NULL THEN last ELSE before[n]
AfterBut(n, after, before) ==
    IF before[n] # NULL THEN [after EXCEPT ![before[n]] = after[n]] ELSE after
BeforeBut(n, after, before) ==
    IF after[n] # NULL THEN [before EXCEPT ![after[n]] = before[n]] ELSE before

\* The k-th node is taken out.
LEMMA LinkedRemove ==
    ASSUME NEW nodes \in Seq(Nodes), IsInjective(nodes),
           NEW first, NEW last,
           NEW after \in [Nodes -> Nodes \cup {NULL}], NEW before \in [Nodes -> Nodes \cup {NULL}],
           Linked(nodes, first, last, after, before),
           NEW k \in DOMAIN nodes, NEW n, n = nodes[k]
    PROVE  /\ n \in Nodes /\ after[n] \in Nodes \cup {NULL} /\ before[n] \in Nodes \cup {NULL}
           /\ Linked(RemoveAt(nodes, k),
                     FirstBut(n, first, after, before), LastBut(n, last, after, before),
                     AfterBut(n, after, before), BeforeBut(n, after, before))
           /\ IsInjective(RemoveAt(nodes, k))
           /\ \A m : m \in From(RemoveAt(nodes, k), 1) <=> m \in From(nodes, 1) /\ m # n
           /\ Len(RemoveAt(nodes, k)) = Len(nodes) - 1
           /\ RemoveAt(nodes, k) \in Seq(Nodes)
<1> DEFINE less == RemoveAt(nodes, k)
<1>1. PICK L \in Nat : L = Len(nodes) /\ DOMAIN nodes = 1 .. L
  BY NodeOfFacts
<1>2. /\ k \in 1 .. L
      /\ \A j \in 1 .. L : nodes[j] \in Nodes
      /\ \A j \in Int : j \in 1 .. L => NodeOf(nodes, j) = nodes[j]
      /\ \A j \in Int : NodeOf(nodes, j) = NULL <=> j \notin 1 .. L
  BY <1>1, NodeOfFacts
<1>3. /\ less \in Seq(Nodes) /\ DOMAIN less = 1 .. L - 1
      /\ \A j \in 1 .. L - 1 : less[j] = IF j < k THEN nodes[j] ELSE nodes[j + 1]
  BY <1>1, RemoveAtFacts
<1>4. Len(less) = L - 1
  <2>1. Len(less) \in Nat /\ DOMAIN less = 1 .. Len(less)
    BY <1>3, LenProperties
  <2> QED
    BY <1>2, <1>3, <2>1
<1> HIDE DEF less
<1>5. \A j \in Int : NodeOf(less, j) = IF j < k THEN NodeOf(nodes, j) ELSE NodeOf(nodes, j + 1)
  <2> SUFFICES ASSUME NEW j \in Int
               PROVE  NodeOf(less, j) = IF j < k THEN NodeOf(nodes, j) ELSE NodeOf(nodes, j + 1)
    OBVIOUS
  <2>1. CASE j \in 1 .. L - 1
    <3>1. j \in 1 .. L /\ j + 1 \in 1 .. L
      BY <2>1
    <3>2. NodeOf(less, j) = less[j]
      BY <1>3, <2>1 DEF NodeOf
    <3> QED
      BY <1>2, <1>3, <2>1, <3>1, <3>2
  <2>2. CASE j \notin 1 .. L - 1
    <3>1. NodeOf(less, j) = NULL
      BY <1>3, <2>2 DEF NodeOf
    <3>2. (j < k => j \notin 1 .. L) /\ (~ (j < k) => j + 1 \notin 1 .. L)
      BY <1>2, <2>2
    <3> QED
      BY <1>2, <3>1, <3>2
  <2> QED
    BY <2>1, <2>2
<1>6. /\ first = NodeOf(nodes, 1) /\ last = NodeOf(nodes, L)
      /\ \A j \in 1 .. L : /\ after[nodes[j]] = NodeOf(nodes, j + 1)
                           /\ before[nodes[j]] = NodeOf(nodes, j - 1)
  BY <1>1 DEF Linked
<1>7. /\ n \in Nodes /\ after[n] = NodeOf(nodes, k + 1) /\ before[n] = NodeOf(nodes, k - 1)
      /\ after[n] \in Nodes \cup {NULL} /\ before[n] \in Nodes \cup {NULL}
  BY <1>2, <1>6
<1>8. /\ before[n] # NULL <=> k # 1
      /\ after[n] # NULL <=> k # L
      /\ k # 1 => k - 1 \in 1 .. L /\ before[n] = nodes[k - 1]
      /\ k # L => k + 1 \in 1 .. L /\ after[n] = nodes[k + 1]
  <2>1. (before[n] # NULL <=> k # 1) /\ (k # 1 => k - 1 \in 1 .. L /\ before[n] = nodes[k - 1])
    <3>1. CASE k # 1
      <4>1. k - 1 \in 1 .. L
        BY <1>2, <3>1
      <4> QED
        BY <1>2, <1>7, <3>1, <4>1
    <3>2. CASE k = 1
      <4>1. k - 1 \notin 1 .. L /\ k - 1 \in Int
        BY <1>2, <3>2
      <4> QED
        BY <1>2, <1>7, <3>2, <4>1
    <3> QED
      BY <3>1, <3>2
  <2>2. (after[n] # NULL <=> k # L) /\ (k # L => k + 1 \in 1 .. L /\ after[n] = nodes[k + 1])
    <3>1. CASE k # L
      <4>1. k + 1 \in 1 .. L
        BY <1>2, <3>1
      <4> QED
        BY <1>2, <1>7, <3>1, <4>1
    <3>2. CASE k = L
      <4>1. k + 1 \notin 1 .. L /\ k + 1 \in Int
        BY <1>2, <3>2
      <4> QED
        BY <1>2, <1>7, <3>2, <4>1
    <3> QED
      BY <3>1, <3>2
  <2> QED
    BY <2>1, <2>2
<1> DEFINE nx == IF before[n] # NULL THEN [after EXCEPT ![before[n]] = after[n]] ELSE after
           pv == IF after[n] # NULL THEN [before EXCEPT ![after[n]] = before[n]] ELSE before
<1>9. \A m \in Nodes : nx[m] = IF k # 1 /\ m = nodes[k - 1] THEN NodeOf(nodes, k + 1) ELSE after[m]
  BY <1>7, <1>8
<1>10. \A m \in Nodes : pv[m] = IF k # L /\ m = nodes[k + 1] THEN NodeOf(nodes, k - 1) ELSE before[m]
  BY <1>7, <1>8
<1> HIDE DEF nx, pv
<1>11. \A j, m \in 1 .. L : nodes[j] = nodes[m] => j = m
  BY <1>1 DEF IsInjective
<1>12. \A m \in 1 .. L : m # k - 1 => nx[nodes[m]] = NodeOf(nodes, m + 1)
  <2> SUFFICES ASSUME NEW m \in 1 .. L, m # k - 1 PROVE nx[nodes[m]] = NodeOf(nodes, m + 1)
    OBVIOUS
  <2>1. ~ (k # 1 /\ nodes[m] = nodes[k - 1])
    BY <1>8, <1>11
  <2>2. nodes[m] \in Nodes
    BY <1>2
  <2> QED
    BY <1>6, <1>9, <2>1, <2>2
<1>13. k # 1 => nx[nodes[k - 1]] = NodeOf(nodes, k + 1)
  BY <1>2, <1>8, <1>9
<1>14. \A m \in 1 .. L : m # k + 1 => pv[nodes[m]] = NodeOf(nodes, m - 1)
  <2> SUFFICES ASSUME NEW m \in 1 .. L, m # k + 1 PROVE pv[nodes[m]] = NodeOf(nodes, m - 1)
    OBVIOUS
  <2>1. ~ (k # L /\ nodes[m] = nodes[k + 1])
    BY <1>8, <1>11
  <2>2. nodes[m] \in Nodes
    BY <1>2
  <2> QED
    BY <1>6, <1>10, <2>1, <2>2
<1>15. k # L => pv[nodes[k + 1]] = NodeOf(nodes, k - 1)
  BY <1>2, <1>8, <1>10
<1>16. ASSUME NEW j \in 1 .. L - 1
       PROVE  nx[less[j]] = NodeOf(less, j + 1) /\ pv[less[j]] = NodeOf(less, j - 1)
  <2>1. j \in 1 .. L /\ j + 1 \in 1 .. L /\ j + 1 \in Int /\ j - 1 \in Int
    BY <1>16
  <2>2. CASE j < k
    <3>1. less[j] = nodes[j] /\ j # k + 1
      BY <1>2, <1>3, <2>2
    <3>2. pv[less[j]] = NodeOf(nodes, j - 1)
      BY <1>14, <2>1, <3>1
    <3>3. NodeOf(less, j - 1) = NodeOf(nodes, j - 1)
      <4>1. j - 1 < k
        BY <1>2, <2>2
      <4> QED
        BY <1>5, <2>1, <4>1
    <3>4. nx[less[j]] = NodeOf(less, j + 1)
      <4>1. CASE j = k - 1
        <5>1. k # 1 /\ ~ (j + 1 < k) /\ (j + 1) + 1 = k + 1
          BY <1>2, <4>1
        <5> QED
          BY <1>5, <1>13, <2>1, <3>1, <4>1, <5>1
      <4>2. CASE j # k - 1
        <5>1. j + 1 < k
          BY <1>2, <2>2, <4>2
        <5> QED
          BY <1>5, <1>12, <2>1, <3>1, <4>2, <5>1
      <4> QED
        BY <4>1, <4>2
    <3> QED
      BY <3>2, <3>3, <3>4
  <2>3. CASE ~ (j < k)
    <3>1. less[j] = nodes[j + 1] /\ j + 1 # k - 1 /\ ~ (j + 1 < k)
      BY <1>2, <1>3, <2>3
    <3>2. nx[less[j]] = NodeOf(less, j + 1)
      BY <1>5, <1>12, <2>1, <3>1
    <3>3. pv[less[j]] = NodeOf(less, j - 1)
      <4>1. CASE j = k
        <5>1. k # L /\ j - 1 < k /\ j - 1 = k - 1
          BY <1>2, <4>1
        <5> QED
          BY <1>5, <1>15, <2>1, <3>1, <4>1, <5>1
      <4>2. CASE j # k
        <5>1. j + 1 # k + 1 /\ ~ (j - 1 < k) /\ (j - 1) + 1 = (j + 1) - 1
          BY <1>2, <2>3, <4>2
        <5> QED
          BY <1>5, <1>14, <2>1, <3>1, <5>1
      <4> QED
        BY <4>1, <4>2
    <3> QED
      BY <3>2, <3>3
  <2> QED
    BY <2>2, <2>3
<1>17. (IF before[n] # NULL THEN first ELSE after[n]) = NodeOf(less, 1)
  <2>1. 1 < k <=> k # 1
    BY <1>2
  <2> QED
    BY <1>5, <1>6, <1>7, <1>8, <2>1
<1>18. (IF after[n] # NULL THEN last ELSE before[n]) = NodeOf(less, Len(less))
  <2>1. CASE k = L
    <3>1. L - 1 < k /\ L - 1 \in Int /\ L - 1 = k - 1
      BY <1>2, <2>1
    <3> QED
      BY <1>4, <1>5, <1>7, <1>8, <2>1, <3>1
  <2>2. CASE k # L
    <3>1. ~ (L - 1 < k) /\ L - 1 \in Int /\ (L - 1) + 1 = L
      BY <1>2, <2>2
    <3> QED
      BY <1>4, <1>5, <1>6, <1>8, <2>2, <3>1
  <2> QED
    BY <2>1, <2>2
<1>19. Linked(less, IF before[n] # NULL THEN first ELSE after[n],
              IF after[n] # NULL THEN last ELSE before[n], nx, pv)
  BY <1>3, <1>16, <1>17, <1>18 DEF Linked
<1>20. IsInjective(less)
  <2> SUFFICES ASSUME NEW j \in 1 .. L - 1, NEW m \in 1 .. L - 1, less[j] = less[m]
               PROVE  j = m
    BY <1>3 DEF IsInjective
  <2>1. j \in 1 .. L /\ j + 1 \in 1 .. L /\ m \in 1 .. L /\ m + 1 \in 1 .. L
    OBVIOUS
  <2>2. PICK v \in 1 .. L :
          less[j] = nodes[v] /\ v = IF j < k THEN j ELSE j + 1
    BY <1>3, <2>1
  <2>3. PICK w \in 1 .. L :
          less[m] = nodes[w] /\ w = IF m < k THEN m ELSE m + 1
    BY <1>3, <2>1
  <2>4. v = w
    BY <1>11, <2>2, <2>3
  <2> QED
    BY <1>2, <2>2, <2>3, <2>4
<1>21. From(less, 1) = From(nodes, 1) \ {n}
  <2>1. From(less, 1) = {less[m] : m \in 1 .. L - 1} /\ From(nodes, 1) = {nodes[m] : m \in 1 .. L}
    BY <1>1, <1>4 DEF From
  <2>2. ASSUME NEW m \in 1 .. L - 1 PROVE less[m] \in {nodes[j] : j \in 1 .. L} \ {n}
    <3>1. m \in 1 .. L /\ m + 1 \in 1 .. L
      BY <2>2
    <3>2. PICK v \in 1 .. L : less[m] = nodes[v] /\ v # k
      <4>1. CASE m < k
        BY <1>2, <1>3, <3>1, <4>1
      <4>2. CASE ~ (m < k)
        <5>1. m + 1 # k
          BY <1>2, <4>2
        <5> QED
          BY <1>3, <3>1, <4>2, <5>1
      <4> QED
        BY <4>1, <4>2
    <3>3. nodes[v] # n
      BY <1>2, <1>11, <3>2
    <3> QED
      BY <3>2, <3>3
  <2>3. ASSUME NEW m \in 1 .. L, nodes[m] # n PROVE nodes[m] \in {less[j] : j \in 1 .. L - 1}
    <3>1. CASE m < k
      <4>1. m \in 1 .. L - 1 /\ less[m] = nodes[m]
        BY <1>2, <1>3, <3>1
      <4> QED
        BY <4>1
    <3>2. CASE m > k
      <4>1. m - 1 \in 1 .. L - 1 /\ ~ (m - 1 < k) /\ (m - 1) + 1 = m
        BY <1>2, <3>2
      <4>2. less[m - 1] = nodes[m]
        BY <1>3, <4>1
      <4> QED
        BY <4>1, <4>2
    <3>3. m # k
      BY <2>3
    <3> QED
      BY <1>2, <3>1, <3>2, <3>3
  <2> QED
    BY <2>1, <2>2, <2>3
<1> QED
  BY <1>1, <1>3, <1>4, <1>7, <1>19, <1>20, <1>21 DEF less, nx, pv, FirstBut, LastBut, AfterBut, BeforeBut

LEMMA ListInitial == Init => ListInv
<1> SUFFICES ASSUME Init PROVE ListInv
  OBVIOUS
<1>1. << >> \in Seq(Nodes) /\ << >> \in Seq(Nat) /\ DOMAIN order = {} /\ Len(order) = 0
  BY DEF Init
<1>2. BookTypes
  BY <1>1 DEF Init, BookTypes
<1>3. From(order, 1) = {}
  BY <1>1 DEF From
<1>4. Linked(order, head, tail, next, prev)
  BY <1>1 DEF Init, Linked, NodeOf
<1> QED
  BY <1>1, <1>2, <1>3, <1>4 DEF Init, ListInv, IsInjective

LEMMA AddAbonentStep ==
    ASSUME ListInv, NEW n \in Nodes, NEW what \in Names, AddAbonent(n, what) PROVE ListInv'
<1>1. /\ pc = "menu" /\ n \notin heap /\ heap' = heap \cup {n}
      /\ tail' = n /\ abonent_count' = abonent_count + 1 /\ order' = Append(order, n)
      /\ UNCHANGED <<pc, current, i, arg, shown>>
  BY DEF AddAbonent, loopVars
<1>2. /\ next \in [Nodes -> Nodes \cup {NULL}] /\ prev \in [Nodes -> Nodes \cup {NULL}]
      /\ order \in Seq(Nodes) /\ IsInjective(order) /\ abonent_count = Len(order)
      /\ Linked(order, head, tail, next, prev)
      /\ heap = From(order, 1) /\ n \notin From(order, 1)
  BY <1>1 DEF ListInv, BookTypes
<1>3. /\ head = NULL => Linked(order', n, n, [next EXCEPT ![n] = NULL], [prev EXCEPT ![n] = NULL])
      /\ head # NULL =>
           /\ tail \in Nodes
           /\ Linked(order', head, n, [next EXCEPT ![n] = NULL, ![tail] = n], [prev EXCEPT ![n] = tail])
      /\ IsInjective(order') /\ From(order', 1) = From(order, 1) \cup {n}
      /\ Len(order') = Len(order) + 1 /\ order' \in Seq(Nodes)
  <2> DEFINE more == Append(order, n)
  <2>1. /\ head = NULL => Linked(more, n, n, [next EXCEPT ![n] = NULL], [prev EXCEPT ![n] = NULL])
        /\ head # NULL =>
             /\ tail \in Nodes
             /\ Linked(more, head, n, [next EXCEPT ![n] = NULL, ![tail] = n], [prev EXCEPT ![n] = tail])
        /\ IsInjective(more) /\ From(more, 1) = From(order, 1) \cup {n}
        /\ Len(more) = Len(order) + 1 /\ more \in Seq(Nodes)
    BY <1>2, LinkedAppend
  <2>2. order' = more
    BY <1>1
  <2> HIDE DEF more
  <2> QED
    BY <2>1, <2>2
<1>4. /\ next' \in [Nodes -> Nodes \cup {NULL}] /\ prev' \in [Nodes -> Nodes \cup {NULL}]
      /\ Linked(order', head', tail', next', prev')
  <2>1. CASE head = NULL
    <3>1. head' = n /\ next' = [next EXCEPT ![n] = NULL] /\ prev' = [prev EXCEPT ![n] = NULL]
      BY <2>1 DEF AddAbonent
    <3> QED
      BY <1>1, <1>2, <1>3, <2>1, <3>1
  <2>2. CASE head # NULL
    <3>1. /\ head' = head /\ next' = [next EXCEPT ![n] = NULL, ![tail] = n]
          /\ prev' = [prev EXCEPT ![n] = tail]
      BY <2>2 DEF AddAbonent
    <3> QED
      BY <1>1, <1>2, <1>3, <2>2, <3>1
  <2> QED
    BY <2>1, <2>2
<1>5. BookTypes'
  BY <1>1, <1>3, <1>4 DEF ListInv, BookTypes
<1> QED
  BY <1>1, <1>2, <1>3, <1>4, <1>5 DEF ListInv

\* Every loop starts before the first node.
LEMMA EnterStep ==
    ASSUME ListInv, NEW loop \in {"walk", "search", "free"}, NEW what, Enter(loop, what),
           loop = "walk" => what \in Nat /\ what < Len(order)
    PROVE  ListInv'
<1>1. /\ pc = "menu" /\ pc' = loop /\ arg' = what
      /\ current' = head /\ i' = 0 /\ shown' = << >>
      /\ UNCHANGED <<head, tail, abonent_count, next, prev, name, heap, order>>
  BY DEF Enter, listVars
<1>2. order \in Seq(Nodes) /\ Len(order) \in Nat
  BY NodeOfFacts DEF ListInv, BookTypes
<1>3. << >> \in Seq(Nat)
  OBVIOUS
<1>4. BookTypes'
  BY <1>1, <1>3 DEF ListInv, BookTypes
<1>5. IsInjective(order') /\ abonent_count' = Len(order') /\ Linked(order', head', tail', next', prev')
  BY <1>1 DEF ListInv
<1>6. heap' = From(order', IF pc' = "free" THEN i' + 1 ELSE 1)
  BY <1>1 DEF ListInv
<1>7. current' = NodeOf(order', i' + 1) /\ i' <= Len(order')
  BY <1>1, <1>2 DEF ListInv, Linked
<1>8. pc' = "walk" => i' <= arg' /\ arg' < Len(order')
  BY <1>1
<1>9. Found(i)'
  <2>1. DOMAIN shown' = {} /\ 0 .. i' - 1 = {}
    BY <1>1
  <2> QED
    BY <2>1 DEF Found
<1> QED
  BY <1>4, <1>5, <1>6, <1>7, <1>8, <1>9 DEF ListInv

\* A loop that is at a node is at the one its index says.
LEMMA AtItsNode ==
    ASSUME ListInv, pc \in {"walk", "search", "free"}, current # NULL \/ i < Len(order)
    PROVE  /\ order \in Seq(Nodes)
           /\ i \in Nat /\ Len(order) \in Nat /\ DOMAIN order = 1 .. Len(order)
           /\ i + 1 \in DOMAIN order /\ current = order[i + 1]
           /\ next[current] = NodeOf(order, (i + 1) + 1)
<1>1. /\ order \in Seq(Nodes) /\ i \in Nat
      /\ current = NodeOf(order, i + 1) /\ Linked(order, head, tail, next, prev)
  BY DEF ListInv, BookTypes
<1>2. /\ Len(order) \in Nat /\ DOMAIN order = 1 .. Len(order)
      /\ NodeOf(order, i + 1) = NULL <=> i + 1 \notin DOMAIN order
      /\ i + 1 \in DOMAIN order => NodeOf(order, i + 1) = order[i + 1]
  BY <1>1, NodeOfFacts
<1>3. i + 1 \in DOMAIN order
  BY <1>1, <1>2
<1> QED
  BY <1>1, <1>2, <1>3 DEF Linked

LEMMA WalkStep ==
    ASSUME ListInv, Walk PROVE ListInv'
<1>1. /\ pc = "walk" /\ i < arg /\ current' = next[current] /\ i' = i + 1
      /\ UNCHANGED <<pc, head, tail, abonent_count, next, prev, name, heap, order, arg, shown>>
  BY DEF Walk, listVars
<1>2. i \in Nat /\ arg \in Nat /\ arg < Len(order) /\ Len(order) \in Nat
  BY <1>1, NodeOfFacts DEF ListInv, BookTypes
<1>3. next[current] = NodeOf(order, (i + 1) + 1)
  BY <1>1, <1>2, AtItsNode
<1>4. BookTypes'
  BY <1>1, <1>2 DEF ListInv, BookTypes
<1>5. current' = NodeOf(order', i' + 1) /\ i' <= Len(order') /\ i' <= arg' /\ arg' < Len(order')
  BY <1>1, <1>2, <1>3
<1>6. /\ IsInjective(order') /\ abonent_count' = Len(order')
      /\ Linked(order', head', tail', next', prev') /\ heap' = From(order', 1)
      /\ pc' = "walk"
  BY <1>1 DEF ListInv
<1> QED
  BY <1>4, <1>5, <1>6 DEF ListInv

LEMMA UnlinkStep ==
    ASSUME ListInv, Unlink PROVE ListInv'
<1>1. /\ pc = "walk" /\ i = arg /\ pc' = "menu"
      /\ heap' = heap \ {current} /\ abonent_count' = abonent_count - 1
      /\ order' = RemoveAt(order, arg + 1)
      /\ UNCHANGED <<name, current, i, arg, shown>>
  BY DEF Unlink, loopVars
<1>2. /\ next \in [Nodes -> Nodes \cup {NULL}] /\ prev \in [Nodes -> Nodes \cup {NULL}]
      /\ order \in Seq(Nodes) /\ IsInjective(order) /\ abonent_count = Len(order)
      /\ Linked(order, head, tail, next, prev)
      /\ heap = From(order, 1) /\ i < Len(order)
  BY <1>1 DEF ListInv, BookTypes
<1>3. i + 1 \in DOMAIN order /\ current = order[i + 1]
  BY <1>1, <1>2, AtItsNode
<1>4. /\ current \in Nodes /\ next[current] \in Nodes \cup {NULL} /\ prev[current] \in Nodes \cup {NULL}
      /\ Linked(order',
                FirstBut(current, head, next, prev), LastBut(current, tail, next, prev),
                AfterBut(current, next, prev), BeforeBut(current, next, prev))
      /\ IsInjective(order') /\ From(order', 1) = From(order, 1) \ {current}
      /\ Len(order') = Len(order) - 1 /\ order' \in Seq(Nodes)
  <2>3. PICK k \in DOMAIN order : k = i + 1 /\ current = order[k]
    BY <1>3
  <2> DEFINE less == RemoveAt(order, k)
  <2>1. /\ current \in Nodes /\ next[current] \in Nodes \cup {NULL} /\ prev[current] \in Nodes \cup {NULL}
        /\ Linked(less,
                  FirstBut(current, head, next, prev), LastBut(current, tail, next, prev),
                  AfterBut(current, next, prev), BeforeBut(current, next, prev))
        /\ IsInjective(less) /\ From(less, 1) = From(order, 1) \ {current}
        /\ Len(less) = Len(order) - 1 /\ less \in Seq(Nodes)
    <3>1. Linked(order, head, tail, next, prev) /\ IsInjective(order) /\ order \in Seq(Nodes)
      BY <1>2
    <3>2. next \in [Nodes -> Nodes \cup {NULL}] /\ prev \in [Nodes -> Nodes \cup {NULL}]
      BY <1>2
    <3>3. k \in DOMAIN order /\ current = order[k]
      BY <2>3
    <3> HIDE DEF less
    <3>4. less = RemoveAt(order, k)
      BY DEF less
    <3>5. current \in Nodes
      BY <3>1, <3>2, <3>3, LinkedRemove
    <3>6. IsInjective(RemoveAt(order, k))
      BY <3>1, <3>2, <3>3, LinkedRemove
    <3>7. Linked(RemoveAt(order, k),
                FirstBut(current, head, next, prev), LastBut(current, tail, next, prev),
                AfterBut(current, next, prev), BeforeBut(current, next, prev))
      BY <3>1, <3>2, <3>3, LinkedRemove
    <3>8. /\ next[current] \in Nodes \cup {NULL} /\ prev[current] \in Nodes \cup {NULL}
          /\ RemoveAt(order, k) \in Seq(Nodes)
      BY <3>1, <3>2, <3>3, LinkedRemove
    <3>9. From(RemoveAt(order, k), 1) = From(order, 1) \ {current}
      <4>1. ASSUME NEW m
            PROVE  m \in From(RemoveAt(order, k), 1) <=> m \in From(order, 1) /\ m # current
        BY <3>1, <3>2, <3>3, LinkedRemove
      <4> QED
        BY <4>1
    <3>10. Len(RemoveAt(order, k)) = Len(order) - 1
      BY <3>1, <3>2, <3>3, LinkedRemove
    <3> QED
      BY <3>4, <3>5, <3>6, <3>7, <3>8, <3>9, <3>10
  <2>2. order' = less
    BY <1>1, <2>3
  <2> HIDE DEF less
  <2> QED
    BY <2>1, <2>2
<1>5. /\ head' = FirstBut(current, head, next, prev)
      /\ next' = AfterBut(current, next, prev)
  BY DEF Unlink, FirstBut, AfterBut
<1>6. /\ tail' = LastBut(current, tail, next, prev)
      /\ prev' = BeforeBut(current, next, prev)
  BY DEF Unlink, LastBut, BeforeBut
<1>7. next' \in [Nodes -> Nodes \cup {NULL}] /\ prev' \in [Nodes -> Nodes \cup {NULL}]
  BY <1>2, <1>4, <1>5, <1>6 DEF AfterBut, BeforeBut
<1>8. BookTypes'
  BY <1>1, <1>2, <1>4, <1>7 DEF ListInv, BookTypes
<1>9. Linked(order', head', tail', next', prev')
  BY <1>4, <1>5, <1>6
<1> QED
  BY <1>1, <1>2, <1>4, <1>8, <1>9 DEF ListInv

LEMMA LookStep ==
    ASSUME ListInv, Look PROVE ListInv'
<1>1. /\ pc = "search" /\ current # NULL /\ current' = next[current] /\ i' = i + 1
      /\ shown' = IF Wanted(current) THEN Append(shown, i) ELSE shown
      /\ UNCHANGED <<pc, head, tail, abonent_count, next, prev, name, heap, order, arg>>
  BY DEF Look, listVars
<1>2. /\ i \in Nat /\ Len(order) \in Nat /\ DOMAIN order = 1 .. Len(order)
      /\ i + 1 \in DOMAIN order /\ current = order[i + 1]
      /\ next[current] = NodeOf(order, (i + 1) + 1)
  BY <1>1, AtItsNode
<1>3. shown \in Seq(Nat) /\ Found(i)
  BY <1>1 DEF ListInv, BookTypes
<1>4. /\ Append(shown, i) \in Seq(Nat)
      /\ Len(shown) \in Nat /\ DOMAIN shown = 1 .. Len(shown) /\ Len(shown) + 1 \notin DOMAIN shown
      /\ DOMAIN Append(shown, i) = DOMAIN shown \cup {Len(shown) + 1}
      /\ \A m \in DOMAIN shown : Append(shown, i)[m] = shown[m]
      /\ Append(shown, i)[Len(shown) + 1] = i
  BY <1>2, <1>3, AppendFacts
<1>6. 0 .. i' - 1 = (0 .. i - 1) \cup {i} /\ i' - 1 = i
  BY <1>1, <1>2
<1>7. Found(i)'
  <2> DEFINE hits == {j \in 0 .. i - 1 : arg = All \/ name[order[j + 1]] = arg}
  <2>1. /\ \A j, k \in DOMAIN shown : j < k => shown[j] < shown[k]
        /\ {shown[j] : j \in DOMAIN shown} = hits
    BY <1>3 DEF Found, Wanted
  <2>2. {j \in 0 .. i' - 1 : arg' = All \/ name'[order'[j + 1]] = arg'} =
          IF Wanted(current) THEN hits \cup {i} ELSE hits
    BY <1>1, <1>2, <1>6 DEF Wanted
  <2> HIDE DEF hits
  <2>3. CASE ~ Wanted(current)
    BY <1>1, <2>1, <2>2, <2>3 DEF Found, Wanted
  <2>4. CASE Wanted(current)
    <3>1. \A j \in DOMAIN shown : shown[j] < i
      <4>1. \A j \in DOMAIN shown : shown[j] \in hits
        BY <2>1
      <4> QED
        BY <1>2, <4>1 DEF hits
    <3>2. shown' = Append(shown, i)
      BY <1>1, <2>4
    <3>3. \A j, k \in DOMAIN shown' : j < k => shown'[j] < shown'[k]
      BY <1>4, <2>1, <3>1, <3>2
    <3>4. {shown'[j] : j \in DOMAIN shown'} = hits \cup {i}
      <4>1. {shown'[j] : j \in DOMAIN shown'} = {shown[j] : j \in DOMAIN shown} \cup {i}
        BY <1>4, <3>2
      <4> QED
        BY <2>1, <4>1
    <3> QED
      BY <2>2, <2>4, <3>3, <3>4 DEF Found, Wanted
  <2> QED
    BY <2>3, <2>4
<1>8. BookTypes'
  BY <1>1, <1>2, <1>3, <1>4 DEF ListInv, BookTypes
<1>9. current' = NodeOf(order', i' + 1) /\ i' <= Len(order')
  BY <1>1, <1>2
<1>10. /\ IsInjective(order') /\ abonent_count' = Len(order')
       /\ Linked(order', head', tail', next', prev') /\ heap' = From(order', 1)
       /\ pc' = "search"
  BY <1>1 DEF ListInv
<1> QED
  BY <1>7, <1>8, <1>9, <1>10 DEF ListInv

LEMMA FreeNodeStep ==
    ASSUME ListInv, FreeNode PROVE ListInv'
<1>1. /\ pc = "free" /\ current # NULL /\ current' = next[current] /\ i' = i + 1
      /\ heap' = heap \ {current}
      /\ UNCHANGED <<pc, head, tail, abonent_count, next, prev, name, order, arg, shown>>
  BY DEF FreeNode
<1>2. /\ i \in Nat /\ Len(order) \in Nat /\ DOMAIN order = 1 .. Len(order)
      /\ i + 1 \in DOMAIN order /\ current = order[i + 1]
      /\ next[current] = NodeOf(order, (i + 1) + 1)
  BY <1>1, AtItsNode
<1>3. heap' = From(order', i' + 1)
  <2>1. heap = {order[m] : m \in i + 1 .. Len(order)}
    BY <1>1 DEF ListInv, From
  <2>2. i + 1 .. Len(order) = {i + 1} \cup (i' + 1 .. Len(order)) /\ i + 1 \notin i' + 1 .. Len(order)
    BY <1>1, <1>2
  <2>3. \A m \in i' + 1 .. Len(order) : m \in DOMAIN order /\ order[m] # order[i + 1]
    <3>1. i' + 1 .. Len(order) \subseteq DOMAIN order
      BY <1>1, <1>2
    <3> QED
      BY <1>2, <2>2, <3>1 DEF ListInv, IsInjective
  <2>4. From(order', i' + 1) = {order[m] : m \in i' + 1 .. Len(order)}
    BY <1>1 DEF From
  <2> QED
    BY <1>1, <1>2, <2>1, <2>2, <2>3, <2>4
<1>4. BookTypes'
  BY <1>1, <1>2 DEF ListInv, BookTypes
<1>5. current' = NodeOf(order', i' + 1) /\ i' <= Len(order')
  BY <1>1, <1>2
<1>6. /\ IsInjective(order') /\ abonent_count' = Len(order')
      /\ Linked(order', head', tail', next', prev') /\ pc' = "free"
  BY <1>1 DEF ListInv
<1> QED
  BY <1>3, <1>4, <1>5, <1>6 DEF ListInv

LEMMA LoopEndsStep ==
    ASSUME ListInv, SearchEnds \/ FreeEnds PROVE ListInv'
<1>1. CASE SearchEnds
  <2>1. /\ pc = "search" /\ pc' = "menu"
        /\ UNCHANGED <<head, tail, abonent_count, next, prev, name, heap, order,
                       current, i, arg, shown>>
    BY <1>1 DEF SearchEnds, listVars, loopVars
  <2>2. BookTypes'
    BY <2>1 DEF ListInv, BookTypes
  <2> QED
    BY <2>1, <2>2 DEF ListInv
<1>2. CASE FreeEnds
  <2>1. /\ pc = "free" /\ current = NULL /\ pc' = "exit"
        /\ head' = NULL /\ tail' = NULL /\ abonent_count' = 0 /\ order' = << >>
        /\ UNCHANGED <<next, prev, name, heap, current, i, arg, shown>>
    BY <1>2 DEF FreeEnds, loopVars
  <2>2. order \in Seq(Nodes) /\ i \in Nat /\ NodeOf(order, i + 1) = NULL
    BY <2>1 DEF ListInv, BookTypes
  <2>3. Len(order) \in Nat /\ i + 1 \notin 1 .. Len(order)
    BY <2>2, NodeOfFacts
  <2>4. heap = {}
    <3>1. i + 1 .. Len(order) = {}
      BY <2>2, <2>3
    <3> QED
      BY <2>1, <3>1 DEF ListInv, From
  <2>5. << >> \in Seq(Nodes) /\ DOMAIN << >> = {} /\ Len(<< >>) = 0 /\ 1 .. 0 = {}
    OBVIOUS
  <2>6. BookTypes'
    BY <2>1, <2>5 DEF ListInv, BookTypes
  <2>7. Linked(order', head', tail', next', prev')
    BY <2>1, <2>5 DEF Linked, NodeOf
  <2>8. From(order', 1) = {}
    BY <2>1, <2>5 DEF From
  <2> QED
    BY <2>1, <2>4, <2>5, <2>6, <2>7, <2>8 DEF ListInv, IsInjective
<1> QED
  BY <1>1, <1>2

LEMMA ListStep == ListInv /\ [Next]_vars => ListInv'
<1> SUFFICES ASSUME ListInv, [Next]_vars PROVE ListInv'
  OBVIOUS
<1>1. CASE \E n \in Nodes, what \in Names : AddAbonent(n, what)
  BY <1>1, AddAbonentStep
<1>2. CASE \E k \in -1 .. abonent_count : DeleteAbonent(k)
  <2>1. PICK k \in -1 .. abonent_count : DeleteAbonent(k)
    BY <1>2
  <2>2. Enter("walk", k) /\ 0 <= k /\ k < Len(order)
    BY <2>1 DEF DeleteAbonent, ListInv
  <2>3. k \in Nat
    BY <2>2
  <2> QED
    BY <2>2, <2>3, EnterStep
<1>3. CASE \E what \in Names : SearchByName(what)
  BY <1>3, EnterStep DEF SearchByName
<1>4. CASE PrintAll
  BY <1>4, EnterStep DEF PrintAll
<1>5. CASE Exit
  BY <1>5, EnterStep DEF Exit
<1>6. CASE Walk \/ Unlink \/ Look \/ SearchEnds \/ FreeNode \/ FreeEnds
  BY <1>6, WalkStep, UnlinkStep, LookStep, FreeNodeStep, LoopEndsStep
<1>7. CASE UNCHANGED vars
  <2>1. UNCHANGED <<pc, head, tail, abonent_count, next, prev, name, heap, order,
                    current, i, arg, shown>>
    BY <1>7 DEF vars, listVars, loopVars
  <2>2. BookTypes'
    BY <2>1 DEF ListInv, BookTypes
  <2>3. Found(i)' <=> Found(i)
    BY <2>1 DEF Found, Wanted
  <2> QED
    BY <2>1, <2>2, <2>3 DEF ListInv
<1> QED
  BY <1>1, <1>2, <1>3, <1>4, <1>5, <1>6, <1>7 DEF Next

\* lab6/task.c: the pointers give the book forwards and backwards in the order of its
\* additions and removals, and head, tail, the count and the allocated nodes agree with
\* it, in every state of every loop (task.c:41-48, 87-97).
THEOREM ShapeTheorem == Spec => []ListShape
<1>1. ListInv => ListShape
  BY DEF ListInv, ListShape, Linked, From, Node, NodeOf
<1> QED
  BY <1>1, ListInitial, ListStep, PTL DEF Spec

\* lab6/task.c: no loop follows the pointer of a freed node, a removal is at the node of
\* its index, and a search prints the entries wanted (task.c:82-85, 114-124, 154-159).
THEOREM LoopsTheorem == Spec => []LoopsFollowTheBook
<1>1. ListInv => LoopsFollowTheBook
  BY DEF ListInv, LoopsFollowTheBook, Found, Node, NodeOf
<1> QED
  BY <1>1, ListInitial, ListStep, PTL DEF Spec

-----------------------------------------------------------------------------
(* Handshakes: what a server has printed when it ends.  What all programs     *)
(* have in common comes first, then a section for each pair.                  *)

Statuses == {"unborn", "running", "done", "failed", "dead"}
Instances == Servers \cup {Nobody}

HandshakeTypes ==
    /\ pair \in Pairs
    /\ status \in [Procs -> Statuses]
    /\ at \in [Procs -> Nat]
    /\ \A p \in Procs : at[p] \in 1 .. Len(Program(p))
    /\ bound \in [Objects -> Instances]
    /\ handle \in [Procs -> [Objects -> Instances]]
    /\ \E V : content \in [Objects -> [Servers -> V]]
    /\ \E V : heard \in [Procs -> V]
    /\ early \in [Servers -> SUBSET Clients]
    /\ crashes \in Nat

\* One server at a time; what is over stays over; an instance is there when its
\* creator is.
LivesInv ==
    /\ \A p \in Procs : status[p] = "done" => at[p] = Len(Program(p))
    /\ \A s, t \in Servers : Running(s) /\ Running(t) => s = t
    /\ \A s \in Servers : \A c \in early[s] : Over(c)
    /\ \A s \in Servers : status[s] = "unborn" =>
         /\ at[s] = 1
         /\ \A o \in Objects : /\ bound[o] # s /\ content[o][s] = << >>
                               /\ \A p \in Procs : handle[p][o] # s

CommonInv == HandshakeTypes /\ LivesInv

\* What a call of p can change.
Keeps(p) ==
    /\ Running(p) /\ Name(p) \in Objects
    /\ Return(p) \/ Fail(p, "failed") \/ Fail(p, "dead")
    /\ UNCHANGED <<pair, early, crashes>>
    /\ \/ bound' = bound
       \/ bound' = [bound EXCEPT ![Name(p)] = Nobody]
       \/ p \in Servers /\ bound' = [bound EXCEPT ![Name(p)] = p]
    /\ \/ handle' = handle
       \/ \E v \in {Nobody, bound[Name(p)]} : handle' = [handle EXCEPT ![p][Name(p)] = v]
       \/ p \in Servers /\ handle' = [handle EXCEPT ![p][Name(p)] = p]
    /\ \/ content' = content
       \/ \E v : Put(p, v)
       \/ \E v : content' = [content EXCEPT ![Name(p)][p] = v]
    /\ heard' = heard \/ \E v : heard' = [heard EXCEPT ![p] = v]

\* A call is the one the program has at this place.
LEMMA OneCall ==
    ASSUME NEW p \in Procs, NEW w, NEW o, Step(p), Program(p)[at[p]] = <<w, o>>
    PROVE  /\ Running(p) /\ Name(p) = o
           /\ w = "unlink" => UnlinkName(p)
           /\ w = "remove" => RemoveObject(p)
           /\ w = "creat" => Creat(p)
           /\ w = "mkfifo" => Mkfifo(p)
           /\ w = "open" => Open(p)
           /\ w = "close" => Close(p)
           /\ w = "openEnd" => OpenEnd(p)
           /\ w = "meet" => Meet(p)
           /\ w = "send" => Send(p)
           /\ w = "receive" => Receive(p)
           /\ w = "read" => Read(p)
           /\ w = "ftruncate" => Ftruncate(p)
           /\ w = "attach" => Attach(p)
           /\ w = "detach" => Detach(p)
           /\ w = "begin" => Begin(p)
           /\ w = "copy" => Copy(p)
           /\ w = "print" => PrintText(p)
           /\ w = "poll" => Poll(p)
           /\ w = "wait" => Wait(p)
           /\ w = "post" => Post(p)
<1>1. /\ UnlinkName(p) => Calls(p, "unlink")
      /\ RemoveObject(p) => Calls(p, "remove")
      /\ Creat(p) => Calls(p, "creat")
      /\ Mkfifo(p) => Calls(p, "mkfifo")
      /\ Open(p) => Calls(p, "open")
  BY DEF UnlinkName, RemoveObject, Creat, Mkfifo, Open
<1>2. /\ Close(p) => Calls(p, "close")
      /\ OpenEnd(p) => Calls(p, "openEnd")
      /\ Meet(p) => Calls(p, "meet")
      /\ Send(p) => Calls(p, "send")
      /\ Receive(p) => Calls(p, "receive")
  BY DEF Close, OpenEnd, Meet, Send, Receive
<1>3. /\ Read(p) => Calls(p, "read")
      /\ Ftruncate(p) => Calls(p, "ftruncate")
      /\ Attach(p) => Calls(p, "attach")
      /\ Detach(p) => Calls(p, "detach")
      /\ Begin(p) => Calls(p, "begin")
  BY DEF Read, Ftruncate, Attach, Detach, Begin
<1>4. /\ Copy(p) => Calls(p, "copy")
      /\ PrintText(p) => Calls(p, "print")
      /\ Poll(p) => Calls(p, "poll")
      /\ Wait(p) => Calls(p, "wait")
      /\ Post(p) => Calls(p, "post")
  BY DEF Copy, PrintText, Poll, Wait, Post
<1>5. \A x : Calls(p, x) => Running(p) /\ x = w
  BY DEF Calls
<1>6. Name(p) = o
  BY DEF Name
<1> QED
  BY <1>1, <1>2, <1>3, <1>4, <1>5, <1>6 DEF Step

\* The objects of the programs, and who makes them.
LEMMA ProgramFacts ==
    ASSUME HandshakeTypes, NEW p \in Procs
    PROVE  /\ Len(Program(p)) \in Nat \ {0}
           /\ Name(p) \in Objects
           /\ Program(p)[at[p]][1] \in {"creat", "mkfifo"} => p \in Servers
           /\ Program(p)[at[p]][1] = "openEnd" => Name(p) = "fifo"
<1>1. at[p] \in 1 .. Len(Program(p))
  BY DEF HandshakeTypes
<1>2. p \in Clients => p \notin Servers
  BY ProcsAssumption
<1>3. p \in Servers \/ p \in Clients
  BY DEF Procs
<1>4. CASE pair = "fifo"
  BY <1>1, <1>2, <1>3, <1>4 DEF Program, FifoServer, FifoClient, Name, Objects
<1>5. CASE pair = "posixQueue"
  BY <1>1, <1>2, <1>3, <1>5 DEF Program, PosixQueueServer, PosixQueueClient, Name, Objects
<1>6. CASE pair = "sysvQueue"
  BY <1>1, <1>2, <1>3, <1>6 DEF Program, SysvQueueServer, SysvQueueClient, Name, Objects
<1>7. CASE pair = "posixShm"
  BY <1>1, <1>2, <1>3, <1>7 DEF Program, PosixShmServer, PosixShmClient, Name, Objects
<1>8. CASE pair = "sysvShm"
  BY <1>1, <1>2, <1>3, <1>8 DEF Program, SysvShmServer, SysvShmClient, Name, Objects
<1> QED
  BY <1>4, <1>5, <1>6, <1>7, <1>8 DEF HandshakeTypes, Pairs

LEMMA StepKeeps ==
    ASSUME HandshakeTypes, NEW p \in Procs, Step(p)
    PROVE  Keeps(p)
<1>1. Name(p) \in Objects
  BY ProgramFacts
<1>2. UnlinkName(p) \/ RemoveObject(p) \/ Close(p) \/ Meet(p) => Keeps(p)
  BY <1>1 DEF Keeps, UnlinkName, RemoveObject, Close, Meet, Calls
<1>3. Creat(p) \/ Mkfifo(p) => Keeps(p)
  <2>1. Creat(p) \/ Mkfifo(p) => p \in Servers
    BY ProgramFacts DEF Creat, Mkfifo, Calls
  <2> QED
    BY <1>1, <2>1 DEF Keeps, Creat, Mkfifo, Calls
<1>4. Open(p) => Keeps(p)
  BY <1>1 DEF Keeps, Open, Calls
<1>5. OpenEnd(p) => Keeps(p)
  <2>1. OpenEnd(p) => Name(p) = "fifo"
    BY ProgramFacts DEF OpenEnd, Calls
  <2> QED
    BY <1>1, <2>1 DEF Keeps, OpenEnd, Calls
<1>6. Send(p) => Keeps(p)
  BY <1>1 DEF Keeps, Send, Calls
<1>7. Receive(p) \/ Read(p) => Keeps(p)
  BY <1>1 DEF Keeps, Receive, Read, Calls
<1>8. Ftruncate(p) \/ Begin(p) \/ Copy(p) => Keeps(p)
  BY <1>1 DEF Keeps, Ftruncate, Begin, Copy, Calls
<1>9. PrintText(p) => Keeps(p)
  BY <1>1 DEF Keeps, PrintText, Calls
<1>10. Wait(p) \/ Post(p) => Keeps(p)
  BY <1>1 DEF Keeps, Wait, Post, Calls
<1>11. Attach(p) \/ Detach(p) \/ Poll(p) => Keeps(p)
  BY <1>1 DEF Keeps, Attach, Detach, Poll, Calls
<1> QED
  BY <1>2, <1>3, <1>4, <1>5, <1>6, <1>7, <1>8, <1>9, <1>10, <1>11 DEF Step

\* Who moves is at its next call, at its end, or over.
LEMMA Moves ==
    ASSUME HandshakeTypes, NEW p \in Procs, Keeps(p)
    PROVE  /\ pair' = pair
           /\ at' \in [Procs -> Nat] /\ status' \in [Procs -> Statuses]
           /\ \A q \in Procs : q # p => at'[q] = at[q] /\ status'[q] = status[q]
           /\ \A q \in Procs : Program(q)' = Program(q) /\ at'[q] \in 1 .. Len(Program(q))
           /\ \/ /\ at'[p] = at[p] + 1 /\ at[p] < Len(Program(p)) /\ status'[p] = "running"
              \/ /\ at'[p] = at[p] /\ at[p] = Len(Program(p)) /\ status'[p] = "done"
              \/ /\ at'[p] = at[p] /\ status'[p] \in {"failed", "dead"}
<1>1. Len(Program(p)) \in Nat /\ at[p] \in 1 .. Len(Program(p)) /\ status[p] = "running"
  BY ProgramFacts DEF HandshakeTypes, Keeps, Running
<1>2. pair' = pair /\ \A q \in Procs : Program(q)' = Program(q)
  BY DEF Keeps, Program
<1>3. CASE Return(p)
  BY <1>1, <1>2, <1>3 DEF Return, HandshakeTypes, Statuses
<1>4. CASE Fail(p, "failed") \/ Fail(p, "dead")
  BY <1>1, <1>2, <1>4 DEF Fail, HandshakeTypes, Statuses
<1> QED
  BY <1>3, <1>4 DEF Keeps

\* A function of objects and instances after a change in one place.
LEMMA PutAt ==
    ASSUME NEW V, content \in [Objects -> [Servers -> V]], NEW o \in Objects, NEW t, NEW v,
           content' = [content EXCEPT ![o][t] = v]
    PROVE  /\ content' \in [Objects -> [Servers -> V \cup {v}]]
           /\ \A n \in Objects, s \in Servers : n # o \/ s # t => content'[n][s] = content[n][s]
           /\ t \in Servers => content'[o][t] = v
  OBVIOUS

LEMMA KeepsTypes ==
    ASSUME CommonInv, NEW p \in Procs, Keeps(p)
    PROVE  HandshakeTypes'
<1> USE DEF CommonInv
<1>1. Name(p) \in Objects
  BY DEF Keeps
<1>2. pair' \in Pairs /\ status' \in [Procs -> Statuses] /\ at' \in [Procs -> Nat]
  BY Moves DEF HandshakeTypes
<1>3. \A q \in Procs : at'[q] \in 1 .. Len(Program(q)')
  BY Moves
<1>4. bound' \in [Objects -> Instances]
  BY <1>1 DEF HandshakeTypes, Keeps, Instances
<1>5. handle' \in [Procs -> [Objects -> Instances]]
  <2>1. Nobody \in Instances /\ bound[Name(p)] \in Instances /\ (p \in Servers => p \in Instances)
    BY <1>1 DEF HandshakeTypes, Instances
  <2>2. handle \in [Procs -> [Objects -> Instances]]
    BY DEF HandshakeTypes
  <2>3. \A v \in Instances : [handle EXCEPT ![p][Name(p)] = v] \in [Procs -> [Objects -> Instances]]
    BY <1>1, <2>2
  <2> QED
    BY <2>1, <2>2, <2>3 DEF Keeps
<1>6. \E V : content' \in [Objects -> [Servers -> V]]
  <2>1. PICK V : content \in [Objects -> [Servers -> V]]
    BY DEF HandshakeTypes
  <2>2. CASE content' = content
    BY <2>1, <2>2
  <2>3. ASSUME NEW t, NEW v, content' = [content EXCEPT ![Name(p)][t] = v]
        PROVE  \E W : content' \in [Objects -> [Servers -> W]]
    <3>1. content' \in [Objects -> [Servers -> V \cup {v}]]
      BY <1>1, <2>1, <2>3
    <3> QED
      BY <3>1
  <2> QED
    BY <2>2, <2>3 DEF Keeps, Put
<1>7. \E V : heard' \in [Procs -> V]
  <2>1. PICK V : heard \in [Procs -> V]
    BY DEF HandshakeTypes
  <2>2. CASE heard' = heard
    BY <2>1, <2>2
  <2>3. ASSUME NEW v, heard' = [heard EXCEPT ![p] = v]
        PROVE  \E W : heard' \in [Procs -> W]
    <3>1. heard' \in [Procs -> V \cup {v}]
      BY <2>1, <2>3
    <3> QED
      BY <3>1
  <2> QED
    BY <2>2, <2>3 DEF Keeps
<1>8. early' \in [Servers -> SUBSET Clients] /\ crashes' \in Nat
  BY DEF HandshakeTypes, Keeps
<1> QED
  BY <1>2, <1>3, <1>4, <1>5, <1>6, <1>7, <1>8 DEF HandshakeTypes

LEMMA KeepsLives ==
    ASSUME CommonInv, NEW p \in Procs, Keeps(p)
    PROVE  LivesInv'
<1> USE DEF CommonInv
<1>1. /\ Name(p) \in Objects /\ status[p] = "running"
      /\ Servers \subseteq Procs /\ Clients \subseteq Procs
  BY DEF Keeps, Procs, Running
<1>2. \A q \in Procs : Over(q) => Over(q)'
  BY <1>1, Moves DEF Over
<1>3. \A q \in Procs : Running(q)' => Running(q)
  BY <1>1, Moves DEF Running
<1>4. \A q \in Procs : status'[q] = "done" => at'[q] = Len(Program(q)')
  BY <1>1, Moves DEF LivesInv
<1>5. \A s, t \in Servers : Running(s)' /\ Running(t)' => s = t
  BY <1>1, <1>3 DEF LivesInv
<1>6. \A s \in Servers : \A c \in early'[s] : Over(c)'
  <2>1. early' = early
    BY DEF Keeps
  <2>2. \A s \in Servers : early[s] \subseteq Procs
    BY <1>1 DEF HandshakeTypes
  <2> QED
    BY <1>2, <2>1, <2>2 DEF LivesInv
<1>7. ASSUME NEW s \in Servers, status'[s] = "unborn"
      PROVE  /\ at'[s] = 1
             /\ \A o \in Objects : /\ bound'[o] # s /\ content'[o][s] = << >>
                                   /\ \A q \in Procs : handle'[q][o] # s
  <2>1. s # p /\ status[s] = "unborn" /\ at'[s] = at[s] /\ s # Nobody
    BY <1>1, <1>7, Moves, ProcsAssumption
  <2>2. /\ at[s] = 1
        /\ \A o \in Objects : /\ bound[o] # s /\ content[o][s] = << >>
                              /\ \A q \in Procs : handle[q][o] # s
    BY <2>1 DEF LivesInv
  <2>3. \A o \in Objects : bound'[o] # s
    BY <1>1, <2>1, <2>2 DEF Keeps, HandshakeTypes
  <2>4. \A o \in Objects, q \in Procs : handle'[q][o] # s
    <3>1. handle \in [Procs -> [Objects -> Instances]]
      BY DEF HandshakeTypes
    <3>2. \A v : v # s /\ handle' = [handle EXCEPT ![p][Name(p)] = v] =>
            \A o \in Objects, q \in Procs : handle'[q][o] # s
      BY <1>1, <2>2, <3>1
    <3> QED
      BY <1>1, <2>1, <2>2, <3>2 DEF Keeps
  <2>5. \A o \in Objects : content'[o][s] = content[o][s]
    <3>1. PICK V : content \in [Objects -> [Servers -> V]]
      BY DEF HandshakeTypes
    <3>2. ASSUME NEW t, t # s, NEW v, content' = [content EXCEPT ![Name(p)][t] = v]
          PROVE  \A o \in Objects : content'[o][s] = content[o][s]
      BY <1>1, <3>1, <3>2, PutAt
    <3>3. Instance(p) # s
      BY <1>1, <2>2 DEF Instance
    <3> QED
      BY <2>1, <3>2, <3>3 DEF Keeps, Put
  <2> QED
    BY <2>1, <2>2, <2>3, <2>4, <2>5
<1> QED
  BY <1>4, <1>5, <1>6, <1>7 DEF LivesInv

LEMMA CommonInitial == HandshakesInit => CommonInv
<1> SUFFICES ASSUME HandshakesInit PROVE CommonInv
  OBVIOUS
<1>1. pair \in Pairs /\ Servers \subseteq Procs
  BY DEF HandshakesInit, Procs
<1>2. \A p \in Procs : Len(Program(p)) \in Nat \ {0}
  BY <1>1 DEF Program, Pairs, FifoServer, FifoClient, PosixQueueServer, PosixQueueClient,
              SysvQueueServer, SysvQueueClient, PosixShmServer, PosixShmClient,
              SysvShmServer, SysvShmClient
<1>3. content \in [Objects -> [Servers -> {<< >>}]] /\ heard \in [Procs -> {Nobody}]
  BY DEF HandshakesInit
<1>4. HandshakeTypes
  <2>1. \E V : content \in [Objects -> [Servers -> V]]
    BY <1>3
  <2>2. \E V : heard \in [Procs -> V]
    BY <1>3
  <2>3. /\ status \in [Procs -> Statuses] /\ at \in [Procs -> Nat] /\ crashes \in Nat
        /\ early \in [Servers -> SUBSET Clients] /\ \A p \in Procs : at[p] = 1
    BY DEF HandshakesInit, Statuses
  <2>4. bound \in [Objects -> Instances] /\ handle \in [Procs -> [Objects -> Instances]]
    BY DEF HandshakesInit, Instances
  <2>5. \A p \in Procs : at[p] \in 1 .. Len(Program(p))
    BY <1>2, <2>3
  <2> QED
    BY <1>1, <2>1, <2>2, <2>3, <2>4, <2>5 DEF HandshakeTypes
<1>5. LivesInv
  <2>1. \A p \in Procs : status[p] = "unborn"
    BY DEF HandshakesInit
  <2>2. \A s \in Servers : early[s] = {} /\ s # Nobody
    BY ProcsAssumption DEF HandshakesInit
  <2> QED
    BY <1>1, <2>1, <2>2 DEF HandshakesInit, LivesInv, Running
<1> QED
  BY <1>4, <1>5 DEF CommonInv

LEMMA CommonStep == CommonInv /\ [HandshakesNext]_handshakeVars => CommonInv'
<1> SUFFICES ASSUME CommonInv, [HandshakesNext]_handshakeVars PROVE CommonInv'
  OBVIOUS
<1> USE DEF CommonInv
<1>1. Servers \subseteq Procs /\ Clients \subseteq Procs
  BY DEF Procs
<1>2. ASSUME NEW p \in Procs, Start(p) PROVE CommonInv'
  <2>1. /\ UNCHANGED <<pair, at, bound, handle, content, heard, crashes>>
        /\ status' = [status EXCEPT ![p] = "running"] /\ status[p] = "unborn"
        /\ p \in Servers => \A s \in Servers : ~ Running(s)
    BY <1>2 DEF Start
  <2>2. early' \in [Servers -> SUBSET Clients]
    BY <1>2 DEF Start, HandshakeTypes
  <2>3. \A q \in Procs : Program(q)' = Program(q)
    BY <2>1 DEF Program
  <2>4. HandshakeTypes'
    BY <2>1, <2>2, <2>3 DEF HandshakeTypes, Statuses
  <2>5. \A q \in Procs : Over(q) => Over(q)'
    BY <2>1 DEF Over, HandshakeTypes
  <2>6. \A s \in Servers : \A c \in early'[s] : Over(c)'
    <3>1. \A s \in Servers : \A c \in early[s] : c \in Procs /\ Over(c)
      BY <1>1 DEF LivesInv, HandshakeTypes
    <3>2. \A s \in Servers : \A c \in early'[s] : c \in Procs /\ Over(c)
      BY <1>1, <1>2, <3>1 DEF Start, HandshakeTypes
    <3> QED
      BY <2>5, <3>2
  <2>7. \A s, t \in Servers : Running(s)' /\ Running(t)' => s = t
    BY <1>1, <2>1 DEF Running, LivesInv, HandshakeTypes
  <2>8. \A q \in Procs : /\ status'[q] = "done" => at'[q] = Len(Program(q)')
                         /\ status'[q] = "unborn" => status[q] = "unborn"
    BY <2>1, <2>3 DEF LivesInv, HandshakeTypes
  <2>9. LivesInv'
    BY <1>1, <2>1, <2>6, <2>7, <2>8 DEF LivesInv
  <2> QED
    BY <2>4, <2>9
<1>3. ASSUME NEW p \in Procs, Step(p) PROVE CommonInv'
  BY <1>3, StepKeeps, KeepsTypes, KeepsLives
<1>4. ASSUME NEW p \in Procs, Crash(p) PROVE CommonInv'
  <2>1. /\ UNCHANGED <<pair, at, bound, handle, content, heard, early>>
        /\ status' = [status EXCEPT ![p] = "dead"] /\ status[p] = "running"
        /\ crashes' \in Nat
    BY <1>4 DEF Crash, Running, HandshakeTypes
  <2>3. \A q \in Procs : Program(q)' = Program(q)
    BY <2>1 DEF Program
  <2>4. HandshakeTypes'
    BY <2>1, <2>3 DEF HandshakeTypes, Statuses
  <2>5. \A q \in Procs : Over(q) => Over(q)'
    BY <2>1 DEF Over, HandshakeTypes
  <2>6. \A s \in Servers : \A c \in early'[s] : Over(c)'
    BY <1>1, <2>1, <2>5 DEF LivesInv, HandshakeTypes
  <2>7. \A s, t \in Servers : Running(s)' /\ Running(t)' => s = t
    BY <1>1, <2>1 DEF Running, LivesInv, HandshakeTypes
  <2>8. \A q \in Procs : /\ status'[q] = "done" => at'[q] = Len(Program(q)')
                         /\ status'[q] = "unborn" => status[q] = "unborn"
    BY <2>1, <2>3 DEF LivesInv, HandshakeTypes
  <2>9. LivesInv'
    BY <1>1, <2>1, <2>6, <2>7, <2>8 DEF LivesInv
  <2> QED
    BY <2>4, <2>9
<1>5. CASE UNCHANGED handshakeVars
  <2>1. UNCHANGED <<pair, status, at, bound, handle, content, heard, early, crashes>>
    BY <1>5 DEF handshakeVars
  <2>2. \A q \in Procs : Program(q)' = Program(q)
    BY <2>1 DEF Program
  <2>3. HandshakeTypes'
    BY <2>1, <2>2 DEF HandshakeTypes
  <2>4. LivesInv'
    BY <1>1, <2>1, <2>2 DEF LivesInv, Running, Over
  <2> QED
    BY <2>3, <2>4
<1> QED
  BY <1>2, <1>3, <1>4, <1>5 DEF HandshakesNext

-----------------------------------------------------------------------------
(* Handshakes, System V shared memory: a server's own words are never what it *)
(* prints, since after its strcpy nobody writes them again.                   *)

\* What a text in memory consists of.
Words == Procs \cup {"part", "mixed", "blank", "noroom"}

SysvShmInv == pair = "sysvShm" =>
    /\ content["shm"] \in [Servers -> Seq(Words)]
    /\ \A s \in Servers :
         /\ at[s] > 1 => handle[s]["shm"] \in Servers
         /\ at[s] = 6 => content["shm"][handle[s]["shm"]] # Text(s)
         /\ at[s] > 6 => heard[s] # s

LEMMA SysvShmCalls ==
    ASSUME pair = "sysvShm"
    PROVE  /\ \A s \in Servers :
                /\ Program(s) = SysvShmServer /\ Len(Program(s)) = 8
                /\ Program(s)[1] = <<"creat", "shm">> /\ Program(s)[2] = <<"attach", "shm">>
                /\ Program(s)[3] = <<"begin", "shm">> /\ Program(s)[4] = <<"copy", "shm">>
                /\ Program(s)[5] = <<"poll", "shm">> /\ Program(s)[6] = <<"print", "shm">>
                /\ Program(s)[7] = <<"detach", "shm">> /\ Program(s)[8] = <<"remove", "shm">>
           /\ \A c \in Clients :
                /\ Program(c) = SysvShmClient /\ Len(Program(c)) = 6
                /\ Program(c)[1] = <<"open", "shm">> /\ Program(c)[2] = <<"attach", "shm">>
                /\ Program(c)[3] = <<"print", "shm">> /\ Program(c)[4] = <<"begin", "shm">>
                /\ Program(c)[5] = <<"copy", "shm">> /\ Program(c)[6] = <<"detach", "shm">>
<1>1. \A c \in Clients : c \notin Servers
  BY ProcsAssumption
<1>2. \A s \in Servers : Program(s) = SysvShmServer
  BY DEF Program
<1>3. \A c \in Clients : Program(c) = SysvShmClient
  BY <1>1 DEF Program
<1> QED
  BY <1>2, <1>3 DEF SysvShmServer, SysvShmClient

\* What p can write: nothing that is another's text.
LEMMA SysvShmWrites ==
    ASSUME CommonInv, SysvShmInv, pair = "sysvShm", NEW p \in Procs, Step(p)
    PROVE  /\ content'["shm"] \in [Servers -> Seq(Words)]
           /\ \A s \in Servers, t \in Servers :
                s # p /\ content["shm"][t] # Text(s) => content'["shm"][t] # Text(s)
<1> DEFINE Mine == {Text(p), Part(p), Mixed, Blank}
<1>1. Mine \subseteq Seq(Words) /\ \A s \in Procs \ {p} : Text(s) \notin Mine
  BY ProcsAssumption DEF Text, Part, Mixed, Blank, Words, Procs
<1>2. content' = content \/ \E t, v : v \in Mine /\ content' = [content EXCEPT !["shm"][t] = v]
  <2>1. Name(p) = "shm"
    <3>1. /\ p \in Servers => at[p] \in 1 .. 8 /\ Program(p) = SysvShmServer
          /\ p \in Clients => at[p] \in 1 .. 6 /\ Program(p) = SysvShmClient
      BY SysvShmCalls DEF CommonInv, HandshakeTypes
    <3> QED
      BY <3>1 DEF Name, SysvShmServer, SysvShmClient, Procs
  <2>2. Program(p)[at[p]][1] \in {"creat", "attach", "begin", "copy", "poll", "print", "detach",
                                  "remove", "open"}
    <3>1. /\ p \in Servers => at[p] \in 1 .. 8 /\ Program(p) = SysvShmServer
          /\ p \in Clients => at[p] \in 1 .. 6 /\ Program(p) = SysvShmClient
      BY SysvShmCalls DEF CommonInv, HandshakeTypes
    <3> QED
      BY <3>1 DEF SysvShmServer, SysvShmClient, Procs
  <2>3. \/ Creat(p) \/ Attach(p) \/ Begin(p) \/ Copy(p) \/ Poll(p) \/ PrintText(p) \/ Detach(p)
        \/ RemoveObject(p) \/ Open(p)
    BY <2>2 DEF Step, UnlinkName, Mkfifo, Close, OpenEnd, Meet, Send, Receive, Read, Ftruncate,
                Wait, Post, Calls
  <2>4. CASE Attach(p) \/ Poll(p) \/ PrintText(p) \/ Detach(p) \/ RemoveObject(p) \/ Open(p)
    BY <2>4 DEF Attach, Poll, PrintText, Detach, RemoveObject, Open
  <2>5. CASE Creat(p)
    BY <2>1, <2>5 DEF Creat, Fresh
  <2>6. CASE Begin(p)
    BY <2>1, <2>6 DEF Begin, Put
  <2>7. CASE Copy(p)
    BY <2>1, <2>7 DEF Copy, Put
  <2> QED
    BY <2>3, <2>4, <2>5, <2>6, <2>7
<1> HIDE DEF Mine
<1>3. CASE content' = content
  BY <1>3 DEF SysvShmInv
<1>4. ASSUME NEW t, NEW v \in Mine, content' = [content EXCEPT !["shm"][t] = v]
      PROVE  /\ content'["shm"] \in [Servers -> Seq(Words)]
             /\ \A s \in Servers, u \in Servers :
                  s # p /\ content["shm"][u] # Text(s) => content'["shm"][u] # Text(s)
  <2>1. PICK V : content \in [Objects -> [Servers -> V]]
    BY DEF CommonInv, HandshakeTypes
  <2>2. content'["shm"] = [content["shm"] EXCEPT ![t] = v]
    BY <1>4, <2>1 DEF Objects
  <2>3. v \in Seq(Words) /\ \A s \in Servers : s # p => v # Text(s)
    BY <1>1 DEF Procs
  <2>4. content["shm"] \in [Servers -> Seq(Words)]
    BY DEF SysvShmInv
  <2>5. content'["shm"] \in [Servers -> Seq(Words)]
    BY <2>2, <2>3, <2>4
  <2>6. \A u \in Servers : content'["shm"][u] = v \/ content'["shm"][u] = content["shm"][u]
    BY <2>2, <2>4
  <2> QED
    BY <2>3, <2>5, <2>6
<1> QED
  BY <1>2, <1>3, <1>4

LEMMA SysvShmStep ==
    ASSUME CommonInv, SysvShmInv, pair = "sysvShm", NEW p \in Procs, Step(p)
    PROVE  SysvShmInv'
<1>1. Keeps(p) /\ Servers \subseteq Procs
  BY StepKeeps DEF CommonInv, Procs
<1>2. \A q \in Procs : q # p => /\ at'[q] = at[q] /\ handle'[q] = handle[q]
                                /\ heard'[q] = heard[q]
  BY <1>1, Moves DEF Keeps, CommonInv, HandshakeTypes
<1>3. ASSUME NEW s \in Servers, s # p
      PROVE  /\ at'[s] > 1 => handle'[s]["shm"] \in Servers
             /\ at'[s] = 6 => content'["shm"][handle'[s]["shm"]] # Text(s)
             /\ at'[s] > 6 => heard'[s] # s
  <2>1. /\ at'[s] = at[s] /\ handle'[s] = handle[s] /\ heard'[s] = heard[s]
        /\ at[s] \in Nat
    BY <1>1, <1>2, <1>3 DEF CommonInv, HandshakeTypes
  <2>2. at[s] = 6 => handle[s]["shm"] \in Servers /\ content["shm"][handle[s]["shm"]] # Text(s)
    BY DEF SysvShmInv
  <2>3. \A u \in Servers : content["shm"][u] # Text(s) => content'["shm"][u] # Text(s)
    BY <1>3, SysvShmWrites
  <2>4. /\ at[s] > 1 => handle[s]["shm"] \in Servers
        /\ at[s] > 6 => heard[s] # s
    BY DEF SysvShmInv
  <2> QED
    BY <2>1, <2>2, <2>3, <2>4
<1>4. ASSUME p \in Servers
      PROVE  /\ at'[p] > 1 => handle'[p]["shm"] \in Servers
             /\ at'[p] = 6 => content'["shm"][handle'[p]["shm"]] # Text(p)
             /\ at'[p] > 6 => heard'[p] # p
  <2>1. at[p] \in 1 .. 8 /\ Len(Program(p)) = 8
    BY <1>1, <1>4, SysvShmCalls DEF CommonInv, HandshakeTypes
  <2>2. at'[p] \in {at[p], at[p] + 1} /\ (at'[p] = at[p] => status'[p] # "running" )
    BY <1>1, <2>1, Moves DEF CommonInv
  <2>3. /\ handle \in [Procs -> [Objects -> Instances]] /\ bound \in [Objects -> Instances]
        /\ "shm" \in Objects
    BY DEF CommonInv, HandshakeTypes, Objects
  <2>4. CASE at[p] = 1
    <3>1. Program(p)[at[p]] = <<"creat", "shm">>
      BY <1>4, <2>4, SysvShmCalls
    <3>2. Creat(p) /\ Name(p) = "shm"
      BY <3>1, OneCall
    <3>3. handle'[p]["shm"] \in Servers
      BY <1>4, <2>3, <3>2 DEF Creat, Instances
    <3> QED
      BY <2>2, <2>4, <3>3
  <2>5. CASE at[p] \in 2 .. 5 /\ at'[p] < 6
    <3>1. Program(p)[at[p]][1] \notin {"creat", "close", "open", "openEnd"}
      BY <1>4, <2>5, SysvShmCalls
    <3>2. handle' = handle
      BY <3>1 DEF Step, UnlinkName, RemoveObject, Creat, Mkfifo, Open, Close, OpenEnd, Meet, Send,
                  Receive, Read, Ftruncate, Attach, Detach, Begin, Copy, PrintText, Poll, Wait,
                  Post, Calls
    <3> QED
      BY <1>4, <2>1, <2>2, <2>5, <3>2 DEF SysvShmInv
  <2>6. CASE at[p] = 5 /\ at'[p] = 6
    <3>1. Program(p)[at[p]] = <<"poll", "shm">>
      BY <1>4, <2>6, SysvShmCalls
    <3>2. Poll(p) /\ Name(p) = "shm"
      BY <3>1, OneCall
    <3> QED
      BY <1>4, <2>6, <3>2 DEF Poll, Content, Instance, SysvShmInv
  <2>7. CASE at[p] = 6
    <3>1. Program(p)[at[p]] = <<"print", "shm">>
      BY <1>4, <2>7, SysvShmCalls
    <3>2. PrintText(p) /\ Name(p) = "shm"
      BY <3>1, OneCall
    <3>3. handle'[p]["shm"] \in Servers /\ content' = content
          /\ content["shm"][handle[p]["shm"]] # Text(p) /\ handle' = handle
      BY <1>4, <2>7, <3>2 DEF PrintText, SysvShmInv
    <3>4. at'[p] = 6 \/ at'[p] = 7
      BY <2>2, <2>7
    <3>5. at'[p] = 7 => heard'[p] # p
      <4> DEFINE held == content["shm"][handle[p]["shm"]]
      <4>1. held \in Seq(Words) /\ held # <<p>> /\ p # "mixed"
        BY <1>4, <2>7, <3>3, ProcsAssumption DEF SysvShmInv, Text
      <4>2. Printed(held) # p
        BY <4>1 DEF Printed
      <4>3. PICK V : heard \in [Procs -> V]
        BY DEF CommonInv, HandshakeTypes
      <4>4. at'[p] = 7 => heard' = [heard EXCEPT ![p] = Printed(held)]
        BY <2>7, <3>2 DEF PrintText, Content, Instance, Fail
      <4> QED
        BY <4>2, <4>3, <4>4
    <3> QED
      BY <3>3, <3>4, <3>5
  <2>8. CASE at[p] \in 7 .. 8
    <3>1. Program(p)[at[p]][1] \in {"detach", "remove"}
      BY <1>4, <2>8, SysvShmCalls
    <3>2. handle' = handle /\ heard' = heard
      BY <3>1 DEF Step, UnlinkName, RemoveObject, Creat, Mkfifo, Open, Close, OpenEnd, Meet, Send,
                  Receive, Read, Ftruncate, Attach, Detach, Begin, Copy, PrintText, Poll, Wait,
                  Post, Calls
    <3> QED
      BY <1>4, <2>2, <2>8, <3>2 DEF SysvShmInv
  <2>9. at[p] \in 2 .. 5 => at'[p] < 6 \/ (at[p] = 5 /\ at'[p] = 6)
    BY <2>1, <2>2
  <2> QED
    BY <2>1, <2>4, <2>5, <2>6, <2>7, <2>8, <2>9
<1>5. content'["shm"] \in [Servers -> Seq(Words)]
  BY SysvShmWrites
<1> QED
  BY <1>3, <1>4, <1>5 DEF SysvShmInv

LEMMA SysvShmAll ==
    ASSUME CommonInv, SysvShmInv, [HandshakesNext]_handshakeVars
    PROVE  SysvShmInv'
<1>1. ASSUME NEW p \in Procs, Step(p) PROVE SysvShmInv'
  <2>1. pair' = pair
    BY <1>1, StepKeeps DEF Keeps, CommonInv
  <2> QED
    BY <1>1, <2>1, SysvShmStep DEF SysvShmInv
<1>2. CASE UNCHANGED <<pair, at, handle, content, heard>>
  BY <1>2 DEF SysvShmInv
<1> QED
  BY <1>1, <1>2 DEF HandshakesNext, Start, Crash, handshakeVars

LEMMA SysvShmInitial == HandshakesInit => SysvShmInv
<1> SUFFICES ASSUME HandshakesInit
             PROVE  /\ content["shm"] \in [Servers -> Seq(Words)]
                    /\ \A s \in Servers : at[s] = 1
  BY DEF SysvShmInv
<1>1. "shm" \in Objects /\ Servers \subseteq Procs
  BY DEF Objects, Procs
<1> QED
  BY <1>1 DEF HandshakesInit

LEMMA OthersStay ==
    ASSUME CommonInv, NEW p \in Procs, Step(p)
    PROVE  /\ \A q \in Procs : q # p => /\ at'[q] = at[q] /\ status'[q] = status[q]
                                        /\ handle'[q] = handle[q] /\ heard'[q] = heard[q]
           /\ UNCHANGED <<pair, early, crashes>>
           /\ status[p] = "running" /\ at[p] \in 1 .. Len(Program(p)) /\ Len(Program(p)) \in Nat
           /\ \/ at'[p] = at[p] + 1 /\ at[p] < Len(Program(p)) /\ status'[p] = "running"
              \/ at'[p] = at[p] /\ at[p] = Len(Program(p)) /\ status'[p] = "done"
              \/ at'[p] = at[p] /\ status'[p] \in {"failed", "dead"}
<1>1. Keeps(p)
  BY StepKeeps DEF CommonInv
<1> QED
  BY <1>1, Moves, ProgramFacts DEF Keeps, Running, CommonInv, HandshakeTypes

LEMMA Roles ==
    /\ Servers \subseteq Procs /\ Clients \subseteq Procs /\ Nobody \notin Procs
    /\ \A c \in Clients : c \notin Servers
    /\ {"toClient", "toServer", "shm", "sem"} \subseteq Objects
  BY ProcsAssumption DEF Procs, Objects

-----------------------------------------------------------------------------
(* Handshakes, queues: whose answer a server takes.                          *)

OverQueues == pair \in {"posixQueue", "sysvQueue"}

\* The POSIX server removes leftovers first; then both servers make the same calls.
Skip == IF pair = "posixQueue" THEN 2 ELSE 0

ServerOpens(s) ==
    /\ at[s] > Skip + 1 => handle[s]["toClient"] \in Servers
    /\ at[s] > Skip + 2 => handle[s]["toServer"] \in Servers
    /\ at[s] > Skip + 4 => heard[s] \in Clients

ClientOpens(c) ==
    /\ at[c] > 1 => handle[c]["toClient"] \in Servers
    /\ at[c] > 2 => handle[c]["toServer"] \in Servers

QueueInv == OverQueues =>
    /\ content["toServer"] \in [Servers -> Seq(Clients)]
    /\ content["toClient"] \in [Servers -> Seq(Servers)]
    /\ \A s \in Servers : ServerOpens(s)
    /\ \A c \in Clients : ClientOpens(c)

\* The queue a POSIX server waits at is its own, and nobody that was over when it
\* started has written into it.
OwnQueueInv == pair = "posixQueue" => \A s \in Servers :
    /\ Running(s) /\ at[s] \in {3, 4} => bound["toServer"] = Nobody
    /\ at[s] > 4 => handle[s]["toServer"] = s
    /\ \A k \in DOMAIN content["toServer"][s] : content["toServer"][s][k] \notin early[s]
    /\ at[s] > 6 => heard[s] \notin early[s]

\* As long as nobody is killed a server has made its own queues, there is one "Hi!"
\* of it, and who has taken it is the one that answers.
CalmNames(s) ==
    /\ status[s] \notin {"failed", "dead"}
    /\ bound["toClient"] = s => Running(s) /\ at[s] \in Skip + 2 .. Skip + 5
    /\ bound["toServer"] = s => Running(s) /\ at[s] \in Skip + 3 .. Skip + 6
    /\ at[s] > Skip + 1 => handle[s]["toClient"] = s
    /\ at[s] > Skip + 2 => handle[s]["toServer"] = s
    /\ <<"toClient", s>> \in removed => at[s] = Skip + 6
    /\ <<"toServer", s>> \in removed => status[s] = "done"

CalmTexts(s) ==
    /\ content["toClient"][s] # << >> =>
         content["toClient"][s] = <<s>> /\ \A c \in Clients : heard[c] # s
    /\ at[s] < Skip + 4 => content["toClient"][s] = << >> /\ \A c \in Clients : heard[c] # s
    /\ \A k \in DOMAIN content["toServer"][s] : heard[content["toServer"][s][k]] = s
    /\ at[s] > Skip + 4 => heard[heard[s]] = s

CalmClient(c) ==
    /\ at[c] < 4 => heard[c] = Nobody
    /\ at[c] = 4 => heard[c] = handle[c]["toServer"]
    /\ at[c] = 3 /\ handle[c]["toServer"] # handle[c]["toClient"] =>
         status[handle[c]["toClient"]] = "done"

CalmInv == OverQueues /\ crashes = 0 =>
    (\A s \in Servers : CalmNames(s) /\ CalmTexts(s)) /\ (\A c \in Clients : CalmClient(c))

QueuesInv == QueueInv /\ OwnQueueInv /\ CalmInv

LEMMA QueueCalls ==
    ASSUME OverQueues
    PROVE  /\ \A s \in Servers :
                /\ Len(Program(s)) = Skip + 6 /\ Skip \in {0, 2}
                /\ Skip = 2 => Program(s)[1] = <<"unlink", "toClient">>
                               /\ Program(s)[2] = <<"unlink", "toServer">>
                /\ Program(s)[Skip + 1] = <<"creat", "toClient">>
                /\ Program(s)[Skip + 2] = <<"creat", "toServer">>
                /\ Program(s)[Skip + 3] = <<"send", "toClient">>
                /\ Program(s)[Skip + 4] = <<"receive", "toServer">>
                /\ Program(s)[Skip + 5] \in {<<"unlink", "toClient">>, <<"remove", "toClient">>}
                /\ Program(s)[Skip + 6] \in {<<"unlink", "toServer">>, <<"remove", "toServer">>}
           /\ \A c \in Clients :
                /\ Len(Program(c)) = 4
                /\ Program(c)[1] = <<"open", "toClient">> /\ Program(c)[2] = <<"open", "toServer">>
                /\ Program(c)[3] = <<"receive", "toClient">> /\ Program(c)[4] = <<"send", "toServer">>
<1>1. \A s \in Servers : Program(s) = IF pair = "posixQueue" THEN PosixQueueServer ELSE SysvQueueServer
  BY DEF Program, OverQueues
<1>2. \A c \in Clients : Program(c) = IF pair = "posixQueue" THEN PosixQueueClient ELSE SysvQueueClient
  BY Roles DEF Program, OverQueues
<1> QED
  BY <1>1, <1>2 DEF PosixQueueServer, SysvQueueServer, PosixQueueClient, SysvQueueClient, Skip

LEMMA QueueServerCalls ==
    ASSUME CommonInv, OverQueues, NEW s \in Servers, Step(s)
    PROVE  /\ at[s] \in 1 .. Skip + 6 /\ Skip \in {0, 2}
           /\ at[s] <= Skip => UnlinkName(s) /\ Name(s) = (IF at[s] = 1 THEN "toClient" ELSE "toServer")
           /\ at[s] = Skip + 1 => Creat(s) /\ Name(s) = "toClient"
           /\ at[s] = Skip + 2 => Creat(s) /\ Name(s) = "toServer"
           /\ at[s] = Skip + 3 => Send(s) /\ Name(s) = "toClient"
           /\ at[s] = Skip + 4 => Receive(s) /\ Name(s) = "toServer"
           /\ at[s] = Skip + 5 => (UnlinkName(s) \/ RemoveObject(s)) /\ Name(s) = "toClient"
           /\ at[s] = Skip + 6 => (UnlinkName(s) \/ RemoveObject(s)) /\ Name(s) = "toServer"
<1>1. at[s] \in 1 .. Skip + 6 /\ Skip \in {0, 2} /\ s \in Procs
  BY Roles, OthersStay, QueueCalls
<1>2. at[s] <= Skip => UnlinkName(s) /\ Name(s) = (IF at[s] = 1 THEN "toClient" ELSE "toServer")
  <2>1. at[s] <= Skip => Program(s)[at[s]] = <<"unlink", IF at[s] = 1 THEN "toClient" ELSE "toServer">>
    BY <1>1, QueueCalls
  <2> QED
    BY <1>1, <2>1, OneCall
<1>3. at[s] = Skip + 1 => Creat(s) /\ Name(s) = "toClient"
  BY <1>1, QueueCalls, OneCall
<1>4. at[s] = Skip + 2 => Creat(s) /\ Name(s) = "toServer"
  BY <1>1, QueueCalls, OneCall
<1>5. at[s] = Skip + 3 => Send(s) /\ Name(s) = "toClient"
  BY <1>1, QueueCalls, OneCall
<1>6. at[s] = Skip + 4 => Receive(s) /\ Name(s) = "toServer"
  BY <1>1, QueueCalls, OneCall
<1>7. at[s] = Skip + 5 => (UnlinkName(s) \/ RemoveObject(s)) /\ Name(s) = "toClient"
  BY <1>1, QueueCalls, OneCall
<1>8. at[s] = Skip + 6 => (UnlinkName(s) \/ RemoveObject(s)) /\ Name(s) = "toServer"
  BY <1>1, QueueCalls, OneCall
<1> QED
  BY <1>1, <1>2, <1>3, <1>4, <1>5, <1>6, <1>7, <1>8

LEMMA QueueClientCalls ==
    ASSUME CommonInv, OverQueues, NEW c \in Clients, Step(c)
    PROVE  /\ at[c] \in 1 .. 4
           /\ at[c] = 1 => Open(c) /\ Name(c) = "toClient"
           /\ at[c] = 2 => Open(c) /\ Name(c) = "toServer"
           /\ at[c] = 3 => Receive(c) /\ Name(c) = "toClient"
           /\ at[c] = 4 => Send(c) /\ Name(c) = "toServer"
<1>1. at[c] \in 1 .. 4 /\ c \in Procs
  BY Roles, OthersStay, QueueCalls
<1>2. at[c] = 1 => Open(c) /\ Name(c) = "toClient"
  BY <1>1, QueueCalls, OneCall
<1>3. at[c] = 2 => Open(c) /\ Name(c) = "toServer"
  BY <1>1, QueueCalls, OneCall
<1>4. at[c] = 3 => Receive(c) /\ Name(c) = "toClient"
  BY <1>1, QueueCalls, OneCall
<1>5. at[c] = 4 => Send(c) /\ Name(c) = "toServer"
  BY <1>1, QueueCalls, OneCall
<1> QED
  BY <1>1, <1>2, <1>3, <1>4, <1>5

\* Opening, making and removing names, and starting: no text moves.
LEMMA QueueDrop ==
    ASSUME CommonInv, QueuesInv, OverQueues, NEW s \in Servers, Step(s),
           UnlinkName(s) \/ RemoveObject(s),
           \/ at[s] <= Skip /\ Name(s) = (IF at[s] = 1 THEN "toClient" ELSE "toServer")
           \/ at[s] = Skip + 5 /\ Name(s) = "toClient"
           \/ at[s] = Skip + 6 /\ Name(s) = "toServer",
           at[s] <= Skip => UnlinkName(s)
    PROVE  QueuesInv'
<1>1. /\ s \in Procs /\ Skip \in {0, 2} /\ Skip' = Skip /\ OverQueues' /\ at[s] \in 1 .. Skip + 6
      /\ \A q \in Procs : q # s => /\ at'[q] = at[q] /\ status'[q] = status[q]
      /\ UNCHANGED <<pair, early, crashes, handle, content, heard>>
      /\ status[s] = "running" /\ Len(Program(s)) = Skip + 6
  BY Roles, OthersStay, QueueCalls, QueueServerCalls
     DEF Skip, OverQueues, UnlinkName, RemoveObject
<1>2. \/ at'[s] = at[s] + 1 /\ at[s] < Skip + 6 /\ status'[s] = "running"
      \/ at'[s] = at[s] /\ at[s] = Skip + 6 /\ status'[s] = "done"
  BY <1>1, Roles DEF UnlinkName, RemoveObject, Return, CommonInv, HandshakeTypes
<1>3. /\ bound'[Name(s)] = Nobody /\ Name(s) \in {"toClient", "toServer"}
      /\ \A o \in Objects : bound'[o] = bound[o] \/ bound'[o] = Nobody
  BY <1>1, Roles DEF UnlinkName, RemoveObject, CommonInv, HandshakeTypes
<1>4. QueueInv'
  <2>1. \A t \in Servers : ServerOpens(t)'
    <3> SUFFICES ASSUME NEW t \in Servers PROVE ServerOpens(t)'
      OBVIOUS
    <3>1. ServerOpens(t) /\ (t = s \/ at'[t] = at[t])
      BY <1>1, Roles DEF QueuesInv, QueueInv
    <3> QED
      BY <1>1, <1>2, <3>1 DEF ServerOpens
  <2>2. \A c \in Clients : ClientOpens(c)'
    BY <1>1, Roles DEF QueuesInv, QueueInv, ClientOpens
  <2> QED
    BY <1>1, <2>1, <2>2 DEF QueuesInv, QueueInv
<1>5. OwnQueueInv'
  <2> SUFFICES ASSUME pair = "posixQueue", NEW t \in Servers
               PROVE  /\ status'[t] = "running" /\ at'[t] \in {3, 4} => bound'["toServer"] = Nobody
                      /\ at'[t] > 4 => handle'[t]["toServer"] = t
                      /\ \A k \in DOMAIN content'["toServer"][t] :
                           content'["toServer"][t][k] \notin early'[t]
                      /\ at'[t] > 6 => heard'[t] \notin early'[t]
    BY <1>1 DEF OwnQueueInv, Running
  <2>1. Skip = 2
    BY DEF Skip
  <2> QED
    BY <1>1, <1>2, <1>3, <2>1, Roles DEF QueuesInv, OwnQueueInv, Running
<1>6. CalmInv'
  <2> SUFFICES ASSUME crashes = 0
               PROVE  (\A t \in Servers : CalmNames(t)' /\ CalmTexts(t)') /\ (\A c \in Clients : CalmClient(c)')
    BY <1>1 DEF CalmInv
  <2>1. \A t \in Servers : CalmNames(t) /\ CalmTexts(t)
    BY DEF QueuesInv, CalmInv
  <2>2. \A c \in Clients : CalmClient(c)
    BY DEF QueuesInv, CalmInv
  <2>3. \A o, t : <<o, t>> \in removed' =>
          \/ <<o, t>> \in removed
          \/ t = s /\ o = "toClient" /\ at[s] = Skip + 5
          \/ t = s /\ o = "toServer" /\ at[s] = Skip + 6
    <3>1. at[s] > Skip + 2 => handle[s]["toClient"] = s /\ handle[s]["toServer"] = s
      <4>1. CalmNames(s)
        BY <2>1
      <4> QED
        BY <1>1, <4>1 DEF CalmNames
    <3>2. UnlinkName(s) => removed' = removed
      BY DEF UnlinkName
    <3>3. RemoveObject(s) => removed' = removed \cup {<<Name(s), handle[s][Name(s)]>>}
      BY DEF RemoveObject, Instance
    <3> QED
      BY <1>1, <3>1, <3>2, <3>3
  <2>4. \A t \in Servers : CalmNames(t)' /\ CalmTexts(t)'
    <3> SUFFICES ASSUME NEW t \in Servers PROVE CalmNames(t)' /\ CalmTexts(t)'
      OBVIOUS
    <3>1. CalmNames(t) /\ CalmTexts(t) /\ t \in Procs /\ t # Nobody
      BY <2>1, Roles
    <3>2. /\ bound'["toClient"] = bound["toClient"] \/ bound'["toClient"] = Nobody
          /\ bound'["toServer"] = bound["toServer"] \/ bound'["toServer"] = Nobody
      BY <1>3, Roles
    <3>3. CASE t = s
      <4>1. CalmNames(t)'
        BY <1>1, <1>2, <1>3, <2>3, <3>1, <3>2, <3>3 DEF CalmNames, Running
      <4>2. CalmTexts(t)'
        BY <1>1, <1>2, <3>1, <3>3 DEF CalmTexts
      <4> QED
        BY <4>1, <4>2
    <3>4. CASE t # s
      <4>1. at'[t] = at[t] /\ status'[t] = status[t]
        BY <1>1, <3>1, <3>4
      <4>2. CalmNames(t)'
        BY <1>1, <2>3, <3>1, <3>2, <3>4, <4>1 DEF CalmNames, Running
      <4>3. CalmTexts(t)'
        BY <1>1, <3>1, <4>1 DEF CalmTexts
      <4> QED
        BY <4>2, <4>3
    <3> QED
      BY <3>3, <3>4
  <2>5. \A c \in Clients : CalmClient(c)'
    <3> SUFFICES ASSUME NEW c \in Clients PROVE CalmClient(c)'
      OBVIOUS
    <3>1. at'[c] = at[c] /\ \A t \in Procs : status[t] = "done" => status'[t] = "done"
      BY <1>1, Roles
    <3>2. at[c] = 3 => handle[c]["toClient"] \in Servers
      BY DEF QueuesInv, QueueInv, ClientOpens
    <3> QED
      BY <1>1, <2>2, <3>1, <3>2, Roles DEF CalmClient
  <2> QED
    BY <2>4, <2>5
<1> QED
  BY <1>4, <1>5, <1>6 DEF QueuesInv

LEMMA QueueCreat ==
    ASSUME CommonInv, QueuesInv, OverQueues, NEW s \in Servers, Step(s), Creat(s),
           \/ at[s] = Skip + 1 /\ Name(s) = "toClient"
           \/ at[s] = Skip + 2 /\ Name(s) = "toServer"
    PROVE  QueuesInv'
<1>1. /\ s \in Procs /\ Skip \in {0, 2} /\ Skip' = Skip /\ OverQueues'
      /\ \A q \in Procs : q # s => /\ at'[q] = at[q] /\ status'[q] = status[q]
                                   /\ handle'[q] = handle[q]
      /\ UNCHANGED <<pair, early, crashes, removed, heard>>
      /\ status[s] = "running" /\ Len(Program(s)) = Skip + 6
  BY Roles, OthersStay, QueueCalls DEF Skip, OverQueues, Creat
<1>2. at'[s] = at[s] + 1 /\ status'[s] = "running"
  BY <1>1, Roles DEF Creat, Return, CommonInv, HandshakeTypes
<1>3. /\ Name(s) \in {"toClient", "toServer"} /\ Name(s) \in Objects
      /\ bound \in [Objects -> Instances] /\ handle \in [Procs -> [Objects -> Instances]]
  BY Roles DEF CommonInv, HandshakeTypes
<1>4. /\ \A o \in Objects : o # Name(s) => bound'[o] = bound[o] /\ handle'[s][o] = handle[s][o]
      /\ bound'[Name(s)] \in {bound[Name(s)], s}
      /\ handle'[s][Name(s)] \in Servers
      /\ bound[Name(s)] = Nobody => handle'[s][Name(s)] = s
      /\ bound[Name(s)] # Nobody => bound' = bound
  BY <1>1, <1>3 DEF Creat, Instances
<1>5. /\ \A o \in Objects, t \in Servers :
           content'[o][t] = content[o][t] \/ (o = Name(s) /\ t = s /\ content'[o][t] = << >>)
      /\ content'["toServer"] \in [Servers -> Seq(Clients)]
      /\ content'["toClient"] \in [Servers -> Seq(Servers)]
  <2>1. PICK V : content \in [Objects -> [Servers -> V]]
    BY DEF CommonInv, HandshakeTypes
  <2>2. /\ content["toServer"] \in [Servers -> Seq(Clients)]
        /\ content["toClient"] \in [Servers -> Seq(Servers)]
    BY DEF QueuesInv, QueueInv
  <2>3. content' = content \/ content' = [content EXCEPT ![Name(s)][s] = << >>]
    BY <1>3 DEF Creat, Fresh
  <2>4. CASE content' = content
    BY <2>2, <2>4
  <2>5. CASE content' = [content EXCEPT ![Name(s)][s] = << >>]
    <3>1. \A o \in Objects : content'[o] = IF o = Name(s) THEN [content[o] EXCEPT ![s] = << >>]
                                                          ELSE content[o]
      BY <2>1, <2>5
    <3>2. << >> \in Seq(Clients) /\ << >> \in Seq(Servers)
      OBVIOUS
    <3> QED
      BY <1>3, <2>1, <2>2, <3>1, <3>2, Roles
  <2> QED
    BY <2>3, <2>4, <2>5
<1>6. QueueInv'
  <2>1. \A t \in Servers : ServerOpens(t)'
    <3> SUFFICES ASSUME NEW t \in Servers PROVE ServerOpens(t)'
      OBVIOUS
    <3>1. ServerOpens(t) /\ (t = s \/ (at'[t] = at[t] /\ handle'[t] = handle[t]))
      BY <1>1, Roles DEF QueuesInv, QueueInv
    <3>2. /\ Name(s) = "toServer" => handle'[s]["toClient"] = handle[s]["toClient"]
          /\ at[s] < Skip + 3 /\ at[s] > Skip
      BY <1>1, <1>4, Roles
    <3> QED
      BY <1>1, <1>2, <1>4, <3>1, <3>2 DEF ServerOpens
  <2>2. \A c \in Clients : ClientOpens(c)'
    BY <1>1, Roles DEF QueuesInv, QueueInv, ClientOpens
  <2> QED
    BY <1>1, <1>5, <2>1, <2>2 DEF QueueInv
<1>7. OwnQueueInv'
  <2> SUFFICES ASSUME pair = "posixQueue", NEW t \in Servers
               PROVE  /\ status'[t] = "running" /\ at'[t] \in {3, 4} => bound'["toServer"] = Nobody
                      /\ at'[t] > 4 => handle'[t]["toServer"] = t
                      /\ \A k \in DOMAIN content'["toServer"][t] :
                           content'["toServer"][t][k] \notin early'[t]
                      /\ at'[t] > 6 => heard'[t] \notin early'[t]
    BY <1>1 DEF OwnQueueInv, Running
  <2>1. /\ Skip = 2
        /\ status[t] = "running" /\ at[t] \in {3, 4} => bound["toServer"] = Nobody
        /\ at[t] > 4 => handle[t]["toServer"] = t
        /\ \A k \in DOMAIN content["toServer"][t] : content["toServer"][t][k] \notin early[t]
        /\ at[t] > 6 => heard[t] \notin early[t]
    BY DEF Skip, QueuesInv, OwnQueueInv, Running
  <2>2. content'["toServer"][t] = content["toServer"][t] \/ content'["toServer"][t] = << >>
    BY <1>5, Roles
  <2>3. \A k \in DOMAIN content'["toServer"][t] : content'["toServer"][t][k] \notin early'[t]
    BY <1>1, <2>1, <2>2
  <2>4. CASE t = s
    BY <1>1, <1>2, <1>4, <2>1, <2>3, <2>4, Roles
  <2>5. CASE t # s
    <3>1. status[t] # "running"
      BY <1>1, <2>5 DEF CommonInv, LivesInv, Running
    <3> QED
      BY <1>1, <2>1, <2>3, <2>5, <3>1, Roles
  <2> QED
    BY <2>4, <2>5
<1>8. CalmInv'
  <2> SUFFICES ASSUME crashes = 0
               PROVE  (\A t \in Servers : CalmNames(t)' /\ CalmTexts(t)') /\ (\A c \in Clients : CalmClient(c)')
    BY <1>1 DEF CalmInv
  <2>1. \A t \in Servers : CalmNames(t) /\ CalmTexts(t)
    BY DEF QueuesInv, CalmInv
  <2>2. \A c \in Clients : CalmClient(c)
    BY DEF QueuesInv, CalmInv
  <2>3. bound[Name(s)] = Nobody
    <3>1. \A t \in Servers : bound[Name(s)] = t => t = s
      <4> SUFFICES ASSUME NEW t \in Servers, bound[Name(s)] = t PROVE t = s
        OBVIOUS
      <4>1. CalmNames(t)
        BY <2>1
      <4>2. status[t] = "running"
        BY <1>3, <4>1 DEF CalmNames, Running
      <4> QED
        BY <1>1, <4>2 DEF CommonInv, LivesInv, Running
    <3>2. bound[Name(s)] # s
      <4>1. CalmNames(s)
        BY <2>1
      <4> QED
        BY <1>1, <4>1 DEF CalmNames
    <3> QED
      BY <1>3, <3>1, <3>2 DEF Instances
  <2>4. bound'[Name(s)] \in {Nobody, s} /\ handle'[s][Name(s)] = s
    BY <1>4, <2>3
  <2>5. \A t \in Servers : CalmNames(t)' /\ CalmTexts(t)'
    <3> SUFFICES ASSUME NEW t \in Servers PROVE CalmNames(t)' /\ CalmTexts(t)'
      OBVIOUS
    <3>1. \A o \in {"toClient", "toServer"} :
            content'[o][t] = content[o][t] \/ (o = Name(s) /\ t = s /\ content'[o][t] = << >>)
      BY <1>5, Roles
    <3>2. /\ CalmNames(t) /\ CalmTexts(t) /\ t \in Procs /\ t # Nobody
          /\ Name(s) = "toServer" => /\ handle'[s]["toClient"] = handle[s]["toClient"]
                                     /\ bound'["toClient"] = bound["toClient"]
          /\ Name(s) = "toClient" => bound'["toServer"] = bound["toServer"]
      BY <1>4, <2>1, Roles
    <3>3. CalmTexts(t)'
      BY <1>1, <1>2, <3>1, <3>2 DEF CalmTexts
    <3>4. CASE t = s
      <4>1. CalmNames(t)'
        BY <1>1, <1>2, <2>4, <3>2, <3>4 DEF CalmNames, Running
      <4> QED
        BY <3>3, <4>1
    <3>5. CASE t # s
      <4>1. at'[t] = at[t] /\ status'[t] = status[t] /\ handle'[t] = handle[t]
        BY <1>1, <3>2, <3>5
      <4>2. CalmNames(t)'
        BY <1>1, <2>4, <3>2, <3>5, <4>1 DEF CalmNames, Running
      <4> QED
        BY <3>3, <4>2
    <3> QED
      BY <3>4, <3>5
  <2>6. \A c \in Clients : CalmClient(c)'
    <3> SUFFICES ASSUME NEW c \in Clients PROVE CalmClient(c)'
      OBVIOUS
    <3>1. /\ at'[c] = at[c] /\ handle'[c] = handle[c]
          /\ \A t \in Procs : status[t] = "done" => status'[t] = "done"
      BY <1>1, Roles
    <3>2. at[c] = 3 => handle[c]["toClient"] \in Servers
      BY DEF QueuesInv, QueueInv, ClientOpens
    <3> QED
      BY <1>1, <2>2, <3>1, <3>2, Roles DEF CalmClient
  <2> QED
    BY <2>5, <2>6
<1> QED
  BY <1>6, <1>7, <1>8 DEF QueuesInv

\* A text goes into a queue or comes out of it.
LEMMA ToClientPut ==
    ASSUME CommonInv, QueueInv, OverQueues, NEW t \in Servers, NEW v \in Seq(Servers),
           content' = [content EXCEPT !["toClient"][t] = v]
    PROVE  /\ content'["toServer"] = content["toServer"]
           /\ content'["toServer"] \in [Servers -> Seq(Clients)]
           /\ content'["toClient"] \in [Servers -> Seq(Servers)]
           /\ content'["toClient"][t] = v
           /\ \A s \in Servers : s # t => content'["toClient"][s] = content["toClient"][s]
<1>1. PICK V : content \in [Objects -> [Servers -> V]]
  BY DEF CommonInv, HandshakeTypes
<1>2. /\ content["toServer"] \in [Servers -> Seq(Clients)]
      /\ content["toClient"] \in [Servers -> Seq(Servers)]
  BY DEF QueueInv
<1>3. /\ content'["toServer"] = content["toServer"]
      /\ content'["toClient"] = [content["toClient"] EXCEPT ![t] = v]
  BY <1>1, Roles
<1> QED
  BY <1>2, <1>3

LEMMA ToServerPut ==
    ASSUME CommonInv, QueueInv, OverQueues, NEW t \in Servers, NEW v \in Seq(Clients),
           content' = [content EXCEPT !["toServer"][t] = v]
    PROVE  /\ content'["toClient"] = content["toClient"]
           /\ content'["toServer"] \in [Servers -> Seq(Clients)]
           /\ content'["toClient"] \in [Servers -> Seq(Servers)]
           /\ content'["toServer"][t] = v
           /\ \A s \in Servers : s # t => content'["toServer"][s] = content["toServer"][s]
<1>1. PICK V : content \in [Objects -> [Servers -> V]]
  BY DEF CommonInv, HandshakeTypes
<1>2. /\ content["toServer"] \in [Servers -> Seq(Clients)]
      /\ content["toClient"] \in [Servers -> Seq(Servers)]
  BY DEF QueueInv
<1>3. /\ content'["toClient"] = content["toClient"]
      /\ content'["toServer"] = [content["toServer"] EXCEPT ![t] = v]
  BY <1>1, Roles
<1> QED
  BY <1>2, <1>3

LEMMA ServerSends ==
    ASSUME CommonInv, QueuesInv, OverQueues, NEW s \in Servers, Step(s), Send(s),
           at[s] = Skip + 3, Name(s) = "toClient"
    PROVE  QueuesInv'
<1> DEFINE t == handle[s]["toClient"]
<1>1. /\ s \in Procs /\ Skip \in {0, 2} /\ Skip' = Skip /\ OverQueues'
      /\ \A q \in Procs : q # s => /\ at'[q] = at[q] /\ status'[q] = status[q]
      /\ UNCHANGED <<pair, early, crashes, removed, heard, handle, bound>>
      /\ status[s] = "running" /\ Len(Program(s)) = Skip + 6
      /\ t \in Servers
  BY Roles, OthersStay, QueueCalls DEF Skip, OverQueues, Send, QueuesInv, QueueInv, ServerOpens
<1>2. \/ /\ <<"toClient", t>> \in removed /\ content' = content
         /\ at'[s] = at[s] /\ status'[s] = "failed"
      \/ /\ content' = [content EXCEPT !["toClient"][t] = Append(content["toClient"][t], s)]
         /\ at'[s] = at[s] + 1 /\ status'[s] = "running" /\ <<"toClient", t>> \notin removed
  BY <1>1, Roles DEF Send, Return, Fail, Put, Instance, Content, IsRemoved, CommonInv, HandshakeTypes
<1> HIDE DEF t
<1>3. Append(content["toClient"][t], s) \in Seq(Servers)
  BY <1>1 DEF QueuesInv, QueueInv
<1>4. /\ content'["toServer"] \in [Servers -> Seq(Clients)]
      /\ content'["toClient"] \in [Servers -> Seq(Servers)]
      /\ \A u \in Servers : /\ content'["toServer"][u] = content["toServer"][u]
                            /\ u # t => content'["toClient"][u] = content["toClient"][u]
  <2>1. CASE content' = content
    BY <1>1, <2>1 DEF QueuesInv, QueueInv
  <2>2. CASE content' = [content EXCEPT !["toClient"][t] = Append(content["toClient"][t], s)]
    <3>1. QueueInv /\ t \in Servers
      BY <1>1 DEF QueuesInv
    <3> QED
      BY <1>3, <2>2, <3>1, ToClientPut
  <2> QED
    BY <1>2, <2>1, <2>2
<1>5. QueueInv'
  <2>1. \A u \in Servers : ServerOpens(u)'
    <3> SUFFICES ASSUME NEW u \in Servers PROVE ServerOpens(u)'
      OBVIOUS
    <3>1. ServerOpens(u) /\ ServerOpens(s) /\ (u = s \/ at'[u] = at[u])
      BY <1>1, Roles DEF QueuesInv, QueueInv
    <3>2. ServerOpens(s) => handle[s]["toServer"] \in Servers /\ handle[s]["toClient"] \in Servers
      BY <1>1 DEF ServerOpens
    <3> QED
      BY <1>1, <1>2, <3>1, <3>2 DEF ServerOpens
  <2>2. \A c \in Clients : ClientOpens(c)'
    BY <1>1, Roles DEF QueuesInv, QueueInv, ClientOpens
  <2> QED
    BY <1>1, <1>4, <2>1, <2>2 DEF QueueInv
<1>6. OwnQueueInv'
  <2> SUFFICES ASSUME pair = "posixQueue", NEW u \in Servers
               PROVE  /\ status'[u] = "running" /\ at'[u] \in {3, 4} => bound'["toServer"] = Nobody
                      /\ at'[u] > 4 => handle'[u]["toServer"] = u
                      /\ \A k \in DOMAIN content'["toServer"][u] :
                           content'["toServer"][u][k] \notin early'[u]
                      /\ at'[u] > 6 => heard'[u] \notin early'[u]
    BY <1>1 DEF OwnQueueInv, Running
  <2>1. /\ Skip = 2
        /\ status[u] = "running" /\ at[u] \in {3, 4} => bound["toServer"] = Nobody
        /\ at[u] > 4 => handle[u]["toServer"] = u
        /\ \A k \in DOMAIN content["toServer"][u] : content["toServer"][u][k] \notin early[u]
        /\ at[u] > 6 => heard[u] \notin early[u]
    BY DEF Skip, QueuesInv, OwnQueueInv, Running
  <2>2. u = s \/ (at'[u] = at[u] /\ status'[u] = status[u])
    BY <1>1, Roles
  <2> QED
    <3>1. /\ content'["toServer"][u] = content["toServer"][u] /\ early' = early /\ heard' = heard
          /\ bound' = bound /\ handle' = handle /\ at[s] = 5
      BY <1>1, <1>4, <2>1
    <3>2. CASE u = s
      <4>1. at'[u] \in {5, 6}
        BY <1>2, <3>1, <3>2
      <4>2. handle[u]["toServer"] = u
        BY <2>1, <3>1, <3>2
      <4> QED
        BY <2>1, <3>1, <4>1, <4>2
    <3>3. CASE u # s
      BY <2>1, <2>2, <3>1, <3>3
    <3> QED
      BY <3>2, <3>3
<1>7. CalmInv'
  <2> SUFFICES ASSUME crashes = 0
               PROVE  /\ \A u \in Servers : CalmNames(u)' /\ CalmTexts(u)'
                      /\ \A c \in Clients : CalmClient(c)'
    BY <1>1 DEF CalmInv
  <2>1. \A u \in Servers : CalmNames(u) /\ CalmTexts(u)
    BY DEF QueuesInv, CalmInv
  <2>2. \A c \in Clients : CalmClient(c)
    BY DEF QueuesInv, CalmInv
  <2>3. t = s /\ <<"toClient", t>> \notin removed
    <3>1. CalmNames(s)
      BY <2>1
    <3> QED
      BY <1>1, <3>1 DEF CalmNames, t
  <2>4. /\ content'["toClient"][s] = Append(content["toClient"][s], s)
        /\ at'[s] = at[s] + 1 /\ status'[s] = "running"
    <3>1. /\ content' = [content EXCEPT !["toClient"][t] = Append(content["toClient"][t], s)]
          /\ at'[s] = at[s] + 1 /\ status'[s] = "running"
      BY <1>2, <2>3
    <3>2. QueueInv /\ t \in Servers
      BY <1>1 DEF QueuesInv
    <3>3. content'["toClient"][t] = Append(content["toClient"][t], s)
      BY <1>3, <3>1, <3>2, ToClientPut
    <3> QED
      BY <2>3, <3>1, <3>3
  <2>5. /\ content["toClient"][s] = << >> /\ \A c \in Clients : heard[c] # s
        /\ content'["toClient"][s] = <<s>>
    <3>1. CalmTexts(s)
      BY <2>1
    <3>2. content["toClient"][s] = << >> /\ \A c \in Clients : heard[c] # s
      BY <1>1, <3>1 DEF CalmTexts
    <3> QED
      BY <2>4, <3>2
  <2>6. ASSUME NEW u \in Servers PROVE CalmNames(u)' /\ CalmTexts(u)'
    <3>1. CalmNames(u) /\ CalmTexts(u) /\ u \in Procs
      BY <2>1, Roles
    <3>2. CASE u = s
      <4>1. CalmNames(u)'
        BY <1>1, <2>4, <3>1, <3>2 DEF CalmNames, Running
      <4>2. CalmTexts(u)'
        <5>1. content'["toServer"][u] = content["toServer"][u]
          BY <1>4
        <5>2. heard' = heard
          BY <1>1
        <5> QED
          BY <1>1, <2>4, <2>5, <3>1, <3>2, <5>1, <5>2 DEF CalmTexts
      <4> QED
        BY <4>1, <4>2
    <3>3. CASE u # s
      <4>1. /\ at'[u] = at[u] /\ status'[u] = status[u]
            /\ content'["toClient"][u] = content["toClient"][u]
            /\ content'["toServer"][u] = content["toServer"][u]
        BY <1>1, <1>4, <2>3, <3>1, <3>3
      <4>2. CalmNames(u)'
        BY <1>1, <3>1, <4>1 DEF CalmNames, Running
      <4>3. CalmTexts(u)'
        BY <1>1, <3>1, <4>1 DEF CalmTexts
      <4> QED
        BY <4>2, <4>3
    <3> QED
      BY <3>2, <3>3
  <2>7. ASSUME NEW c \in Clients PROVE CalmClient(c)'
    <3>1. at'[c] = at[c] /\ \A u \in Procs : status[u] = "done" => status'[u] = "done"
      BY <1>1, Roles
    <3>2. at[c] = 3 => handle[c]["toClient"] \in Servers
      BY DEF QueuesInv, QueueInv, ClientOpens
    <3> QED
      BY <1>1, <2>2, <3>1, <3>2, Roles DEF CalmClient
  <2> QED
    BY <2>6, <2>7
<1> QED
  BY <1>5, <1>6, <1>7 DEF QueuesInv

LEMMA ServerReceives ==
    ASSUME CommonInv, QueuesInv, OverQueues, NEW s \in Servers, Step(s), Receive(s),
           at[s] = Skip + 4, Name(s) = "toServer"
    PROVE  QueuesInv'
<1> DEFINE t == handle[s]["toServer"]
           text == content["toServer"][t]
<1>1. /\ s \in Procs /\ Skip \in {0, 2} /\ Skip' = Skip /\ OverQueues'
      /\ \A q \in Procs : q # s => /\ at'[q] = at[q] /\ status'[q] = status[q]
                                   /\ heard'[q] = heard[q]
      /\ UNCHANGED <<pair, early, crashes, removed, handle, bound>>
      /\ status[s] = "running" /\ Len(Program(s)) = Skip + 6
      /\ t \in Servers
  BY Roles, OthersStay, QueueCalls DEF Skip, OverQueues, Receive, QueuesInv, QueueInv, ServerOpens
<1>2. \/ /\ <<"toServer", t>> \in removed /\ content' = content /\ heard' = heard
         /\ at'[s] = at[s] /\ status'[s] = "failed"
      \/ /\ text # << >> /\ content' = [content EXCEPT !["toServer"][t] = Tail(text)]
         /\ heard'[s] = Head(text)
         /\ at'[s] = at[s] + 1 /\ status'[s] = "running" /\ <<"toServer", t>> \notin removed
  <2>1. PICK V : heard \in [Procs -> V]
    BY DEF CommonInv, HandshakeTypes
  <2> QED
    BY <1>1, <2>1, Roles
       DEF Receive, Return, Fail, Put, Instance, Content, IsRemoved, CommonInv, HandshakeTypes
<1>3. text \in Seq(Clients)
  BY <1>1 DEF QueuesInv, QueueInv
<1> HIDE DEF t, text
<1>4. text # << >> => /\ Head(text) \in Clients /\ Tail(text) \in Seq(Clients)
                      /\ 1 \in DOMAIN text /\ Head(text) = text[1]
                      /\ \A k \in DOMAIN Tail(text) : k + 1 \in DOMAIN text /\ Tail(text)[k] = text[k + 1]
  BY <1>3, TailFacts
<1>5. /\ content'["toServer"] \in [Servers -> Seq(Clients)]
      /\ content'["toClient"] \in [Servers -> Seq(Servers)]
      /\ \A u \in Servers : /\ content'["toClient"][u] = content["toClient"][u]
                            /\ u # t => content'["toServer"][u] = content["toServer"][u]
      /\ content'["toServer"][t] = text \/ (text # << >> /\ content'["toServer"][t] = Tail(text))
  <2>1. CASE content' = content
    BY <1>1, <2>1 DEF QueuesInv, QueueInv, text
  <2>2. CASE text # << >> /\ content' = [content EXCEPT !["toServer"][t] = Tail(text)]
    <3>1. QueueInv /\ t \in Servers /\ Tail(text) \in Seq(Clients)
      BY <1>1, <1>4, <2>2 DEF QueuesInv
    <3> QED
      BY <2>2, <3>1, ToServerPut
  <2> QED
    BY <1>2, <2>1, <2>2
<1>6. \A u \in Servers : \A k \in DOMAIN content'["toServer"][u] :
        \E j \in DOMAIN content["toServer"][u] :
            content'["toServer"][u][k] = content["toServer"][u][j]
  <2> SUFFICES ASSUME NEW u \in Servers, NEW k \in DOMAIN content'["toServer"][u]
               PROVE  \E j \in DOMAIN content["toServer"][u] :
                          content'["toServer"][u][k] = content["toServer"][u][j]
    OBVIOUS
  <2>1. CASE content'["toServer"][u] = content["toServer"][u]
    BY <2>1
  <2>2. CASE u = t /\ text # << >> /\ content'["toServer"][t] = Tail(text)
    <3>1. k \in DOMAIN Tail(text)
      BY <2>2
    <3>2. k + 1 \in DOMAIN text /\ Tail(text)[k] = text[k + 1]
      BY <1>4, <2>2, <3>1
    <3> QED
      BY <2>2, <3>2 DEF text
  <2> QED
    BY <1>5, <2>1, <2>2 DEF text
<1>7. QueueInv'
  <2>1. \A u \in Servers : ServerOpens(u)'
    <3> SUFFICES ASSUME NEW u \in Servers PROVE ServerOpens(u)'
      OBVIOUS
    <3>1. ServerOpens(u) /\ (u = s \/ (at'[u] = at[u] /\ heard'[u] = heard[u]))
      BY <1>1, Roles DEF QueuesInv, QueueInv
    <3> QED
      BY <1>1, <1>2, <1>4, <3>1 DEF ServerOpens
  <2>2. \A c \in Clients : ClientOpens(c)'
    BY <1>1, Roles DEF QueuesInv, QueueInv, ClientOpens
  <2> QED
    BY <1>1, <1>5, <2>1, <2>2 DEF QueueInv
<1>8. OwnQueueInv'
  <2> SUFFICES ASSUME pair = "posixQueue", NEW u \in Servers
               PROVE  /\ status'[u] = "running" /\ at'[u] \in {3, 4} => bound'["toServer"] = Nobody
                      /\ at'[u] > 4 => handle'[u]["toServer"] = u
                      /\ \A k \in DOMAIN content'["toServer"][u] :
                           content'["toServer"][u][k] \notin early'[u]
                      /\ at'[u] > 6 => heard'[u] \notin early'[u]
    BY <1>1 DEF OwnQueueInv, Running
  <2>1. /\ Skip = 2
        /\ status[u] = "running" /\ at[u] \in {3, 4} => bound["toServer"] = Nobody
        /\ at[u] > 4 => handle[u]["toServer"] = u
        /\ \A k \in DOMAIN content["toServer"][u] : content["toServer"][u][k] \notin early[u]
        /\ at[u] > 6 => heard[u] \notin early[u]
    BY DEF Skip, QueuesInv, OwnQueueInv, Running
  <2>2. \A k \in DOMAIN content'["toServer"][u] : content'["toServer"][u][k] \notin early'[u]
    BY <1>1, <1>6, <2>1
  <2>3. CASE u = s
    <3>1. t = u
      BY <2>1, <2>3 DEF t
    <3>2. text # << >> => Head(text) \notin early[u]
      BY <1>4, <2>1, <3>1 DEF text
    <3> QED
      BY <1>1, <1>2, <2>1, <2>2, <2>3, <3>2
  <2>4. CASE u # s
    BY <1>1, <2>1, <2>2, <2>4, Roles
  <2> QED
    BY <2>3, <2>4
<1>9. CalmInv'
  <2> SUFFICES ASSUME crashes = 0
               PROVE  /\ \A u \in Servers : CalmNames(u)' /\ CalmTexts(u)'
                      /\ \A c \in Clients : CalmClient(c)'
    BY <1>1 DEF CalmInv
  <2>1. \A u \in Servers : CalmNames(u) /\ CalmTexts(u)
    BY DEF QueuesInv, CalmInv
  <2>2. \A c \in Clients : CalmClient(c)
    BY DEF QueuesInv, CalmInv
  <2>3. t = s /\ <<"toServer", t>> \notin removed
    <3>1. CalmNames(s)
      BY <2>1
    <3> QED
      BY <1>1, <3>1 DEF CalmNames, t
  <2>4. /\ at'[s] = at[s] + 1 /\ status'[s] = "running" /\ heard'[s] \in Clients
        /\ heard[heard'[s]] = s
    <3>1. CalmTexts(s)
      BY <2>1
    <3> QED
      BY <1>2, <1>4, <2>3, <3>1 DEF CalmTexts, text
  <2>5. \A c \in Clients : heard'[c] = heard[c]
    BY <1>1, Roles
  <2>6. ASSUME NEW u \in Servers PROVE CalmNames(u)' /\ CalmTexts(u)'
    <3>1. CalmNames(u) /\ CalmTexts(u) /\ u \in Procs
      BY <2>1, Roles
    <3>2. u = s \/ (at'[u] = at[u] /\ status'[u] = status[u] /\ heard'[u] = heard[u])
      BY <1>1, <3>1
    <3>3. CalmNames(u)'
      BY <1>1, <2>4, <3>1, <3>2 DEF CalmNames, Running
    <3>4. \A k \in DOMAIN content'["toServer"][u] : heard'[content'["toServer"][u][k]] = u
      <4>1. \A k \in DOMAIN content'["toServer"][u] : content'["toServer"][u][k] \in Clients
        BY <1>5
      <4> QED
        BY <1>6, <2>5, <3>1, <4>1 DEF CalmTexts
    <3>5. at'[u] > Skip + 4 => heard'[heard'[u]] = u
      <4>1. at[u] > Skip + 4 => heard[u] \in Clients
        BY DEF QueuesInv, QueueInv, ServerOpens
      <4> QED
        BY <1>1, <2>4, <2>5, <3>1, <3>2, <4>1 DEF CalmTexts
    <3>6. content'["toClient"][u] = content["toClient"][u]
      BY <1>5
    <3>7. at'[u] < Skip + 4 => at[u] < Skip + 4
      BY <1>1, <2>4, <3>2
    <3>8. CalmTexts(u)'
      BY <1>1, <2>5, <3>1, <3>4, <3>5, <3>6, <3>7 DEF CalmTexts
    <3> QED
      BY <3>3, <3>8
  <2>7. ASSUME NEW c \in Clients PROVE CalmClient(c)'
    <3>1. at'[c] = at[c] /\ \A u \in Procs : status[u] = "done" => status'[u] = "done"
      BY <1>1, Roles
    <3>2. at[c] = 3 => handle[c]["toClient"] \in Servers
      BY DEF QueuesInv, QueueInv, ClientOpens
    <3> QED
      BY <1>1, <2>2, <2>5, <3>1, <3>2, Roles DEF CalmClient
  <2> QED
    BY <2>6, <2>7
<1> QED
  BY <1>7, <1>8, <1>9 DEF QueuesInv

LEMMA ClientOpensQueue ==
    ASSUME CommonInv, QueuesInv, OverQueues, NEW c \in Clients, Step(c), Open(c),
           \/ at[c] = 1 /\ Name(c) = "toClient"
           \/ at[c] = 2 /\ Name(c) = "toServer"
    PROVE  QueuesInv'
<1>1. /\ c \in Procs /\ c \notin Servers /\ Skip \in {0, 2} /\ Skip' = Skip /\ OverQueues'
      /\ \A q \in Procs : q # c => /\ at'[q] = at[q] /\ status'[q] = status[q]
                                   /\ handle'[q] = handle[q]
      /\ UNCHANGED <<pair, early, crashes, removed, heard, content, bound>>
      /\ status[c] = "running" /\ Len(Program(c)) = 4
  BY Roles, OthersStay, QueueCalls DEF Skip, OverQueues, Open
<1>2. \/ /\ at'[c] = at[c] /\ handle' = handle /\ status'[c] = "failed"
      \/ /\ at'[c] = at[c] + 1 /\ status'[c] = "running"
         /\ handle'[c][Name(c)] = bound[Name(c)] /\ bound[Name(c)] \in Servers
         /\ \A o \in Objects : o # Name(c) => handle'[c][o] = handle[c][o]
  BY <1>1, Roles DEF Open, Return, Fail, CommonInv, HandshakeTypes, Instances
<1>3. \A s \in Servers : s \in Procs /\ at'[s] = at[s] /\ status'[s] = status[s] /\ handle'[s] = handle[s]
  BY <1>1, Roles
<1>4. QueueInv'
  <2>1. \A s \in Servers : ServerOpens(s)'
    BY <1>1, <1>3 DEF QueuesInv, QueueInv, ServerOpens
  <2>2. \A d \in Clients : ClientOpens(d)'
    <3> SUFFICES ASSUME NEW d \in Clients PROVE ClientOpens(d)'
      OBVIOUS
    <3>1. ClientOpens(d) /\ (d = c \/ (at'[d] = at[d] /\ handle'[d] = handle[d]))
      BY <1>1, Roles DEF QueuesInv, QueueInv
    <3> QED
      BY <1>2, <3>1, Roles DEF ClientOpens
  <2> QED
    BY <1>1, <2>1, <2>2 DEF QueuesInv, QueueInv
<1>5. OwnQueueInv'
  BY <1>1, <1>3 DEF QueuesInv, OwnQueueInv, Running
<1>6. CalmInv'
  <2> SUFFICES ASSUME crashes = 0
               PROVE  /\ \A s \in Servers : CalmNames(s)' /\ CalmTexts(s)'
                      /\ \A d \in Clients : CalmClient(d)'
    BY <1>1 DEF CalmInv
  <2>1. \A s \in Servers : CalmNames(s) /\ CalmTexts(s)
    BY DEF QueuesInv, CalmInv
  <2>2. \A d \in Clients : CalmClient(d)
    BY DEF QueuesInv, CalmInv
  <2>3. ASSUME NEW s \in Servers PROVE CalmNames(s)' /\ CalmTexts(s)'
    <3>1. /\ CalmNames(s) /\ CalmTexts(s)
          /\ at'[s] = at[s] /\ status'[s] = status[s] /\ handle'[s] = handle[s]
          /\ Skip' = Skip /\ UNCHANGED <<removed, heard, content, bound>>
      BY <1>1, <1>3, <2>1
    <3>2. CalmNames(s)'
      BY <3>1 DEF CalmNames, Running
    <3>3. CalmTexts(s)'
      BY <3>1 DEF CalmTexts
    <3> QED
      BY <3>2, <3>3
  <2>4. ASSUME NEW d \in Clients PROVE CalmClient(d)'
    <3>1. CASE d = c
      <4>1. heard'[c] = Nobody
        BY <1>1, <2>2 DEF CalmClient
      <4>2. ASSUME at'[c] = 3, handle'[c]["toServer"] # handle'[c]["toClient"]
            PROVE  status'[handle'[c]["toClient"]] = "done"
        <5> DEFINE t == handle[c]["toClient"]
        <5>1. /\ t \in Servers /\ handle'[c]["toClient"] = t
              /\ bound["toServer"] \in Servers /\ bound["toServer"] # t
          BY <1>2, <4>2, Roles DEF QueuesInv, QueueInv, ClientOpens
        <5> HIDE DEF t
        <5>2. status[bound["toServer"]] = "running"
          BY <2>1, <5>1 DEF CalmNames, Running
        <5>3. status[t] # "running"
          BY <5>1, <5>2 DEF CommonInv, LivesInv, Running
        <5>4. status[t] # "unborn"
          BY <1>1, <5>1, Roles DEF CommonInv, LivesInv, t
        <5>5. status[t] \notin {"failed", "dead"} /\ status[t] \in Statuses
          BY <2>1, <5>1, Roles DEF CalmNames, CommonInv, HandshakeTypes
        <5> QED
          BY <1>3, <5>1, <5>3, <5>4, <5>5 DEF Statuses
      <4> QED
        BY <1>2, <3>1, <4>1, <4>2 DEF CalmClient
    <3>2. CASE d # c
      <4>1. at'[d] = at[d] /\ handle'[d] = handle[d]
        BY <1>1, <3>2, Roles
      <4>2. at[d] = 3 => handle[d]["toClient"] \in Servers
        BY DEF QueuesInv, QueueInv, ClientOpens
      <4> QED
        BY <1>1, <1>3, <2>2, <4>1, <4>2 DEF CalmClient
    <3> QED
      BY <3>1, <3>2
  <2> QED
    BY <2>3, <2>4
<1> QED
  BY <1>4, <1>5, <1>6 DEF QueuesInv

LEMMA ClientReceives ==
    ASSUME CommonInv, QueuesInv, OverQueues, NEW c \in Clients, Step(c), Receive(c),
           at[c] = 3, Name(c) = "toClient"
    PROVE  QueuesInv'
<1> DEFINE t == handle[c]["toClient"]
           text == content["toClient"][t]
<1>1. /\ c \in Procs /\ c \notin Servers /\ Skip \in {0, 2} /\ Skip' = Skip /\ OverQueues'
      /\ \A q \in Procs : q # c => /\ at'[q] = at[q] /\ status'[q] = status[q]
                                   /\ heard'[q] = heard[q]
      /\ UNCHANGED <<pair, early, crashes, removed, handle, bound>>
      /\ status[c] = "running" /\ Len(Program(c)) = 4
      /\ t \in Servers
  BY Roles, OthersStay, QueueCalls DEF Skip, OverQueues, Receive, QueuesInv, QueueInv, ClientOpens
<1>2. \/ /\ content' = content /\ heard' = heard /\ at'[c] = at[c] /\ status'[c] = "failed"
      \/ /\ text # << >> /\ content' = [content EXCEPT !["toClient"][t] = Tail(text)]
         /\ heard'[c] = Head(text) /\ at'[c] = at[c] + 1
  <2>1. PICK V : heard \in [Procs -> V]
    BY DEF CommonInv, HandshakeTypes
  <2> QED
    BY <1>1, <2>1, Roles
       DEF Receive, Return, Fail, Put, Instance, Content, IsRemoved, CommonInv, HandshakeTypes
<1>3. text \in Seq(Servers)
  BY <1>1 DEF QueuesInv, QueueInv
<1> HIDE DEF t, text
<1>4. text # << >> => Tail(text) \in Seq(Servers)
  BY <1>3, TailFacts
<1>5. /\ content'["toServer"] \in [Servers -> Seq(Clients)]
      /\ content'["toClient"] \in [Servers -> Seq(Servers)]
      /\ \A u \in Servers : /\ content'["toServer"][u] = content["toServer"][u]
                            /\ u # t => content'["toClient"][u] = content["toClient"][u]
      /\ text # << >> /\ content' # content => content'["toClient"][t] = Tail(text)
  <2>1. CASE content' = content
    BY <1>1, <2>1 DEF QueuesInv, QueueInv
  <2>2. CASE text # << >> /\ content' = [content EXCEPT !["toClient"][t] = Tail(text)]
    <3>1. QueueInv /\ t \in Servers /\ Tail(text) \in Seq(Servers)
      BY <1>1, <1>4, <2>2 DEF QueuesInv
    <3> QED
      BY <2>2, <3>1, ToClientPut
  <2> QED
    BY <1>2, <2>1, <2>2
<1>6. \A s \in Servers : /\ s \in Procs /\ at'[s] = at[s] /\ status'[s] = status[s]
                         /\ handle'[s] = handle[s] /\ heard'[s] = heard[s]
  BY <1>1, Roles
<1>7. QueueInv'
  <2>1. \A s \in Servers : ServerOpens(s)'
    BY <1>1, <1>6 DEF QueuesInv, QueueInv, ServerOpens
  <2>2. \A d \in Clients : ClientOpens(d)'
    <3> SUFFICES ASSUME NEW d \in Clients PROVE ClientOpens(d)'
      OBVIOUS
    <3>1. ClientOpens(d) /\ ClientOpens(c) /\ (d = c \/ at'[d] = at[d])
      BY <1>1, Roles DEF QueuesInv, QueueInv
    <3>2. handle[c]["toServer"] \in Servers /\ handle[c]["toClient"] \in Servers
      BY <3>1 DEF ClientOpens
    <3> QED
      BY <1>1, <3>1, <3>2 DEF ClientOpens
  <2> QED
    BY <1>1, <1>5, <2>1, <2>2 DEF QueueInv
<1>8. OwnQueueInv'
  BY <1>1, <1>5, <1>6 DEF QueuesInv, OwnQueueInv, Running
<1>9. CalmInv'
  <2> SUFFICES ASSUME crashes = 0
               PROVE  /\ \A s \in Servers : CalmNames(s)' /\ CalmTexts(s)'
                      /\ \A d \in Clients : CalmClient(d)'
    BY <1>1 DEF CalmInv
  <2>1. \A s \in Servers : CalmNames(s) /\ CalmTexts(s)
    BY DEF QueuesInv, CalmInv
  <2>2. \A d \in Clients : CalmClient(d)
    BY DEF QueuesInv, CalmInv
  <2>3. heard[c] = Nobody /\ Nobody \notin Servers
    BY <2>2, Roles DEF CalmClient
  <2>4. CASE content' = content /\ heard' = heard /\ at'[c] = at[c]
    <3>1. ASSUME NEW s \in Servers PROVE CalmNames(s)' /\ CalmTexts(s)'
      BY <1>1, <1>6, <2>1, <2>4 DEF CalmNames, CalmTexts, Running
    <3>2. ASSUME NEW d \in Clients PROVE CalmClient(d)'
      <4>1. at'[d] = at[d]
        BY <1>1, <2>4, Roles
      <4>2. at[d] = 3 => handle[d]["toClient"] \in Servers
        BY DEF QueuesInv, QueueInv, ClientOpens
      <4> QED
        BY <1>1, <1>6, <2>2, <2>4, <4>1, <4>2 DEF CalmClient
    <3> QED
      BY <3>1, <3>2
  <2>5. CASE /\ text # << >> /\ content' = [content EXCEPT !["toClient"][t] = Tail(text)]
             /\ heard'[c] = Head(text) /\ at'[c] = at[c] + 1
    <3>1. text = <<t>> /\ \A d \in Clients : heard[d] # t
      BY <1>1, <2>1, <2>5 DEF CalmTexts, text
    <3>2. heard'[c] = t /\ content'["toClient"][t] = << >>
      <4>1. QueueInv /\ t \in Servers /\ Tail(text) \in Seq(Servers)
        BY <1>1, <1>4, <2>5 DEF QueuesInv
      <4>2. content'["toClient"][t] = Tail(text)
        BY <2>5, <4>1, ToClientPut
      <4> QED
        BY <2>5, <3>1, <4>2
    <3>3. at[t] >= Skip + 4 /\ at[t] \in Nat
      <4>1. at[t] \in Nat
        BY <1>1, <1>6 DEF CommonInv, HandshakeTypes
      <4>2. CalmTexts(t)
        BY <1>1, <2>1
      <4> QED
        BY <1>1, <2>5, <4>1, <4>2 DEF CalmTexts, text
    <3>4. handle[c]["toServer"] = t
      <4> SUFFICES ASSUME handle[c]["toServer"] # t PROVE FALSE
        OBVIOUS
      <4>1. status[t] = "done"
        BY <2>2 DEF CalmClient, t
      <4>2. at[t] = Skip + 6
        BY <1>1, <1>6, <4>1, QueueCalls DEF CommonInv, LivesInv
      <4>3. heard[t] \in Clients /\ heard[heard[t]] = t
        BY <1>1, <2>1, <4>2 DEF QueuesInv, QueueInv, ServerOpens, CalmTexts
      <4> QED
        BY <3>1, <4>3
    <3>5. ASSUME NEW s \in Servers PROVE CalmNames(s)' /\ CalmTexts(s)'
      <4>1. CalmNames(s)'
        BY <1>1, <1>6, <2>1 DEF CalmNames, Running
      <4>2. CalmTexts(s) /\ at'[s] = at[s] /\ heard'[s] = heard[s]
        BY <1>6, <2>1
      <4>3. \A d \in Clients : d # c => heard'[d] = heard[d]
        BY <1>1, Roles
      <4>4. \A d \in Clients : heard[d] = s => heard'[d] = s
        BY <2>3, <4>3
      <4>5. /\ \A k \in DOMAIN content["toServer"][s] : content["toServer"][s][k] \in Clients
            /\ content'["toServer"][s] = content["toServer"][s]
        BY <1>5 DEF QueuesInv, QueueInv
      <4>6. at[s] > Skip + 4 => heard[s] \in Clients
        BY DEF QueuesInv, QueueInv, ServerOpens
      <4>7. \A k \in DOMAIN content'["toServer"][s] : heard'[content'["toServer"][s][k]] = s
        <5>1. \A k \in DOMAIN content["toServer"][s] : heard[content["toServer"][s][k]] = s
          BY <4>2 DEF CalmTexts
        <5> QED
          BY <4>4, <4>5, <5>1
      <4>8. at'[s] > Skip' + 4 => heard'[heard'[s]] = s
        BY <1>1, <4>2, <4>4, <4>6 DEF CalmTexts
      <4>9. CASE s = t
        <5>1. ~ (at'[s] < Skip' + 4)
          BY <1>1, <3>3, <4>2, <4>9
        <5> QED
          BY <3>2, <4>1, <4>7, <4>8, <4>9, <5>1 DEF CalmTexts
      <4>10. CASE s # t
        <5>1. content'["toClient"][s] = content["toClient"][s]
          BY <1>5, <4>10
        <5>2. \A d \in Clients : heard[d] # s => heard'[d] # s
          BY <3>2, <4>3, <4>10
        <5> QED
          BY <1>1, <4>1, <4>2, <4>7, <4>8, <5>1, <5>2 DEF CalmTexts
      <4> QED
        BY <4>1, <4>9, <4>10
    <3>6. ASSUME NEW d \in Clients PROVE CalmClient(d)'
      <4>1. CASE d = c
        BY <1>1, <2>5, <3>2, <3>4, <4>1 DEF CalmClient
      <4>2. CASE d # c
        <5>1. at'[d] = at[d] /\ heard'[d] = heard[d]
          BY <1>1, <4>2, Roles
        <5>2. at[d] = 3 => handle[d]["toClient"] \in Servers
          BY DEF QueuesInv, QueueInv, ClientOpens
        <5> QED
          BY <1>1, <1>6, <2>2, <5>1, <5>2 DEF CalmClient
      <4> QED
        BY <4>1, <4>2
    <3> QED
      BY <3>5, <3>6
  <2> QED
    BY <1>2, <2>4, <2>5
<1> QED
  BY <1>7, <1>8, <1>9 DEF QueuesInv

LEMMA ClientSends ==
    ASSUME CommonInv, QueuesInv, OverQueues, NEW c \in Clients, Step(c), Send(c),
           at[c] = 4, Name(c) = "toServer"
    PROVE  QueuesInv'
<1> DEFINE t == handle[c]["toServer"]
<1>1. /\ c \in Procs /\ c \notin Servers /\ Skip \in {0, 2} /\ Skip' = Skip /\ OverQueues'
      /\ \A q \in Procs : q # c => at'[q] = at[q] /\ status'[q] = status[q]
      /\ UNCHANGED <<pair, early, crashes, removed, heard, handle, bound>>
      /\ status[c] = "running" /\ Len(Program(c)) = 4
      /\ t \in Servers
  BY Roles, OthersStay, QueueCalls DEF Skip, OverQueues, Send, QueuesInv, QueueInv, ClientOpens
<1>2. /\ at'[c] = at[c]
      /\ \/ content' = content
         \/ content' = [content EXCEPT !["toServer"][t] = Append(content["toServer"][t], c)]
  BY <1>1, Roles DEF Send, Return, Fail, Put, Instance, Content, CommonInv, HandshakeTypes
<1> HIDE DEF t
<1>3. /\ content["toServer"][t] \in Seq(Clients)
      /\ Append(content["toServer"][t], c) \in Seq(Clients)
      /\ \A k \in DOMAIN Append(content["toServer"][t], c) :
           \/ Append(content["toServer"][t], c)[k] = c
           \/ k \in DOMAIN content["toServer"][t]
              /\ Append(content["toServer"][t], c)[k] = content["toServer"][t][k]
  BY <1>1, AppendFacts DEF QueuesInv, QueueInv
<1>4. /\ content'["toServer"] \in [Servers -> Seq(Clients)]
      /\ content'["toClient"] \in [Servers -> Seq(Servers)]
      /\ \A u \in Servers : content'["toClient"][u] = content["toClient"][u]
      /\ \A u \in Servers : \A k \in DOMAIN content'["toServer"][u] :
           \/ u = t /\ content'["toServer"][u][k] = c
           \/ k \in DOMAIN content["toServer"][u]
              /\ content'["toServer"][u][k] = content["toServer"][u][k]
  <2>1. CASE content' = content
    BY <1>1, <2>1 DEF QueuesInv, QueueInv
  <2>2. CASE content' = [content EXCEPT !["toServer"][t] = Append(content["toServer"][t], c)]
    <3>1. QueueInv /\ t \in Servers
      BY <1>1 DEF QueuesInv
    <3>2. /\ content'["toServer"] \in [Servers -> Seq(Clients)]
          /\ content'["toClient"] \in [Servers -> Seq(Servers)]
          /\ content'["toServer"][t] = Append(content["toServer"][t], c)
          /\ content'["toClient"] = content["toClient"]
          /\ \A u \in Servers : u # t => content'["toServer"][u] = content["toServer"][u]
      BY <1>3, <2>2, <3>1, ToServerPut
    <3>3. \A u \in Servers : \A k \in DOMAIN content'["toServer"][u] :
            \/ u = t /\ content'["toServer"][u][k] = c
            \/ k \in DOMAIN content["toServer"][u]
               /\ content'["toServer"][u][k] = content["toServer"][u][k]
      <4> SUFFICES ASSUME NEW u \in Servers, NEW k \in DOMAIN content'["toServer"][u]
                   PROVE  \/ u = t /\ content'["toServer"][u][k] = c
                          \/ k \in DOMAIN content["toServer"][u]
                             /\ content'["toServer"][u][k] = content["toServer"][u][k]
        OBVIOUS
      <4>1. CASE u = t
        BY <1>3, <3>2, <4>1
      <4>2. CASE u # t
        BY <3>2, <4>2
      <4> QED
        BY <4>1, <4>2
    <3> QED
      BY <3>2, <3>3
  <2> QED
    BY <1>2, <2>1, <2>2
<1>5. \A q \in Procs : at'[q] = at[q]
  BY <1>1, <1>2
<1>6. QueueInv'
  <2>1. \A s \in Servers : ServerOpens(s)'
    BY <1>1, <1>5, Roles DEF QueuesInv, QueueInv, ServerOpens
  <2>2. \A d \in Clients : ClientOpens(d)'
    BY <1>1, <1>5, Roles DEF QueuesInv, QueueInv, ClientOpens
  <2> QED
    BY <1>1, <1>4, <2>1, <2>2 DEF QueueInv
<1>7. OwnQueueInv'
  <2>1. \A s \in Servers : c \notin early[s]
    BY <1>1 DEF CommonInv, LivesInv, Over
  <2>2. \A s \in Servers : at'[s] = at[s] /\ status'[s] = status[s]
    BY <1>1, Roles
  <2> SUFFICES ASSUME pair = "posixQueue", NEW u \in Servers
               PROVE  /\ status'[u] = "running" /\ at'[u] \in {3, 4} => bound'["toServer"] = Nobody
                      /\ at'[u] > 4 => handle'[u]["toServer"] = u
                      /\ \A k \in DOMAIN content'["toServer"][u] :
                           content'["toServer"][u][k] \notin early'[u]
                      /\ at'[u] > 6 => heard'[u] \notin early'[u]
    BY <1>1 DEF OwnQueueInv, Running
  <2>3. /\ status[u] = "running" /\ at[u] \in {3, 4} => bound["toServer"] = Nobody
        /\ at[u] > 4 => handle[u]["toServer"] = u
        /\ \A k \in DOMAIN content["toServer"][u] : content["toServer"][u][k] \notin early[u]
        /\ at[u] > 6 => heard[u] \notin early[u]
    BY DEF QueuesInv, OwnQueueInv, Running
  <2>4. \A k \in DOMAIN content'["toServer"][u] : content'["toServer"][u][k] \notin early'[u]
    <3> SUFFICES ASSUME NEW k \in DOMAIN content'["toServer"][u]
                 PROVE  content'["toServer"][u][k] \notin early[u]
      BY <1>1
    <3> QED
      BY <1>4, <2>1, <2>3
  <2> QED
    BY <1>1, <2>2, <2>3, <2>4
<1>8. CalmInv'
  <2> SUFFICES ASSUME crashes = 0
               PROVE  /\ \A s \in Servers : CalmNames(s)' /\ CalmTexts(s)'
                      /\ \A d \in Clients : CalmClient(d)'
    BY <1>1 DEF CalmInv
  <2>1. \A s \in Servers : CalmNames(s) /\ CalmTexts(s)
    BY DEF QueuesInv, CalmInv
  <2>2. \A d \in Clients : CalmClient(d)
    BY DEF QueuesInv, CalmInv
  <2>3. heard[c] = t
    BY <2>2 DEF CalmClient, t
  <2>4. ASSUME NEW s \in Servers PROVE CalmNames(s)' /\ CalmTexts(s)'
    <3>1. CalmNames(s) /\ CalmTexts(s) /\ at'[s] = at[s] /\ status'[s] = status[s]
      BY <1>1, <2>1, Roles
    <3>2. \A k \in DOMAIN content'["toServer"][s] : heard[content'["toServer"][s][k]] = s
      <4> SUFFICES ASSUME NEW k \in DOMAIN content'["toServer"][s]
                   PROVE  heard[content'["toServer"][s][k]] = s
        OBVIOUS
      <4>1. \/ s = t /\ content'["toServer"][s][k] = c
            \/ k \in DOMAIN content["toServer"][s]
               /\ content'["toServer"][s][k] = content["toServer"][s][k]
        BY <1>4
      <4>2. \A j \in DOMAIN content["toServer"][s] : heard[content["toServer"][s][j]] = s
        BY <3>1 DEF CalmTexts
      <4> QED
        BY <2>3, <4>1, <4>2
    <3>3. CalmNames(s)'
      BY <1>1, <3>1 DEF CalmNames, Running
    <3>4. content'["toClient"][s] = content["toClient"][s]
      BY <1>4
    <3> QED
      BY <1>1, <3>1, <3>2, <3>3, <3>4 DEF CalmTexts
  <2>5. ASSUME NEW d \in Clients PROVE CalmClient(d)'
    <3>1. at[d] = 3 => handle[d]["toClient"] \in Servers
      BY DEF QueuesInv, QueueInv, ClientOpens
    <3>2. \A s \in Servers : status[s] = "done" => status'[s] = "done"
      BY <1>1, Roles
    <3> QED
      BY <1>1, <1>5, <2>2, <3>1, <3>2, Roles DEF CalmClient
  <2> QED
    BY <2>4, <2>5
<1> QED
  BY <1>6, <1>7, <1>8 DEF QueuesInv

LEMMA QueuesInitial == HandshakesInit => QueuesInv
<1> SUFFICES ASSUME HandshakesInit PROVE QueuesInv
  OBVIOUS
<1>1. /\ \A s \in Servers : /\ status[s] = "unborn" /\ at[s] = 1
                            /\ content["toServer"][s] = << >> /\ content["toClient"][s] = << >>
      /\ \A c \in Clients : heard[c] = Nobody /\ at[c] = 1
      /\ bound["toClient"] = Nobody /\ bound["toServer"] = Nobody /\ removed = {}
      /\ Skip \in {0, 2}
  BY Roles DEF HandshakesInit, Skip
<1>2. QueueInv
  <2>1. /\ content["toServer"] \in [Servers -> Seq(Clients)]
        /\ content["toClient"] \in [Servers -> Seq(Servers)]
    <3>1. << >> \in Seq(Clients) /\ << >> \in Seq(Servers)
      OBVIOUS
    <3> QED
      BY <3>1, Roles DEF HandshakesInit
  <2> QED
    BY <1>1, <2>1 DEF QueueInv, ServerOpens, ClientOpens
<1>3. OwnQueueInv
  <2> SUFFICES ASSUME NEW s \in Servers
               PROVE  /\ Running(s) /\ at[s] \in {3, 4} => bound["toServer"] = Nobody
                      /\ at[s] > 4 => handle[s]["toServer"] = s
                      /\ \A k \in DOMAIN content["toServer"][s] :
                           content["toServer"][s][k] \notin early[s]
                      /\ at[s] > 6 => heard[s] \notin early[s]
    BY DEF OwnQueueInv
  <2>1. status[s] = "unborn" /\ at[s] = 1 /\ content["toServer"][s] = << >>
    BY <1>1
  <2> QED
    BY <2>1 DEF Running
<1>4. CalmInv
  <2>1. ASSUME NEW s \in Servers PROVE CalmNames(s)
    <3>1. status[s] = "unborn" /\ at[s] = 1 /\ s # Nobody
      BY <1>1, Roles
    <3> QED
      BY <1>1, <3>1 DEF CalmNames
  <2>2. ASSUME NEW s \in Servers PROVE CalmTexts(s)
    <3>1. at[s] = 1 /\ content["toClient"][s] = << >> /\ content["toServer"][s] = << >>
      BY <1>1
    <3>2. \A c \in Clients : heard[c] # s
      BY <1>1, Roles
    <3> QED
      BY <1>1, <3>1, <3>2 DEF CalmTexts
  <2>3. \A c \in Clients : CalmClient(c)
    BY <1>1 DEF CalmClient
  <2> QED
    BY <2>1, <2>2, <2>3 DEF CalmInv
<1> QED
  BY <1>2, <1>3, <1>4 DEF QueuesInv

\* Whose answers are taken changes with a call only.
LEMMA QueueStays ==
    ASSUME QueueInv, UNCHANGED <<pair, at, handle, heard, content>>
    PROVE  QueueInv'
<1> SUFFICES ASSUME OverQueues
             PROVE  /\ content'["toServer"] \in [Servers -> Seq(Clients)]
                    /\ content'["toClient"] \in [Servers -> Seq(Servers)]
                    /\ \A s \in Servers : ServerOpens(s)'
                    /\ \A c \in Clients : ClientOpens(c)'
  BY DEF QueueInv, OverQueues
<1>1. Skip' = Skip
  BY DEF Skip
<1>2. ASSUME NEW s \in Servers PROVE ServerOpens(s)'
  <2>1. ServerOpens(s)
    BY DEF QueueInv
  <2> QED
    BY <1>1, <2>1 DEF ServerOpens
<1>3. ASSUME NEW c \in Clients PROVE ClientOpens(c)'
  <2>1. ClientOpens(c)
    BY DEF QueueInv
  <2> QED
    BY <2>1 DEF ClientOpens
<1> QED
  BY <1>2, <1>3 DEF QueueInv

LEMMA QueuesStep ==
    ASSUME CommonInv, QueuesInv, [HandshakesNext]_handshakeVars
    PROVE  QueuesInv'
<1>1. CASE ~ OverQueues
  <2>1. pair' = pair
    <3>1. ASSUME NEW p \in Procs, Step(p) PROVE pair' = pair
      BY <3>1, OthersStay
    <3> QED
      BY <3>1 DEF HandshakesNext, Start, Crash, handshakeVars
  <2> QED
    BY <1>1, <2>1 DEF QueuesInv, QueueInv, OwnQueueInv, CalmInv, OverQueues
<1>2. ASSUME OverQueues, NEW p \in Procs, Step(p) PROVE QueuesInv'
  <2>1. CASE p \in Servers
    <3>1. \/ at[p] <= Skip \/ at[p] = Skip + 1 \/ at[p] = Skip + 2 \/ at[p] = Skip + 3
          \/ at[p] = Skip + 4 \/ at[p] = Skip + 5 \/ at[p] = Skip + 6
      BY <1>2, <2>1, QueueServerCalls
    <3>2. CASE at[p] <= Skip \/ at[p] = Skip + 5 \/ at[p] = Skip + 6
      BY <1>2, <2>1, <3>2, QueueServerCalls, QueueDrop
    <3>3. CASE at[p] = Skip + 1 \/ at[p] = Skip + 2
      BY <1>2, <2>1, <3>3, QueueServerCalls, QueueCreat
    <3>4. CASE at[p] = Skip + 3
      BY <1>2, <2>1, <3>4, QueueServerCalls, ServerSends
    <3>5. CASE at[p] = Skip + 4
      BY <1>2, <2>1, <3>5, QueueServerCalls, ServerReceives
    <3> QED
      BY <3>1, <3>2, <3>3, <3>4, <3>5
  <2>2. CASE p \in Clients
    BY <1>2, <2>2, QueueClientCalls, ClientOpensQueue, ClientReceives, ClientSends
  <2> QED
    BY <2>1, <2>2 DEF Procs
<1>3. ASSUME OverQueues, NEW p \in Procs, Start(p) PROVE QueuesInv'
  <2>1. /\ UNCHANGED <<pair, at, bound, handle, content, removed, heard, crashes>>
        /\ status[p] = "unborn" /\ Skip' = Skip /\ OverQueues'
    BY <1>3 DEF Start, Skip, OverQueues
  <2>2. status'[p] = "running" /\ \A q \in Procs : q # p => status'[q] = status[q]
    BY <1>3 DEF Start, CommonInv, HandshakeTypes
  <2>3. \A s \in Servers : s # p => early'[s] = early[s]
    BY <1>3 DEF Start, CommonInv, HandshakeTypes
  <2>4. p \in Servers => /\ at[p] = 1 /\ bound["toClient"] # p /\ bound["toServer"] # p
                         /\ content["toServer"][p] = << >>
    BY <2>1, Roles DEF CommonInv, LivesInv
  <2>5. QueueInv'
    BY <2>1, QueueStays DEF QueuesInv
  <2>6. OwnQueueInv'
    <3> SUFFICES ASSUME pair = "posixQueue", NEW t \in Servers
                 PROVE  /\ status'[t] = "running" /\ at'[t] \in {3, 4} => bound'["toServer"] = Nobody
                        /\ at'[t] > 4 => handle'[t]["toServer"] = t
                        /\ \A k \in DOMAIN content'["toServer"][t] :
                             content'["toServer"][t][k] \notin early'[t]
                        /\ at'[t] > 6 => heard'[t] \notin early'[t]
      BY <2>1 DEF OwnQueueInv, Running
    <3>1. /\ status[t] = "running" /\ at[t] \in {3, 4} => bound["toServer"] = Nobody
          /\ at[t] > 4 => handle[t]["toServer"] = t
          /\ \A k \in DOMAIN content["toServer"][t] : content["toServer"][t][k] \notin early[t]
          /\ at[t] > 6 => heard[t] \notin early[t]
      BY DEF QueuesInv, OwnQueueInv, Running
    <3>2. CASE t = p
      BY <2>1, <2>4, <3>2
    <3>3. CASE t # p
      BY <2>1, <2>2, <2>3, <3>1, <3>3, Roles
    <3> QED
      BY <3>2, <3>3
  <2>7. CalmInv'
    <3> SUFFICES ASSUME crashes = 0
                 PROVE  /\ \A s \in Servers : CalmNames(s)' /\ CalmTexts(s)'
                        /\ \A d \in Clients : CalmClient(d)'
      BY <2>1 DEF CalmInv
    <3>1. \A s \in Servers : CalmNames(s) /\ CalmTexts(s)
      BY <1>3 DEF QueuesInv, CalmInv
    <3>2. \A d \in Clients : CalmClient(d)
      BY <1>3 DEF QueuesInv, CalmInv
    <3>3. ASSUME NEW s \in Servers PROVE CalmNames(s)' /\ CalmTexts(s)'
      <4>1. CalmNames(s) /\ CalmTexts(s)
        BY <3>1
      <4>2. CalmTexts(s)'
        BY <2>1, <4>1 DEF CalmTexts
      <4>3. s = p \/ status'[s] = status[s]
        BY <2>2, Roles
      <4>4. CalmNames(s)'
        BY <2>1, <2>2, <2>4, <4>1, <4>3 DEF CalmNames, Running
      <4> QED
        BY <4>2, <4>4
    <3>4. ASSUME NEW d \in Clients PROVE CalmClient(d)'
      <4>1. at[d] = 3 => handle[d]["toClient"] \in Servers
        BY <1>3 DEF QueuesInv, QueueInv, ClientOpens
      <4>2. \A s \in Servers : status[s] = "done" => status'[s] = "done"
        BY <2>1, <2>2, Roles
      <4> QED
        BY <2>1, <3>2, <4>1, <4>2 DEF CalmClient
    <3> QED
      BY <3>3, <3>4
  <2> QED
    BY <2>5, <2>6, <2>7 DEF QueuesInv
<1>4. ASSUME OverQueues, NEW p \in Procs, Crash(p) PROVE QueuesInv'
  <2>1. /\ UNCHANGED <<pair, at, bound, handle, content, removed, heard, early>>
        /\ crashes' # 0 /\ Skip' = Skip /\ OverQueues'
        /\ \A q \in Procs : status'[q] = "running" => status[q] = "running"
    BY <1>4 DEF Crash, Skip, OverQueues, CommonInv, HandshakeTypes
  <2>2. QueueInv'
    BY <2>1, QueueStays DEF QueuesInv
  <2>3. OwnQueueInv'
    BY <2>1, Roles DEF QueuesInv, OwnQueueInv, Running
  <2> QED
    BY <2>1, <2>2, <2>3 DEF QueuesInv, CalmInv
<1>5. CASE UNCHANGED handshakeVars
  <2>1. QueueInv'
    BY <1>5, QueueStays DEF handshakeVars, QueuesInv
  <2>2. OwnQueueInv'
    BY <1>5 DEF handshakeVars, QueuesInv, OwnQueueInv, Running
  <2>3. CalmInv'
    BY <1>5 DEF handshakeVars, QueuesInv, CalmInv, CalmNames, CalmTexts, CalmClient, OverQueues,
                Skip, Running
  <2> QED
    BY <2>1, <2>2, <2>3 DEF QueuesInv
<1> QED
  BY <1>1, <1>2, <1>3, <1>4, <1>5 DEF HandshakesNext

-----------------------------------------------------------------------------
(* Handshakes, POSIX shared memory: the semaphore is above zero only when a   *)
(* client has answered, and its text is then what the server finds.           *)

OverMemory == pair = "posixShm" /\ crashes = 0

Answered(s) == \E c \in Clients : status[c] = "done" /\ handle[c]["sem"] = s

\* As long as nobody is killed a server has made its own objects, and goes past its
\* semaphore when a client is done.
MemoryServer(s) ==
    /\ status[s] \notin {"failed", "dead"}
    /\ bound["shm"] = s => Running(s) /\ at[s] \in 2 .. 8
    /\ bound["sem"] = s => Running(s) /\ at[s] \in 4 .. 9
    /\ at[s] > 1 => handle[s]["shm"] = s
    /\ at[s] > 3 => handle[s]["sem"] = s
    /\ at[s] = 2 => content["shm"][s] = NoRoom
    /\ at[s] > 2 => content["shm"][s] # NoRoom
    /\ at[s] > 6 \/ (at[s] > 3 /\ content["sem"][s] # 0) => Answered(s)
    /\ at[s] > 7 => heard[s] \in Clients \/ Disturbed

\* A client works on the memory of one server, and with the semaphore of another one
\* only when the first has had its answer.
MemoryClient(c) ==
    /\ at[c] > 1 => handle[c]["shm"] \in Servers /\ at[handle[c]["shm"]] > 1
    /\ at[c] > 2 => /\ handle[c]["sem"] \in Servers
                    /\ handle[c]["sem"] = handle[c]["shm"] \/ status[handle[c]["shm"]] = "done"
    /\ at[c] < 4 => heard[c] = Nobody
    /\ at[c] > 3 => at[handle[c]["shm"]] > 2

\* The memory as long as no client has come too early and no second one has answered.
UndisturbedServer(s) ==
    /\ at[s] \in {3, 4} => content["shm"][s] = Blank
    /\ at[s] = 5 => content["shm"][s] = Part(s)

UndisturbedClient(c) ==
    /\ at[c] > 3 => at[handle[c]["shm"]] > 5
    /\ at[c] = 5 => content["shm"][handle[c]["shm"]] = Part(c)
    /\ at[c] > 5 => content["shm"][handle[c]["shm"]] = Text(c)

MemoryInv == OverMemory =>
    /\ \A s \in Servers : MemoryServer(s)
    /\ \A c \in Clients : MemoryClient(c)
    /\ \/ Disturbed
       \/ (\A s \in Servers : UndisturbedServer(s)) /\ (\A c \in Clients : UndisturbedClient(c))

LEMMA MemoryCalls ==
    ASSUME pair = "posixShm"
    PROVE  /\ \A s \in Servers : Program(s) = PosixShmServer
           /\ \A c \in Clients : Program(c) = PosixShmClient
  BY Roles DEF Program

LEMMA PosixShmServerCalls ==
    ASSUME CommonInv, pair = "posixShm", NEW s \in Servers, Step(s)
    PROVE  /\ at[s] \in 1 .. 9 /\ Len(Program(s)) = 9
           /\ at[s] \in {1, 3} => Creat(s)
           /\ at[s] = 2 => Ftruncate(s)
           /\ at[s] = 4 => Begin(s)
           /\ at[s] = 5 => Copy(s)
           /\ at[s] = 6 => Wait(s)
           /\ at[s] = 7 => PrintText(s)
           /\ at[s] \in {8, 9} => UnlinkName(s)
           /\ Name(s) = (IF at[s] \in {3, 6, 9} THEN "sem" ELSE "shm")
<1>1. at[s] \in 1 .. 9 /\ s \in Procs /\ Program(s) = PosixShmServer /\ Len(Program(s)) = 9
  <2>1. s \in Procs /\ Program(s) = PosixShmServer
    BY Roles, MemoryCalls
  <2>2. Len(Program(s)) = 9
    BY <2>1 DEF PosixShmServer
  <2> QED
    BY <2>1, <2>2, OthersStay
<1>2. /\ at[s] = 1 => Program(s)[at[s]] = <<"creat", "shm">>
      /\ at[s] = 2 => Program(s)[at[s]] = <<"ftruncate", "shm">>
      /\ at[s] = 3 => Program(s)[at[s]] = <<"creat", "sem">>
      /\ at[s] = 4 => Program(s)[at[s]] = <<"begin", "shm">>
      /\ at[s] = 5 => Program(s)[at[s]] = <<"copy", "shm">>
      /\ at[s] = 6 => Program(s)[at[s]] = <<"wait", "sem">>
      /\ at[s] = 7 => Program(s)[at[s]] = <<"print", "shm">>
      /\ at[s] = 8 => Program(s)[at[s]] = <<"unlink", "shm">>
      /\ at[s] = 9 => Program(s)[at[s]] = <<"unlink", "sem">>
  BY <1>1 DEF PosixShmServer
<1>3. at[s] = 1 => Creat(s) /\ Name(s) = "shm"
  BY <1>1, <1>2, OneCall
<1>4. at[s] = 2 => Ftruncate(s) /\ Name(s) = "shm"
  BY <1>1, <1>2, OneCall
<1>5. at[s] = 3 => Creat(s) /\ Name(s) = "sem"
  BY <1>1, <1>2, OneCall
<1>6. at[s] = 4 => Begin(s) /\ Name(s) = "shm"
  BY <1>1, <1>2, OneCall
<1>7. at[s] = 5 => Copy(s) /\ Name(s) = "shm"
  BY <1>1, <1>2, OneCall
<1>8. at[s] = 6 => Wait(s) /\ Name(s) = "sem"
  BY <1>1, <1>2, OneCall
<1>9. at[s] = 7 => PrintText(s) /\ Name(s) = "shm"
  BY <1>1, <1>2, OneCall
<1>10. at[s] = 8 => UnlinkName(s) /\ Name(s) = "shm"
  BY <1>1, <1>2, OneCall
<1>11. at[s] = 9 => UnlinkName(s) /\ Name(s) = "sem"
  BY <1>1, <1>2, OneCall
<1> QED
  BY <1>1, <1>3, <1>4, <1>5, <1>6, <1>7, <1>8, <1>9, <1>10, <1>11

LEMMA MemoryServerCalls ==
    ASSUME CommonInv, OverMemory, NEW s \in Servers, Step(s)
    PROVE  /\ at[s] \in 1 .. 9 /\ Len(Program(s)) = 9
           /\ at[s] \in {1, 3} => Creat(s)
           /\ at[s] = 2 => Ftruncate(s)
           /\ at[s] = 4 => Begin(s)
           /\ at[s] = 5 => Copy(s)
           /\ at[s] = 6 => Wait(s)
           /\ at[s] = 7 => PrintText(s)
           /\ at[s] \in {8, 9} => UnlinkName(s)
           /\ Name(s) = (IF at[s] \in {3, 6, 9} THEN "sem" ELSE "shm")
  BY PosixShmServerCalls DEF OverMemory

LEMMA PosixShmClientCalls ==
    ASSUME CommonInv, pair = "posixShm", NEW c \in Clients, Step(c)
    PROVE  /\ at[c] \in 1 .. 6 /\ Len(Program(c)) = 6
           /\ at[c] \in {1, 2} => Open(c)
           /\ at[c] = 3 => PrintText(c)
           /\ at[c] = 4 => Begin(c)
           /\ at[c] = 5 => Copy(c)
           /\ at[c] = 6 => Post(c)
           /\ Name(c) = (IF at[c] \in {2, 6} THEN "sem" ELSE "shm")
<1>1. at[c] \in 1 .. 6 /\ c \in Procs /\ Program(c) = PosixShmClient /\ Len(Program(c)) = 6
  <2>1. c \in Procs /\ Program(c) = PosixShmClient
    BY Roles, MemoryCalls
  <2>2. Len(Program(c)) = 6
    BY <2>1 DEF PosixShmClient
  <2> QED
    BY <2>1, <2>2, OthersStay
<1>2. /\ at[c] = 1 => Program(c)[at[c]] = <<"open", "shm">>
      /\ at[c] = 2 => Program(c)[at[c]] = <<"open", "sem">>
      /\ at[c] = 3 => Program(c)[at[c]] = <<"print", "shm">>
      /\ at[c] = 4 => Program(c)[at[c]] = <<"begin", "shm">>
      /\ at[c] = 5 => Program(c)[at[c]] = <<"copy", "shm">>
      /\ at[c] = 6 => Program(c)[at[c]] = <<"post", "sem">>
  BY <1>1 DEF PosixShmClient
<1>3. at[c] = 1 => Open(c) /\ Name(c) = "shm"
  BY <1>1, <1>2, OneCall
<1>4. at[c] = 2 => Open(c) /\ Name(c) = "sem"
  BY <1>1, <1>2, OneCall
<1>5. at[c] = 3 => PrintText(c) /\ Name(c) = "shm"
  BY <1>1, <1>2, OneCall
<1>6. at[c] = 4 => Begin(c) /\ Name(c) = "shm"
  BY <1>1, <1>2, OneCall
<1>7. at[c] = 5 => Copy(c) /\ Name(c) = "shm"
  BY <1>1, <1>2, OneCall
<1>8. at[c] = 6 => Post(c) /\ Name(c) = "sem"
  BY <1>1, <1>2, OneCall
<1> QED
  BY <1>1, <1>3, <1>4, <1>5, <1>6, <1>7, <1>8

LEMMA MemoryClientCalls ==
    ASSUME CommonInv, OverMemory, NEW c \in Clients, Step(c)
    PROVE  /\ at[c] \in 1 .. 6 /\ Len(Program(c)) = 6
           /\ at[c] \in {1, 2} => Open(c)
           /\ at[c] = 3 => PrintText(c)
           /\ at[c] = 4 => Begin(c)
           /\ at[c] = 5 => Copy(c)
           /\ at[c] = 6 => Post(c)
           /\ Name(c) = (IF at[c] \in {2, 6} THEN "sem" ELSE "shm")
  BY PosixShmClientCalls DEF OverMemory

\* A client has spoken when it has begun to write.
LEMMA BeginsAt ==
    \A n \in 1 .. 6 : (\E k \in 1 .. n - 1 : PosixShmClient[k][1] = "begin") <=> n > 4
  BY DEF PosixShmClient

LEMMA SpokeAt ==
    ASSUME HandshakeTypes, LivesInv, OverMemory, NEW c \in Clients
    PROVE  (Spoke(c) <=> at[c] > 4) /\ at[c] \in 1 .. 6
<1>1. Program(c) = PosixShmClient /\ c \in Procs /\ at[c] \in 1 .. 6
  BY Roles, MemoryCalls DEF OverMemory, PosixShmClient, HandshakeTypes
<1>2. status[c] = "done" => at[c] = 6
  BY <1>1 DEF LivesInv, PosixShmClient
<1> QED
  BY <1>1, <1>2, BeginsAt DEF Spoke, Passed

\* What every call leaves as it is.
LEMMA MemoryFrame ==
    ASSUME CommonInv, MemoryInv, OverMemory, NEW p \in Procs, Step(p)
    PROVE  /\ OverMemory'
           /\ \A c \in Clients : at[c] \in 1 .. 6 /\ at'[c] \in 1 .. 6 /\ (Spoke(c)' <=> at'[c] > 4)
           /\ \A s \in Servers : at[s] \in 1 .. 9 /\ at'[s] \in 1 .. 9 /\ at'[s] >= at[s]
           /\ \A q \in Procs : status[q] = "done" => status'[q] = "done" /\ handle'[q] = handle[q]
           /\ \A s \in Servers : Answered(s) => Answered(s)'
           /\ \A o \in Objects : bound'[o] \in {bound[o], Nobody, p}
           /\ Disturbed => Disturbed'
<1>1. OverMemory' /\ Keeps(p)
  BY OthersStay, StepKeeps DEF OverMemory, CommonInv
<1>2. HandshakeTypes' /\ LivesInv'
  BY <1>1, KeepsTypes, KeepsLives
<1>3. \A c \in Clients : at'[c] \in 1 .. 6 /\ (Spoke(c)' <=> at'[c] > 4)
  <2> SUFFICES ASSUME NEW c \in Clients PROVE at'[c] \in 1 .. 6 /\ (Spoke(c)' <=> at'[c] > 4)
    OBVIOUS
  <2>1. Program(c)' = PosixShmClient /\ c \in Procs /\ at'[c] \in 1 .. 6
    <3>1. Program(c) = PosixShmClient /\ c \in Procs
      BY Roles, MemoryCalls DEF OverMemory
    <3> QED
      BY <1>1, <3>1, Moves DEF CommonInv, PosixShmClient
  <2>2. status'[c] = "done" => at'[c] = 6
    BY <1>2, <2>1 DEF LivesInv, PosixShmClient
  <2> QED
    BY <2>1, <2>2, BeginsAt DEF Spoke, Passed
<1>4. \A c \in Clients : (Spoke(c) <=> at[c] > 4) /\ at[c] \in 1 .. 6
  BY SpokeAt DEF CommonInv
<1>5. \A s \in Servers : s \in Procs /\ at[s] \in 1 .. 9 /\ at'[s] \in 1 .. 9
  <2> SUFFICES ASSUME NEW s \in Servers
               PROVE  s \in Procs /\ at[s] \in 1 .. 9 /\ at'[s] \in 1 .. 9
    OBVIOUS
  <2>1. s \in Procs /\ Program(s) = PosixShmServer
    BY Roles, MemoryCalls DEF OverMemory
  <2>2. Len(Program(s)) = 9
    BY <2>1 DEF PosixShmServer
  <2> QED
    BY <1>1, <2>1, <2>2, Moves DEF CommonInv, HandshakeTypes
<1>6. \A q \in Procs : at[q] \in Nat /\ at'[q] \in Nat /\ at'[q] >= at[q]
  <2> SUFFICES ASSUME NEW q \in Procs PROVE at[q] \in Nat /\ at'[q] \in Nat /\ at'[q] >= at[q]
    OBVIOUS
  <2>1. at[q] \in Nat /\ (at'[q] = at[q] \/ at'[q] = at[q] + 1)
    BY <1>1, Moves DEF CommonInv, HandshakeTypes
  <2> QED
    BY <2>1
<1>7. \A q \in Procs : status[q] = "done" => status'[q] = "done" /\ handle'[q] = handle[q]
  BY OthersStay
<1>8. \A s \in Servers : Answered(s) => Answered(s)'
  BY <1>7, Roles DEF Answered
<1>9. \A o \in Objects : bound'[o] \in {bound[o], Nobody, p}
  BY <1>1 DEF Keeps, CommonInv, HandshakeTypes
<1>10. ASSUME Disturbed PROVE Disturbed'
  <2>1. ASSUME NEW c \in Clients, heard[c] \in {"blank", "mixed"} PROVE Disturbed'
    <3>1. heard'[c] = heard[c]
      <4>1. CASE p # c
        BY <4>1, OthersStay, Roles
      <4>2. CASE p = c
        <5>1. MemoryClient(c)
          BY DEF MemoryInv
        <5>2. ~ (at[c] < 4) /\ at[c] \in 1 .. 6
          BY <1>4, <2>1, <5>1, ProcsAssumption DEF MemoryClient, Nobody
        <5>3. Begin(c) \/ Copy(c) \/ Post(c)
          BY <4>2, <5>2, MemoryClientCalls
        <5> QED
          BY <5>3 DEF Begin, Copy, Post
      <4> QED
        BY <4>1, <4>2
    <3> QED
      BY <2>1, <3>1 DEF Disturbed
  <2>2. ASSUME NEW c \in Clients, NEW d \in Clients, c # d, Spoke(c), Spoke(d) PROVE Disturbed'
    <3>1. at'[c] > 4 /\ at'[d] > 4
      BY <1>4, <1>6, <2>2, Roles
    <3> QED
      BY <1>3, <2>2, <3>1 DEF Disturbed
  <2> QED
    BY <1>10, <2>1, <2>2 DEF Disturbed
<1> QED
  BY <1>1, <1>3, <1>4, <1>5, <1>6, <1>7, <1>8, <1>9, <1>10

\* What p writes leaves the others what they rely on.
Harmless(p) ==
    /\ \A s \in Servers \ {p} :
         /\ at[s] = 2 => content'["shm"][s] = content["shm"][s]
         /\ content["shm"][s] # NoRoom => content'["shm"][s] # NoRoom
         /\ content'["sem"][s] = content["sem"][s] \/ Answered(s)'
    /\ \/ Disturbed'
       \/ /\ \A s \in Servers \ {p} : at[s] < 6 => content'["shm"][s] = content["shm"][s]
          /\ \A c \in Clients \ {p} : at[c] > 4 =>
               content'["shm"][handle[c]["shm"]] = content["shm"][handle[c]["shm"]]

LEMMA MemoryOthers ==
    ASSUME CommonInv, MemoryInv, OverMemory, NEW p \in Procs, Step(p), Harmless(p)
    PROVE  /\ \A s \in Servers \ {p} : MemoryServer(s)'
           /\ \A c \in Clients \ {p} : MemoryClient(c)'
           /\ \/ Disturbed'
              \/ /\ \A s \in Servers \ {p} : UndisturbedServer(s)'
                 /\ \A c \in Clients \ {p} : UndisturbedClient(c)'
<1>1. \A s \in Servers \ {p} :
        /\ s # Nobody /\ at'[s] = at[s] /\ status'[s] = status[s] /\ handle'[s] = handle[s]
        /\ heard'[s] = heard[s] /\ (Answered(s) => Answered(s)') /\ at[s] \in 1 .. 9
  BY Roles, OthersStay, MemoryFrame
<1>2. \A c \in Clients \ {p} :
        /\ at'[c] = at[c] /\ status'[c] = status[c] /\ handle'[c] = handle[c]
        /\ heard'[c] = heard[c] /\ at[c] \in 1 .. 6
  BY Roles, OthersStay, MemoryFrame
<1>3. \A s \in Servers : /\ at[s] \in 1 .. 9 /\ at'[s] \in 1 .. 9 /\ at'[s] >= at[s]
                         /\ status[s] = "done" => status'[s] = "done"
  BY Roles, MemoryFrame
<1>4. ASSUME NEW s \in Servers \ {p} PROVE MemoryServer(s)'
  <2>1. MemoryServer(s)
    BY DEF MemoryInv
  <2>2. \A o \in {"shm", "sem"} : bound'[o] = s => bound[o] = s
    BY <1>1, MemoryFrame, Roles
  <2>3. /\ at[s] = 2 => content'["shm"][s] = content["shm"][s]
        /\ content["shm"][s] # NoRoom => content'["shm"][s] # NoRoom
        /\ content'["sem"][s] = content["sem"][s] \/ Answered(s)'
    BY DEF Harmless
  <2>4. Disturbed => Disturbed'
    BY MemoryFrame
  <2>5. /\ at'[s] = at[s] /\ status'[s] = status[s] /\ handle'[s] = handle[s]
        /\ heard'[s] = heard[s] /\ (Answered(s) => Answered(s)') /\ at[s] \in 1 .. 9
    BY <1>1
  <2> QED
    BY <2>1, <2>2, <2>3, <2>4, <2>5 DEF MemoryServer, Running, NoRoom
<1>5. ASSUME NEW c \in Clients \ {p} PROVE MemoryClient(c)'
  <2>1. MemoryClient(c)
    BY DEF MemoryInv
  <2>2. at'[c] = at[c] /\ handle'[c] = handle[c] /\ heard'[c] = heard[c] /\ at[c] \in 1 .. 6
    BY <1>2
  <2> DEFINE t == handle[c]["shm"]
  <2>3. at[c] > 1 => /\ t \in Servers /\ at'[t] \in 1 .. 9 /\ at[t] \in 1 .. 9 /\ at'[t] >= at[t]
                     /\ status[t] = "done" => status'[t] = "done"
    BY <1>3, <2>1 DEF MemoryClient
  <2> QED
    BY <2>1, <2>2, <2>3 DEF MemoryClient
<1>6. ASSUME ~ Disturbed' PROVE /\ \A s \in Servers \ {p} : UndisturbedServer(s)'
                                /\ \A c \in Clients \ {p} : UndisturbedClient(c)'
  <2>1. ~ Disturbed
    BY <1>6, MemoryFrame
  <2>2. ASSUME NEW s \in Servers \ {p} PROVE UndisturbedServer(s)'
    <3>1. UndisturbedServer(s) /\ at'[s] = at[s]
      BY <1>1, <2>1 DEF MemoryInv
    <3>2. at[s] < 6 => content'["shm"][s] = content["shm"][s]
      BY <1>6 DEF Harmless
    <3> QED
      BY <1>1, <3>1, <3>2 DEF UndisturbedServer, Blank, Part
  <2>3. ASSUME NEW c \in Clients \ {p} PROVE UndisturbedClient(c)'
    <3>1. UndisturbedClient(c) /\ MemoryClient(c)
      BY <2>1 DEF MemoryInv
    <3>2. at'[c] = at[c] /\ handle'[c] = handle[c] /\ at[c] \in 1 .. 6
      BY <1>2
    <3>3. at[c] > 4 => content'["shm"][handle[c]["shm"]] = content["shm"][handle[c]["shm"]]
      BY <1>6 DEF Harmless
    <3> DEFINE t == handle[c]["shm"]
    <3>4. at[c] > 1 => at'[t] \in 1 .. 9 /\ at[t] \in 1 .. 9 /\ at'[t] >= at[t]
      BY <1>3, <3>1 DEF MemoryClient
    <3> QED
      BY <3>1, <3>2, <3>3, <3>4 DEF UndisturbedClient, Part, Text
  <2> QED
    BY <2>2, <2>3
<1> QED
  BY <1>4, <1>5, <1>6

LEMMA MemoryWhole ==
    ASSUME CommonInv, MemoryInv, OverMemory, NEW p \in Procs, Step(p), Harmless(p),
           p \in Servers => MemoryServer(p)' /\ (Disturbed' \/ UndisturbedServer(p)'),
           p \in Clients => MemoryClient(p)' /\ (Disturbed' \/ UndisturbedClient(p)')
    PROVE  MemoryInv'
  BY MemoryOthers DEF MemoryInv

\* The calls of a server, one by one.
LEMMA ServerCreats ==
    ASSUME CommonInv, MemoryInv, OverMemory, NEW s \in Servers, Step(s), at[s] \in {1, 3}
    PROVE  MemoryInv'
<1> DEFINE o == Name(s)
           v == IF at[s] = 1 THEN NoRoom ELSE 0
<1>1. /\ s \in Procs /\ s \notin Clients /\ s # Nobody /\ Creat(s) /\ Len(Program(s)) = 9
      /\ o = (IF at[s] = 1 THEN "shm" ELSE "sem") /\ o \in Objects
  BY Roles, MemoryServerCalls
<1>2. at'[s] = at[s] + 1 /\ status'[s] = "running" /\ heard' = heard
  BY <1>1 DEF Creat, Return, CommonInv, HandshakeTypes, Calls, Running
<1>3. MemoryServer(s) /\ status[s] = "running"
  BY <1>1 DEF MemoryInv, Creat, Calls, Running
<1>4. bound[o] = Nobody
  <2>1. bound[o] \in Servers \cup {Nobody}
    BY <1>1 DEF CommonInv, HandshakeTypes, Instances
  <2>2. ASSUME bound[o] \in Servers PROVE FALSE
    <3>1. MemoryServer(bound[o])
      BY <2>2 DEF MemoryInv
    <3>2. Running(bound[o]) /\ Running(s)
      BY <1>1, <1>3, <3>1 DEF MemoryServer, Running
    <3>3. bound[o] = s
      BY <2>2, <3>2 DEF CommonInv, LivesInv
    <3> QED
      BY <1>1, <1>3, <3>3 DEF MemoryServer
  <2> QED
    BY <2>1, <2>2
<1>5. /\ bound' = [bound EXCEPT ![o] = s] /\ handle' = [handle EXCEPT ![s][o] = s]
      /\ content' = [content EXCEPT ![o][s] = v]
  BY <1>1, <1>4 DEF Creat, Fresh, OverMemory
<1>6. PICK V : content \in [Objects -> [Servers -> V]]
  BY DEF CommonInv, HandshakeTypes
<1>7. /\ content'[o][s] = v
      /\ \A n \in {"shm", "sem"}, u \in Servers : n # o \/ u # s => content'[n][u] = content[n][u]
  <2> HIDE DEF o, v
  <2> QED
    BY <1>1, <1>5, <1>6, PutAt, Roles
<1>8. /\ handle'[s][o] = s /\ \A n \in {"shm", "sem"} : n # o => handle'[s][n] = handle[s][n]
      /\ \A n \in {"shm", "sem"} : bound'[n] = s => n = o \/ bound[n] = s
  <2>1. handle \in [Procs -> [Objects -> Instances]] /\ bound \in [Objects -> Instances]
    BY DEF CommonInv, HandshakeTypes
  <2> QED
    BY <1>1, <1>5, <2>1, Roles
<1>9. Harmless(s)
  <2>1. Disturbed \/ \A c \in Clients : at[c] > 4 =>
             handle[c]["shm"] \in Servers /\ at[handle[c]["shm"]] > 5
    <3>1. \A c \in Clients : at[c] \in 1 .. 6
      BY MemoryFrame, <1>1
    <3> QED
      BY <3>1 DEF MemoryInv, UndisturbedClient, MemoryClient
  <2>2. Disturbed => Disturbed'
    BY <1>1, MemoryFrame
  <2> QED
    BY <1>7, <2>1, <2>2 DEF Harmless
<1>10. MemoryServer(s)' /\ (Disturbed' \/ UndisturbedServer(s)')
  <2>1. CASE at[s] = 1
    <3>1. /\ o = "shm" /\ at'[s] = 2 /\ content'["shm"][s] = NoRoom /\ handle'[s]["shm"] = s
          /\ bound'["sem"] # s
      BY <1>1, <1>2, <1>3, <1>7, <1>8, <2>1 DEF MemoryServer
    <3>2. MemoryServer(s)'
      BY <1>2, <3>1 DEF MemoryServer, Running, NoRoom
    <3> QED
      BY <3>1, <3>2 DEF UndisturbedServer
  <2>2. CASE at[s] = 3
    <3>1. /\ o = "sem" /\ at'[s] = 4 /\ content'["sem"][s] = 0 /\ handle'[s]["shm"] = s
          /\ handle'[s]["sem"] = s /\ content'["shm"][s] = content["shm"][s]
          /\ content["shm"][s] # NoRoom
      BY <1>1, <1>2, <1>3, <1>7, <1>8, <2>2 DEF MemoryServer
    <3>2. MemoryServer(s)'
      BY <1>2, <3>1 DEF MemoryServer, Running, NoRoom
    <3>3. Disturbed' \/ UndisturbedServer(s)
      BY <1>1, MemoryFrame DEF MemoryInv
    <3> QED
      BY <2>2, <3>1, <3>2, <3>3 DEF UndisturbedServer, Blank
  <2> QED
    BY <2>1, <2>2
<1> QED
  BY <1>1, <1>9, <1>10, MemoryWhole

LEMMA ServerWrites ==
    ASSUME CommonInv, MemoryInv, OverMemory, NEW s \in Servers, Step(s), at[s] \in {2, 4, 5}
    PROVE  MemoryInv'
<1>1. /\ s \in Procs /\ s \notin Clients /\ s # Nobody /\ Len(Program(s)) = 9
      /\ at[s] = 2 => Ftruncate(s)
      /\ at[s] = 4 => Begin(s)
      /\ at[s] = 5 => Copy(s)
      /\ Name(s) = "shm" /\ "shm" \in Objects
  BY Roles, MemoryServerCalls
<1>2. MemoryServer(s) /\ handle[s]["shm"] = s
  BY DEF MemoryInv, MemoryServer
<1>3. Content(s) = content["shm"][s] /\ \A v : Put(s, v) => content' = [content EXCEPT !["shm"][s] = v]
  BY <1>1, <1>2 DEF Content, Instance, Put
<1>4. PICK v \in {Blank, Part(s), Text(s), Mixed} :
        /\ content' = [content EXCEPT !["shm"][s] = v] /\ Return(s)
        /\ at[s] = 2 => v = Blank
        /\ at[s] = 4 => v = Part(s)
  <2>1. CASE at[s] = 2
    BY <1>1, <1>2, <1>3, <2>1 DEF Ftruncate, MemoryServer
  <2>2. CASE at[s] = 4
    BY <1>1, <1>2, <1>3, <2>2 DEF Begin, MemoryServer
  <2>3. CASE at[s] = 5
    BY <1>1, <1>3, <2>3 DEF Copy
  <2> QED
    BY <2>1, <2>2, <2>3
<1>5. /\ at'[s] = at[s] + 1 /\ status'[s] = status[s] /\ heard' = heard /\ bound' = bound
      /\ handle' = handle
  BY <1>1, <1>4 DEF Ftruncate, Begin, Copy, Return, CommonInv, HandshakeTypes
<1>6. v # NoRoom
  BY ProcsAssumption, <1>1 DEF Blank, Part, Text, Mixed, NoRoom
<1>7. PICK V : content \in [Objects -> [Servers -> V]]
  BY DEF CommonInv, HandshakeTypes
<1>8. /\ content'["shm"][s] = v
      /\ \A n \in {"shm", "sem"}, u \in Servers : n # "shm" \/ u # s => content'[n][u] = content[n][u]
  BY <1>1, <1>4, <1>7, PutAt, Roles
<1>9. Harmless(s)
  <2>1. Disturbed \/ \A c \in Clients : at[c] > 4 =>
             handle[c]["shm"] \in Servers /\ at[handle[c]["shm"]] > 5
    <3>1. \A c \in Clients : at[c] \in 1 .. 6
      BY MemoryFrame, <1>1
    <3> QED
      BY <3>1 DEF MemoryInv, UndisturbedClient, MemoryClient
  <2>2. Disturbed => Disturbed'
    BY <1>1, MemoryFrame
  <2> QED
    BY <1>8, <2>1, <2>2 DEF Harmless
<1>10. MemoryServer(s)'
  <2>1. content'["sem"][s] = content["sem"][s] /\ (Answered(s) => Answered(s)')
    BY <1>1, <1>8, MemoryFrame
  <2> QED
    BY <1>2, <1>5, <1>6, <1>8, <2>1 DEF MemoryServer, Running, NoRoom
<1>11. UndisturbedServer(s)'
  BY <1>4, <1>5, <1>8 DEF UndisturbedServer, Blank, Part
<1> QED
  BY <1>1, <1>9, <1>10, <1>11, MemoryWhole

\* Steps of a server that do not write into the memory.
LEMMA ServerWaits ==
    ASSUME CommonInv, MemoryInv, OverMemory, NEW s \in Servers, Step(s), at[s] = 6
    PROVE  MemoryInv'
<1>1. /\ s \in Procs /\ s \notin Clients /\ s # Nobody /\ Len(Program(s)) = 9
      /\ Wait(s) /\ Name(s) = "sem" /\ "sem" \in Objects
  BY Roles, MemoryServerCalls
<1>2. MemoryServer(s) /\ handle[s]["sem"] = s
  BY DEF MemoryInv, MemoryServer
<1>3. content["sem"][s] > 0 /\ content' = [content EXCEPT !["sem"][s] = content["sem"][s] - 1]
  BY <1>1, <1>2 DEF Wait, Content, Instance, Put
<1>4. Answered(s)'
  BY <1>1, <1>2, <1>3, MemoryFrame DEF MemoryServer
<1>5. at'[s] = 7 /\ status'[s] = status[s] /\ heard' = heard /\ bound' = bound /\ handle' = handle
  BY <1>1 DEF Wait, Return, CommonInv, HandshakeTypes
<1>6. PICK V : content \in [Objects -> [Servers -> V]]
  BY DEF CommonInv, HandshakeTypes
<1>7. /\ \A u \in Servers : content'["shm"][u] = content["shm"][u]
      /\ \A u \in Servers : u # s => content'["sem"][u] = content["sem"][u]
  BY <1>1, <1>3, <1>6, PutAt, Roles
<1>8. Harmless(s)
  <2>1. \A c \in Clients : at[c] > 4 => handle[c]["shm"] \in Servers
    <3>1. \A c \in Clients : at[c] \in 1 .. 6
      BY MemoryFrame, <1>1
    <3> QED
      BY <3>1 DEF MemoryInv, MemoryClient
  <2> QED
    BY <1>7, <2>1 DEF Harmless
<1>9. MemoryServer(s)'
  BY <1>2, <1>4, <1>5, <1>7 DEF MemoryServer, Running, NoRoom
<1>10. UndisturbedServer(s)'
  BY <1>5 DEF UndisturbedServer
<1> QED
  BY <1>1, <1>8, <1>9, <1>10, MemoryWhole

\* What a server finds when it is let go.
LEMMA AnswerInMemory ==
    ASSUME CommonInv, MemoryInv, OverMemory, NEW s \in Servers, at[s] = 7
    PROVE  Disturbed \/ \E c \in Clients : content["shm"][s] = Text(c)
<1> SUFFICES ASSUME ~ Disturbed PROVE \E c \in Clients : content["shm"][s] = Text(c)
  OBVIOUS
<1>1. \A c \in Clients : status[c] = "done" => at[c] = 6 /\ Spoke(c)
  <2> SUFFICES ASSUME NEW c \in Clients, status[c] = "done" PROVE at[c] = 6 /\ Spoke(c)
    OBVIOUS
  <2>1. Program(c) = PosixShmClient /\ c \in Procs
    BY Roles, MemoryCalls DEF OverMemory
  <2>2. at[c] = Len(Program(c))
    BY <2>1 DEF CommonInv, LivesInv
  <2> QED
    BY <2>1, <2>2 DEF Spoke, PosixShmClient
<1>2. PICK c \in Clients : status[c] = "done" /\ handle[c]["sem"] = s
  <2>1. MemoryServer(s)
    BY DEF MemoryInv
  <2> QED
    BY <2>1 DEF MemoryServer, Answered
<1>3. MemoryClient(c) /\ UndisturbedClient(c) /\ at[c] = 6
  BY <1>1, <1>2 DEF MemoryInv
<1> DEFINE t == handle[c]["shm"]
<1>4. t = s
  <2> SUFFICES ASSUME t # s PROVE FALSE
    OBVIOUS
  <2>1. t \in Servers /\ status[t] = "done"
    BY <1>2, <1>3 DEF MemoryClient
  <2> HIDE DEF t
  <2>2. at[t] = 9
    <3>1. t \in Procs /\ Program(t) = PosixShmServer
      BY <2>1, Roles, MemoryCalls DEF OverMemory
    <3>2. at[t] = Len(Program(t))
      BY <2>1, <3>1 DEF CommonInv, LivesInv
    <3> QED
      BY <3>1, <3>2 DEF PosixShmServer
  <2>3. PICK d \in Clients : status[d] = "done" /\ handle[d]["sem"] = t
    <3>1. MemoryServer(t)
      BY <2>1 DEF MemoryInv
    <3> QED
      BY <2>2, <3>1 DEF MemoryServer, Answered
  <2> QED
    BY <1>1, <1>2, <2>3 DEF Disturbed
<1> QED
  BY <1>3, <1>4 DEF UndisturbedClient

LEMMA ServerPrints ==
    ASSUME CommonInv, MemoryInv, OverMemory, NEW s \in Servers, Step(s), at[s] \in {7, 8, 9}
    PROVE  MemoryInv'
<1>1. /\ s \in Procs /\ s \notin Clients /\ s # Nobody /\ Len(Program(s)) = 9
      /\ at[s] = 7 => PrintText(s)
      /\ at[s] \in {8, 9} => UnlinkName(s)
      /\ Name(s) = (IF at[s] = 9 THEN "sem" ELSE "shm") /\ {"shm", "sem"} \subseteq Objects
  BY Roles, MemoryServerCalls
<1>2. MemoryServer(s) /\ handle[s]["shm"] = s /\ status[s] = "running"
  BY <1>1, OthersStay DEF MemoryInv, MemoryServer
<1>3. content' = content /\ handle' = handle
  BY <1>1 DEF PrintText, UnlinkName
<1>4. Harmless(s)
  BY <1>3 DEF Harmless
<1>5. (Disturbed => Disturbed') /\ Answered(s)'
  BY <1>1, <1>2, MemoryFrame DEF MemoryServer
<1>6. CASE at[s] = 7
  <2>1. Content(s) = content["shm"][s] /\ Content(s) # NoRoom
    BY <1>1, <1>2, <1>6 DEF Content, Instance, MemoryServer
  <2>2. at'[s] = 8 /\ status'[s] = "running" /\ heard'[s] = Printed(content["shm"][s]) /\ bound' = bound
    <3>1. PICK V : heard \in [Procs -> V]
      BY DEF CommonInv, HandshakeTypes
    <3> QED
      BY <1>1, <1>2, <1>6, <2>1, <3>1 DEF PrintText, Return, CommonInv, HandshakeTypes
  <2>3. heard'[s] \in Clients \/ Disturbed
    <3>1. \A c \in Clients : Printed(Text(c)) = c
      BY DEF Printed, Text
    <3> QED
      BY <1>6, <2>2, <3>1, AnswerInMemory
  <2>4. MemoryServer(s)'
    BY <1>2, <1>3, <1>5, <1>6, <2>2, <2>3 DEF MemoryServer, Running, NoRoom
  <2>5. UndisturbedServer(s)'
    BY <2>2 DEF UndisturbedServer
  <2> QED
    BY <1>1, <1>4, <2>4, <2>5, MemoryWhole
<1>7. CASE at[s] \in {8, 9}
  <2>1. /\ at'[s] = 9 /\ status'[s] = (IF at[s] = 9 THEN "done" ELSE "running") /\ heard' = heard
        /\ \A n \in Objects : bound'[n] = IF n = Name(s) THEN Nobody ELSE bound[n]
    BY <1>1, <1>2, <1>7 DEF UnlinkName, Return, CommonInv, HandshakeTypes
  <2>2. bound'["shm"] # s /\ (at[s] = 9 => bound'["sem"] # s)
    BY <1>1, <1>2, <1>7, <2>1, Roles DEF MemoryServer
  <2>3. MemoryServer(s)'
    BY <1>1, <1>2, <1>3, <1>5, <1>7, <2>1, <2>2 DEF MemoryServer, Running, NoRoom
  <2>4. UndisturbedServer(s)'
    BY <2>1 DEF UndisturbedServer
  <2> QED
    BY <1>1, <1>4, <2>3, <2>4, MemoryWhole
<1> QED
  BY <1>6, <1>7

\* The calls of a client.
LEMMA ClientOpensMemory ==
    ASSUME CommonInv, MemoryInv, OverMemory, NEW c \in Clients, Step(c), at[c] \in {1, 2}
    PROVE  MemoryInv'
<1> DEFINE o == Name(c)
           b == bound[o]
<1>1. /\ c \in Procs /\ c \notin Servers /\ Len(Program(c)) = 6 /\ Open(c)
      /\ o = (IF at[c] = 2 THEN "sem" ELSE "shm") /\ {"shm", "sem"} \subseteq Objects
  BY Roles, MemoryClientCalls
<1>2. MemoryClient(c) /\ content' = content /\ heard' = heard /\ at[c] \in Nat
  BY <1>1 DEF MemoryInv, Open
<1>3. Harmless(c)
  BY <1>2 DEF Harmless
<1>4. UndisturbedClient(c)'
  <2>1. at'[c] < 4
    BY <1>1 DEF Open, Return, Fail, CommonInv, HandshakeTypes
  <2> QED
    BY <2>1, <1>1, MemoryFrame DEF UndisturbedClient
<1>5. MemoryClient(c)'
  <2>1. CASE b = Nobody
    <3>1. at' = at /\ handle' = handle /\ \A s \in Servers : status[s] = "done" => status'[s] = "done"
      BY <1>1, <2>1, MemoryFrame, Roles DEF Open, Fail
    <3> QED
      BY <1>2, <3>1 DEF MemoryClient
  <2>2. CASE b # Nobody
    <3>1. /\ b \in Servers /\ at'[c] = at[c] + 1 /\ handle'[c][o] = b
          /\ \A n \in {"shm", "sem"} : n # o => handle'[c][n] = handle[c][n]
          /\ \A s \in Servers : at'[s] = at[s] /\ status'[s] = status[s]
      BY <1>1, <2>2, Roles, OthersStay DEF Open, Return, CommonInv, HandshakeTypes, Instances
    <3>2. MemoryServer(b)
      BY <3>1 DEF MemoryInv
    <3>3. CASE at[c] = 1
      <4>1. at'[c] = 2 /\ handle'[c]["shm"] = b /\ at'[b] > 1
        BY <1>1, <3>1, <3>2, <3>3 DEF MemoryServer
      <4> QED
        BY <1>2, <3>1, <3>3, <4>1 DEF MemoryClient
    <3>4. CASE at[c] = 2
      <4> DEFINE t == handle[c]["shm"]
      <4>1. /\ at'[c] = 3 /\ handle'[c]["shm"] = t /\ handle'[c]["sem"] = b
            /\ t \in Servers /\ at[t] > 1 /\ at'[t] > 1
        BY <1>1, <1>2, <3>1, <3>4 DEF MemoryClient
      <4>2. b = t \/ status'[t] = "done"
        <5> SUFFICES ASSUME b # t PROVE status[t] = "done"
          BY <3>1, <4>1
        <5>1. Running(b)
          BY <1>1, <3>2, <3>4 DEF MemoryServer
        <5>2. ~ Running(t)
          BY <3>1, <4>1, <5>1 DEF CommonInv, LivesInv
        <5>3. status[t] # "unborn"
          BY <4>1 DEF CommonInv, LivesInv
        <5>4. MemoryServer(t) /\ t \in Procs
          BY <4>1, Roles DEF MemoryInv
        <5>5. status[t] \notin {"failed", "dead"} /\ status[t] \in Statuses
          BY <5>4 DEF MemoryServer, CommonInv, HandshakeTypes
        <5> QED
          BY <5>2, <5>3, <5>5 DEF Running, Statuses
      <4> QED
        BY <1>2, <3>1, <3>4, <4>1, <4>2 DEF MemoryClient
    <3> QED
      BY <3>3, <3>4
  <2> QED
    BY <2>1, <2>2
<1> QED
  BY <1>1, <1>3, <1>4, <1>5, MemoryWhole

LEMMA ClientPrints ==
    ASSUME CommonInv, MemoryInv, OverMemory, NEW c \in Clients, Step(c), at[c] = 3
    PROVE  MemoryInv'
<1> DEFINE t == handle[c]["shm"]
           text == content["shm"][t]
<1>1. /\ c \in Procs /\ c \notin Servers /\ Len(Program(c)) = 6 /\ PrintText(c)
      /\ Name(c) = "shm" /\ Content(c) = text
  BY Roles, MemoryClientCalls DEF Content, Instance
<1>2. MemoryClient(c) /\ content' = content /\ handle' = handle
  BY <1>1 DEF MemoryInv, PrintText
<1>3. Harmless(c)
  BY <1>2 DEF Harmless
<1>4. /\ t \in Servers /\ at[t] > 1 /\ at'[t] = at[t] /\ at[t] \in 1 .. 9
      /\ \A s \in Servers : status'[s] = status[s]
  BY <1>1, <1>2, Roles, OthersStay, MemoryFrame DEF MemoryClient
<1>5. MemoryServer(t) /\ (Disturbed' \/ UndisturbedServer(t))
  BY <1>1, <1>4, MemoryFrame DEF MemoryInv
<1>6. CASE text = NoRoom
  <2>1. at' = at /\ heard' = heard
    BY <1>1, <1>6 DEF PrintText, Fail
  <2> QED
    BY <1>1, <1>2, <1>3, <1>4, <2>1, MemoryWhole DEF MemoryClient, UndisturbedClient
<1>7. CASE text # NoRoom
  <2>1. at'[c] = 4 /\ heard'[c] = Printed(text)
    <3>1. PICK V : heard \in [Procs -> V]
      BY DEF CommonInv, HandshakeTypes
    <3> QED
      BY <1>1, <1>7, <3>1 DEF PrintText, Return, CommonInv, HandshakeTypes
  <2>2. at[t] > 2
    BY <1>4, <1>5, <1>7 DEF MemoryServer
  <2>3. Disturbed' \/ at[t] > 5
    <3> SUFFICES ASSUME UndisturbedServer(t), at[t] \in {3, 4, 5} PROVE Disturbed'
      BY <1>4, <1>5, <2>2
    <3>1. text = Blank \/ text = Part(t)
      BY DEF UndisturbedServer
    <3>2. Printed(Blank) = "blank" /\ Printed(Part(t)) = "mixed"
      BY DEF Printed, Blank, Part
    <3>3. heard'[c] \in {"blank", "mixed"}
      BY <2>1, <3>1, <3>2
    <3> QED
      BY <3>3 DEF Disturbed
  <2>4. MemoryClient(c)'
    BY <1>2, <1>4, <2>1, <2>2 DEF MemoryClient
  <2>5. Disturbed' \/ UndisturbedClient(c)'
    BY <1>2, <1>4, <2>1, <2>3 DEF UndisturbedClient
  <2> QED
    BY <1>1, <1>3, <2>4, <2>5, MemoryWhole
<1> QED
  BY <1>6, <1>7

LEMMA ClientWrites ==
    ASSUME CommonInv, MemoryInv, OverMemory, NEW c \in Clients, Step(c), at[c] \in {4, 5}
    PROVE  MemoryInv'
<1> DEFINE t == handle[c]["shm"]
<1>1. /\ c \in Procs /\ c \notin Servers /\ Len(Program(c)) = 6
      /\ at[c] = 4 => Begin(c)
      /\ at[c] = 5 => Copy(c)
      /\ Name(c) = "shm" /\ "shm" \in Objects
  BY Roles, MemoryClientCalls
<1>2. Content(c) = content["shm"][t] /\ \A v : Put(c, v) => content' = [content EXCEPT !["shm"][t] = v]
  BY <1>1 DEF Content, Instance, Put
<1>3. MemoryClient(c) /\ (Disturbed \/ UndisturbedClient(c))
  BY DEF MemoryInv
<1>4. /\ t \in Servers /\ at[t] > 2 /\ at'[t] = at[t] /\ at[t] \in 1 .. 9
      /\ \A s \in Servers : status'[s] = status[s]
  BY <1>1, <1>3, Roles, OthersStay, MemoryFrame DEF MemoryClient
<1>5. content["shm"][t] # NoRoom
  <2>1. MemoryServer(t)
    BY <1>4 DEF MemoryInv
  <2> QED
    BY <1>4, <2>1 DEF MemoryServer
<1> HIDE DEF t
<1>6. PICK v \in {Part(c), Text(c), Mixed} :
        /\ content' = [content EXCEPT !["shm"][t] = v] /\ Return(c)
        /\ at[c] = 4 => v = Part(c)
        /\ at[c] = 5 => v = Text(c) \/ content["shm"][t] # Part(c)
  <2>1. CASE at[c] = 4
    BY <1>1, <1>2, <1>5, <2>1 DEF Begin
  <2>2. CASE at[c] = 5
    BY <1>1, <1>2, <2>2 DEF Copy
  <2> QED
    BY <2>1, <2>2
<1>7. at'[c] = at[c] + 1 /\ heard' = heard /\ handle' = handle
  BY <1>1, <1>6 DEF Begin, Copy, Return, CommonInv, HandshakeTypes
<1>8. v # NoRoom
  BY ProcsAssumption, <1>1 DEF Part, Text, Mixed, NoRoom
<1>9. PICK V : content \in [Objects -> [Servers -> V]]
  BY DEF CommonInv, HandshakeTypes
<1>10. /\ content'["shm"][t] = v
       /\ \A n \in {"shm", "sem"}, u \in Servers : n # "shm" \/ u # t => content'[n][u] = content[n][u]
  BY <1>1, <1>4, <1>6, <1>9, PutAt, Roles
<1>11. Disturbed' \/ at[t] > 5
  BY <1>1, <1>3, MemoryFrame DEF UndisturbedClient, t
<1>12. ASSUME NEW d \in Clients \ {c}, at[d] > 4 PROVE Disturbed'
  <2>1. at'[d] = at[d]
    BY <1>1, OthersStay, Roles
  <2>2. Spoke(c)' /\ Spoke(d)'
    BY <1>1, <1>7, <1>12, <2>1, MemoryFrame
  <2> QED
    BY <2>2 DEF Disturbed
<1>13. Harmless(c)
  <2>1. ASSUME NEW s \in Servers
        PROVE  /\ at[s] = 2 => content'["shm"][s] = content["shm"][s]
               /\ content["shm"][s] # NoRoom => content'["shm"][s] # NoRoom
               /\ content'["sem"][s] = content["sem"][s]
               /\ Disturbed' \/ (at[s] < 6 => content'["shm"][s] = content["shm"][s])
    BY <1>4, <1>8, <1>10, <1>11
  <2> QED
    BY <1>12, <2>1 DEF Harmless
<1>14. MemoryClient(c)'
  BY <1>3, <1>4, <1>7 DEF MemoryClient, t
<1>15. Disturbed' \/ UndisturbedClient(c)'
  <2> SUFFICES ASSUME ~ Disturbed' PROVE UndisturbedClient(c)'
    OBVIOUS
  <2>1. UndisturbedClient(c)
    BY <1>1, <1>3, MemoryFrame
  <2>2. at[c] = 5 => v = Text(c)
    BY <1>6, <2>1 DEF UndisturbedClient, t
  <2> QED
    BY <1>4, <1>6, <1>7, <1>10, <1>11, <2>2 DEF UndisturbedClient, t, Part, Text
<1> QED
  BY <1>1, <1>13, <1>14, <1>15, MemoryWhole

LEMMA ClientPosts ==
    ASSUME CommonInv, MemoryInv, OverMemory, NEW c \in Clients, Step(c), at[c] = 6
    PROVE  MemoryInv'
<1> DEFINE t == handle[c]["sem"]
           v == content["sem"][t] + 1
<1>1. /\ c \in Procs /\ c \notin Servers /\ Len(Program(c)) = 6 /\ Post(c)
      /\ Name(c) = "sem" /\ "sem" \in Objects
  BY Roles, MemoryClientCalls
<1>2. content' = [content EXCEPT !["sem"][t] = v] /\ handle' = handle /\ heard' = heard
  BY <1>1 DEF Post, Put, Content, Instance
<1>3. at' = at /\ status'[c] = "done"
  BY <1>1 DEF Post, Return, CommonInv, HandshakeTypes
<1>4. MemoryClient(c) /\ (Disturbed \/ UndisturbedClient(c))
  BY DEF MemoryInv
<1>5. t \in Servers /\ handle[c]["shm"] \in Servers
  BY <1>4 DEF MemoryClient
<1>6. \A u \in Servers : u = t => Answered(u)'
  BY <1>2, <1>3 DEF Answered
<1>7. PICK V : content \in [Objects -> [Servers -> V]]
  BY DEF CommonInv, HandshakeTypes
<1>8. \A n \in {"shm", "sem"}, u \in Servers : n # "sem" \/ u # t => content'[n][u] = content[n][u]
  <2> HIDE DEF t, v
  <2> QED
    BY <1>1, <1>2, <1>5, <1>7, PutAt, Roles
<1> HIDE DEF t
<1>9. Harmless(c)
  <2>1. \A d \in Clients : at[d] > 4 => handle[d]["shm"] \in Servers
    <3>1. \A d \in Clients : at[d] \in 1 .. 6
      BY MemoryFrame, <1>1
    <3> QED
      BY <3>1 DEF MemoryInv, MemoryClient
  <2>2. \A u \in Servers : content'["sem"][u] = content["sem"][u] \/ Answered(u)'
    BY <1>6, <1>8
  <2>3. \A u \in Servers : content'["shm"][u] = content["shm"][u]
    BY <1>8
  <2> QED
    BY <2>1, <2>2, <2>3 DEF Harmless
<1>10. MemoryClient(c)'
  <2>1. \A s \in Servers : status[s] = "done" => status'[s] = "done"
    BY <1>1, MemoryFrame, Roles
  <2> QED
    BY <1>2, <1>3, <1>4, <1>5, <2>1 DEF MemoryClient
<1>11. Disturbed' \/ UndisturbedClient(c)'
  <2>1. Disturbed => Disturbed'
    BY <1>1, MemoryFrame
  <2>2. content'["shm"][handle[c]["shm"]] = content["shm"][handle[c]["shm"]]
    BY <1>5, <1>8
  <2> QED
    BY <1>2, <1>3, <1>4, <2>1, <2>2 DEF UndisturbedClient, Part, Text
<1> QED
  BY <1>1, <1>9, <1>10, <1>11, MemoryWhole

LEMMA MemoryInitial == HandshakesInit => MemoryInv
<1> SUFFICES ASSUME HandshakesInit
             PROVE  /\ \A s \in Servers : MemoryServer(s) /\ UndisturbedServer(s)
                    /\ \A c \in Clients : MemoryClient(c) /\ UndisturbedClient(c)
  BY DEF MemoryInv
<1>1. ASSUME NEW s \in Servers PROVE MemoryServer(s) /\ UndisturbedServer(s)
  <2>1. /\ at[s] = 1 /\ status[s] = "unborn" /\ bound["shm"] # s /\ bound["sem"] # s
    BY Roles DEF HandshakesInit
  <2> QED
    BY <2>1 DEF MemoryServer, UndisturbedServer
<1>2. ASSUME NEW c \in Clients PROVE MemoryClient(c) /\ UndisturbedClient(c)
  <2>1. at[c] = 1 /\ heard[c] = Nobody
    BY Roles DEF HandshakesInit
  <2> QED
    BY <2>1 DEF MemoryClient, UndisturbedClient
<1> QED
  BY <1>1, <1>2

LEMMA MemoryStep ==
    ASSUME CommonInv, MemoryInv, [HandshakesNext]_handshakeVars
    PROVE  MemoryInv'
<1>1. ASSUME NEW p \in Procs, Step(p) PROVE MemoryInv'
  <2>1. CASE ~ OverMemory
    <3>1. pair' = pair /\ crashes' = crashes
      BY <1>1, OthersStay
    <3> QED
      BY <2>1, <3>1 DEF MemoryInv, OverMemory
  <2>2. CASE OverMemory /\ p \in Servers
    <3>1. at[p] \in 1 .. 9
      BY <1>1, <2>2, MemoryServerCalls
    <3>2. \/ at[p] \in {1, 3} \/ at[p] \in {2, 4, 5} \/ at[p] = 6 \/ at[p] \in {7, 8, 9}
      BY <3>1
    <3> QED
      BY <1>1, <2>2, <3>2, ServerCreats, ServerWrites, ServerWaits, ServerPrints
  <2>3. CASE OverMemory /\ p \in Clients
    <3>1. at[p] \in 1 .. 6
      BY <1>1, <2>3, MemoryClientCalls
    <3>2. \/ at[p] \in {1, 2} \/ at[p] = 3 \/ at[p] \in {4, 5} \/ at[p] = 6
      BY <3>1
    <3> QED
      BY <1>1, <2>3, <3>2, ClientOpensMemory, ClientPrints, ClientWrites, ClientPosts
  <2> QED
    BY <2>1, <2>2, <2>3 DEF Procs
<1>2. ASSUME NEW p \in Procs, Start(p) PROVE MemoryInv'
  <2> SUFFICES ASSUME OverMemory
               PROVE  /\ \A s \in Servers : MemoryServer(s)'
                      /\ \A c \in Clients : MemoryClient(c)'
                      /\ \/ Disturbed'
                         \/ /\ \A s \in Servers : UndisturbedServer(s)'
                            /\ \A c \in Clients : UndisturbedClient(c)'
    BY <1>2 DEF Start, MemoryInv, OverMemory
  <2>1. /\ UNCHANGED <<pair, at, bound, handle, content, heard, crashes>>
        /\ status[p] = "unborn" /\ status'[p] = "running"
        /\ \A q \in Procs : q # p => status'[q] = status[q]
    BY <1>2 DEF Start, CommonInv, HandshakeTypes
  <2>2. \A q \in Procs : status[q] = "done" <=> status'[q] = "done"
    BY <2>1
  <2>3. \A s \in Servers : Answered(s) => Answered(s)'
    BY <2>1, <2>2, Roles DEF Answered
  <2>4. Disturbed => Disturbed'
    <3>1. \A c \in Clients : Spoke(c) => Spoke(c)'
      BY <2>1, <2>2, Roles DEF Spoke, Passed, Program
    <3> QED
      BY <2>1, <3>1 DEF Disturbed
  <2>5. ASSUME NEW s \in Servers PROVE MemoryServer(s)'
    <3>1. MemoryServer(s) /\ s \in Procs
      BY Roles DEF MemoryInv
    <3>2. /\ status[s] = "running" => status'[s] = "running"
          /\ status'[s] = "running" \/ status'[s] = status[s]
      BY <2>1, <3>1
    <3> QED
      BY <2>1, <2>3, <2>4, <3>1, <3>2 DEF MemoryServer, Running, NoRoom
  <2>6. ASSUME NEW c \in Clients PROVE MemoryClient(c)'
    <3>1. MemoryClient(c) /\ at[c] \in Nat
      BY Roles DEF MemoryInv, CommonInv, HandshakeTypes
    <3>2. at[c] > 2 => handle[c]["shm"] \in Procs
      BY <3>1, Roles DEF MemoryClient
    <3> QED
      BY <2>1, <2>2, <3>1, <3>2 DEF MemoryClient
  <2>7. \A s \in Servers : UndisturbedServer(s) => UndisturbedServer(s)'
    BY <2>1 DEF UndisturbedServer, Blank, Part
  <2>8. \A c \in Clients : UndisturbedClient(c) => UndisturbedClient(c)'
    BY <2>1 DEF UndisturbedClient, Part, Text
  <2> QED
    BY <2>4, <2>5, <2>6, <2>7, <2>8 DEF MemoryInv
<1>3. ASSUME NEW p \in Procs, Crash(p) PROVE MemoryInv'
  BY <1>3 DEF Crash, MemoryInv, OverMemory, CommonInv, HandshakeTypes
<1>4. CASE UNCHANGED handshakeVars
  <2>1. UNCHANGED <<pair, status, at, bound, handle, content, heard, crashes>>
    BY <1>4 DEF handshakeVars
  <2>2. Disturbed' = Disturbed
    BY <2>1 DEF Disturbed, Spoke, Passed, Program
  <2>3. \A s \in Servers : MemoryServer(s)' = MemoryServer(s)
    BY <2>1, <2>2 DEF MemoryServer, Running, Answered
  <2>4. \A c \in Clients : MemoryClient(c)' = MemoryClient(c)
    BY <2>1 DEF MemoryClient
  <2>5. \A s \in Servers : UndisturbedServer(s)' = UndisturbedServer(s)
    BY <2>1 DEF UndisturbedServer
  <2>6. \A c \in Clients : UndisturbedClient(c)' = UndisturbedClient(c)
    BY <2>1 DEF UndisturbedClient
  <2> QED
    BY <2>1, <2>2, <2>3, <2>4, <2>5, <2>6 DEF MemoryInv, OverMemory
<1> QED
  BY <1>1, <1>2, <1>3, <1>4 DEF HandshakesNext

-----------------------------------------------------------------------------

HandshakesInv == CommonInv /\ SysvShmInv /\ QueuesInv /\ MemoryInv

\* A server that is done has made all its calls.
LEMMA HandshakesMeaning == HandshakesInv => HeardTheAnswer
<1> SUFFICES ASSUME HandshakesInv, NEW s \in Servers, status[s] = "done"
             PROVE  /\ pair \in {"posixQueue", "sysvQueue"} =>
                         heard[s] \in Clients /\ (crashes = 0 => heard[heard[s]] = s)
                    /\ pair = "posixQueue" => heard[s] \notin early[s]
                    /\ pair = "posixShm" /\ crashes = 0 => heard[s] \in Clients \/ Disturbed
                    /\ pair = "sysvShm" => heard[s] # s
  BY DEF HeardTheAnswer
<1> USE DEF HandshakesInv
<1>1. s \in Procs /\ at[s] = Len(Program(s))
  BY Roles DEF CommonInv, LivesInv
<1>2. ASSUME OverQueues
      PROVE  /\ heard[s] \in Clients /\ (crashes = 0 => heard[heard[s]] = s)
             /\ pair = "posixQueue" => heard[s] \notin early[s]
  <2>1. at[s] = Skip + 6 /\ Skip \in {0, 2}
    BY <1>1, <1>2, QueueCalls
  <2>2. heard[s] \in Clients
    <3>1. ServerOpens(s)
      BY <1>2 DEF QueuesInv, QueueInv
    <3> QED
      BY <2>1, <3>1 DEF ServerOpens
  <2>3. crashes = 0 => heard[heard[s]] = s
    <3>1. crashes = 0 => CalmTexts(s)
      BY <1>2 DEF QueuesInv, CalmInv
    <3> QED
      BY <2>1, <3>1 DEF CalmTexts
  <2>4. pair = "posixQueue" => heard[s] \notin early[s]
    BY <2>1 DEF QueuesInv, OwnQueueInv, Skip
  <2> QED
    BY <2>2, <2>3, <2>4
<1>3. ASSUME OverMemory PROVE heard[s] \in Clients \/ Disturbed
  <2>1. at[s] = 9
    <3>1. Program(s) = PosixShmServer
      BY <1>3, MemoryCalls DEF OverMemory
    <3> QED
      BY <1>1, <3>1 DEF PosixShmServer
  <2>2. MemoryServer(s)
    BY <1>3 DEF MemoryInv
  <2> QED
    BY <2>1, <2>2 DEF MemoryServer
<1>4. ASSUME pair = "sysvShm" PROVE heard[s] # s
  <2>1. at[s] = 8
    BY <1>1, <1>4, SysvShmCalls
  <2> QED
    BY <1>4, <2>1 DEF SysvShmInv
<1> QED
  BY <1>2, <1>3, <1>4 DEF OverQueues, OverMemory

\* A server of these pairs that ends by itself has printed an answer: over queues one
\* of a client that heard this very server, over POSIX queues never one that was there
\* before it started, whatever was killed; over POSIX memory a client's text unless
\* the clients got in each other's or the server's way; over System V memory at least
\* not its own words.
THEOREM HeardTheorem == HandshakesSpec => []HeardTheAnswer
<1>1. HandshakesInit => HandshakesInv
  BY CommonInitial, SysvShmInitial, QueuesInitial, MemoryInitial DEF HandshakesInv
<1>2. HandshakesInv /\ [HandshakesNext]_handshakeVars => HandshakesInv'
  BY CommonStep, SysvShmAll, QueuesStep, MemoryStep DEF HandshakesInv
<1> QED
  BY <1>1, <1>2, HandshakesMeaning, PTL DEF HandshakesSpec
-----------------------------------------------------------------------------
(* Handshakes: who waits when nothing moves any more.  First what starting,   *)
(* killing and stuttering leave alone.                                        *)

UnbornInv == \A p \in Procs : status[p] = "unborn" => at[p] = 1

Rests ==
    /\ UNCHANGED <<pair, at, bound, handle, content, removed, met, heard>>
    /\ \A p \in Procs : \/ status'[p] = status[p]
                        \/ status[p] = "unborn" /\ status'[p] = "running"
                        \/ status[p] = "running" /\ status'[p] = "dead" /\ crashes' # 0
    /\ crashes' = 0 => crashes = 0

LEMMA StepOrRests ==
    ASSUME CommonInv, [HandshakesNext]_handshakeVars
    PROVE  Rests \/ \E p \in Procs : Step(p)
<1>1. ASSUME NEW p \in Procs, Start(p) PROVE Rests
  BY <1>1 DEF Start, Rests, CommonInv, HandshakeTypes
<1>2. ASSUME NEW p \in Procs, Crash(p) PROVE Rests
  BY <1>2 DEF Crash, Rests, Running, CommonInv, HandshakeTypes
<1>3. CASE UNCHANGED handshakeVars
  BY <1>3 DEF handshakeVars, Rests
<1> QED
  BY <1>1, <1>2, <1>3 DEF HandshakesNext

LEMMA UnbornStep ==
    ASSUME CommonInv, UnbornInv, [HandshakesNext]_handshakeVars
    PROVE  UnbornInv'
<1>1. CASE Rests
  BY <1>1 DEF Rests, UnbornInv
<1>2. ASSUME NEW p \in Procs, Step(p) PROVE UnbornInv'
  BY <1>2, OthersStay DEF UnbornInv
<1> QED
  BY <1>1, <1>2, StepOrRests

-----------------------------------------------------------------------------
(* Handshakes, shared memory: a client that has printed a server's text found *)
(* it in the memory that server works on, and has written over it.            *)

SharedText == pair \in {"posixShm", "sysvShm"}

\* The call by which a server writes its text.
Copies == IF pair = "posixShm" THEN 5 ELSE 4

FoundText(c, s) == at[c] > 3 /\ at[s] > Copies /\ handle[c]["shm"] = handle[s]["shm"]

TextInv == SharedText =>
    /\ content["shm"] \in [Servers -> Seq(Words)]
    /\ \A p \in Procs : at[p] > 1 => handle[p]["shm"] \in Servers
    /\ \A s, t \in Servers : content["shm"][t] = Text(s) => at[s] > Copies /\ handle[s]["shm"] = t
    /\ \A c \in Clients, s \in Servers : heard[c] = s => FoundText(c, s)

\* A server that polls, once a client that heard it has begun to write.
PollInv == pair = "sysvShm" =>
    \A c \in Clients, s \in Servers :
        Running(s) /\ at[s] = 5 /\ heard[c] = s /\ at[c] > 4 =>
            \A t \in Servers : content["shm"][handle[s]["shm"]] # Text(t)

\* What a call of p does to the shared memory and to what p knows.
Writes(p) ==
    /\ content'["shm"] \in [Servers -> Seq(Words)]
    /\ \A t \in Servers :
         \/ content'["shm"][t] \in {content["shm"][t], Blank, NoRoom, Part(p), Mixed}
         \/ /\ content'["shm"][t] = Text(p) /\ t = handle[p]["shm"]
            /\ p \in Servers => at[p] = Copies /\ at'[p] = at[p] + 1
    /\ at[p] > 1 => handle'[p]["shm"] = handle[p]["shm"]
    /\ at[p] = 1 /\ at'[p] = 2 => handle'[p]["shm"] \in Servers
    /\ p \in Clients /\ heard'[p] # heard[p] =>
         at[p] = 3 /\ at'[p] = 4 /\ heard'[p] = Printed(content["shm"][handle[p]["shm"]])

LEMMA ShmPut ==
    ASSUME HandshakeTypes, content["shm"] \in [Servers -> Seq(Words)],
           NEW t, NEW v \in Seq(Words), content' = [content EXCEPT !["shm"][t] = v]
    PROVE  /\ content'["shm"] \in [Servers -> Seq(Words)]
           /\ content'["sem"] = content["sem"]
           /\ \A u \in Servers : content'["shm"][u] = IF u = t THEN v ELSE content["shm"][u]
<1>1. PICK V : content \in [Objects -> [Servers -> V]]
  BY DEF HandshakeTypes
<1>2. content'["shm"] = [content["shm"] EXCEPT ![t] = v] /\ content'["sem"] = content["sem"]
  BY <1>1, Roles
<1> QED
  BY <1>2

LEMMA SemPut ==
    ASSUME CommonInv, NEW t, NEW v, content' = [content EXCEPT !["sem"][t] = v]
    PROVE  /\ content'["shm"] = content["shm"]
           /\ \A u \in Servers : content'["sem"][u] = IF u = t THEN v ELSE content["sem"][u]
<1>1. PICK V : content \in [Objects -> [Servers -> V]]
  BY DEF CommonInv, HandshakeTypes
<1> QED
  BY <1>1, Roles

LEMMA TextsDiffer ==
    /\ \A p \in Procs : {Text(p), Part(p), Mixed, Blank, NoRoom} \subseteq Seq(Words)
    /\ \A p \in Procs, s \in Servers : Text(s) \notin {Blank, NoRoom, Part(p), Mixed}
    /\ \A p, q \in Procs : Text(p) = Text(q) => p = q
    /\ \A x \in Seq(Words), s \in Servers : Printed(x) = s => x = Text(s)
<1>1. \A p \in Procs : {Text(p), Part(p), Mixed, Blank, NoRoom} \subseteq Seq(Words)
  BY DEF Text, Part, Mixed, Blank, NoRoom, Words
<1>2. \A p \in Procs, s \in Servers : Text(s) \notin {Blank, NoRoom, Part(p), Mixed}
  BY ProcsAssumption DEF Text, Part, Mixed, Blank, NoRoom
<1>3. \A p, q \in Procs : Text(p) = Text(q) => p = q
  BY DEF Text
<1>4. ASSUME NEW x \in Seq(Words), NEW s \in Servers, Printed(x) = s PROVE x = Text(s)
  <2>1. s # "mixed"
    BY ProcsAssumption
  <2>2. Len(x) = 1 /\ x[1] = s
    BY <1>4, <2>1 DEF Printed
  <2> QED
    BY <2>2 DEF Text
<1> QED
  BY <1>1, <1>2, <1>3, <1>4

LEMMA SysvShmServerCalls ==
    ASSUME CommonInv, pair = "sysvShm", NEW s \in Servers, Step(s)
    PROVE  /\ at[s] \in 1 .. 8 /\ Name(s) = "shm"
           /\ at[s] = 1 => Creat(s)
           /\ at[s] = 2 => Attach(s)
           /\ at[s] = 3 => Begin(s)
           /\ at[s] = 4 => Copy(s)
           /\ at[s] = 5 => Poll(s)
           /\ at[s] = 6 => PrintText(s)
           /\ at[s] = 7 => Detach(s)
           /\ at[s] = 8 => RemoveObject(s)
<1>1. s \in Procs /\ at[s] \in 1 .. 8
  BY Roles, OthersStay, SysvShmCalls
<1>2. at[s] = 1 => Creat(s) /\ Name(s) = "shm"
  BY <1>1, SysvShmCalls, OneCall
<1>3. at[s] = 2 => Attach(s) /\ Name(s) = "shm"
  BY <1>1, SysvShmCalls, OneCall
<1>4. at[s] = 3 => Begin(s) /\ Name(s) = "shm"
  BY <1>1, SysvShmCalls, OneCall
<1>5. at[s] = 4 => Copy(s) /\ Name(s) = "shm"
  BY <1>1, SysvShmCalls, OneCall
<1>6. at[s] = 5 => Poll(s) /\ Name(s) = "shm"
  BY <1>1, SysvShmCalls, OneCall
<1>7. at[s] = 6 => PrintText(s) /\ Name(s) = "shm"
  BY <1>1, SysvShmCalls, OneCall
<1>8. at[s] = 7 => Detach(s) /\ Name(s) = "shm"
  BY <1>1, SysvShmCalls, OneCall
<1>9. at[s] = 8 => RemoveObject(s) /\ Name(s) = "shm"
  BY <1>1, SysvShmCalls, OneCall
<1> QED
  BY <1>1, <1>2, <1>3, <1>4, <1>5, <1>6, <1>7, <1>8, <1>9

LEMMA SysvShmClientCalls ==
    ASSUME CommonInv, pair = "sysvShm", NEW c \in Clients, Step(c)
    PROVE  /\ at[c] \in 1 .. 6 /\ Name(c) = "shm"
           /\ at[c] = 1 => Open(c)
           /\ at[c] = 2 => Attach(c)
           /\ at[c] = 3 => PrintText(c)
           /\ at[c] = 4 => Begin(c)
           /\ at[c] = 5 => Copy(c)
           /\ at[c] = 6 => Detach(c)
<1>1. c \in Procs /\ at[c] \in 1 .. 6
  BY Roles, OthersStay, SysvShmCalls
<1>2. at[c] = 1 => Open(c) /\ Name(c) = "shm"
  BY <1>1, SysvShmCalls, OneCall
<1>3. at[c] = 2 => Attach(c) /\ Name(c) = "shm"
  BY <1>1, SysvShmCalls, OneCall
<1>4. at[c] = 3 => PrintText(c) /\ Name(c) = "shm"
  BY <1>1, SysvShmCalls, OneCall
<1>5. at[c] = 4 => Begin(c) /\ Name(c) = "shm"
  BY <1>1, SysvShmCalls, OneCall
<1>6. at[c] = 5 => Copy(c) /\ Name(c) = "shm"
  BY <1>1, SysvShmCalls, OneCall
<1>7. at[c] = 6 => Detach(c) /\ Name(c) = "shm"
  BY <1>1, SysvShmCalls, OneCall
<1> QED
  BY <1>1, <1>2, <1>3, <1>4, <1>5, <1>6, <1>7

\* The calls of both pairs by what they work on.
LEMMA SharedCalls ==
    ASSUME CommonInv, SharedText, NEW p \in Procs, Step(p)
    PROVE  /\ at[p] \in Nat
           /\ \/ at[p] = 1 /\ Name(p) = "shm" /\ (Creat(p) \/ Open(p))
              \/ at[p] > 1 /\ Name(p) = "shm" /\ (Ftruncate(p) \/ Begin(p))
              \/ at[p] > 1 /\ Name(p) = "shm" /\ Copy(p) /\ (p \in Servers => at[p] = Copies)
              \/ at[p] > 1 /\ Name(p) = "shm" /\ PrintText(p) /\ (p \in Clients => at[p] = 3)
              \/ at[p] > 1 /\ Name(p) = "sem" /\ (Creat(p) \/ Open(p) \/ Wait(p) \/ Post(p))
              \/ at[p] > 1 /\ (Attach(p) \/ Detach(p) \/ Poll(p) \/ RemoveObject(p) \/ UnlinkName(p))
<1>1. CASE pair = "posixShm" /\ p \in Servers
  <2>1. at[p] \in 1 .. 9
    BY <1>1, PosixShmServerCalls
  <2> QED
    BY <1>1, <2>1, PosixShmServerCalls, Roles DEF Copies
<1>2. CASE pair = "posixShm" /\ p \in Clients
  <2>1. at[p] \in 1 .. 6
    BY <1>2, PosixShmClientCalls
  <2> QED
    BY <1>2, <2>1, PosixShmClientCalls, Roles
<1>3. CASE pair = "sysvShm" /\ p \in Servers
  <2>1. at[p] \in 1 .. 8
    BY <1>3, SysvShmServerCalls
  <2> QED
    BY <1>3, <2>1, SysvShmServerCalls, Roles DEF Copies
<1>4. CASE pair = "sysvShm" /\ p \in Clients
  <2>1. at[p] \in 1 .. 6
    BY <1>4, SysvShmClientCalls
  <2> QED
    BY <1>4, <2>1, SysvShmClientCalls, Roles
<1> QED
  BY <1>1, <1>2, <1>3, <1>4 DEF SharedText, Procs

LEMMA WritesHold ==
    ASSUME CommonInv, TextInv, SharedText, NEW p \in Procs, Step(p)
    PROVE  Writes(p)
<1>1. /\ HandshakeTypes /\ content["shm"] \in [Servers -> Seq(Words)]
      /\ at[p] > 1 => handle[p]["shm"] \in Servers
      /\ at \in [Procs -> Nat]
      /\ handle \in [Procs -> [Objects -> Instances]] /\ bound \in [Objects -> Instances]
  BY DEF TextInv, CommonInv, HandshakeTypes
<1>2. {Text(p), Part(p), Mixed, Blank, NoRoom} \subseteq Seq(Words)
  BY TextsDiffer
<1>3. PICK V : heard \in [Procs -> V]
  BY <1>1 DEF HandshakeTypes
<1>4. CASE at[p] = 1 /\ Name(p) = "shm" /\ (Creat(p) \/ Open(p))
  <2>1. heard' = heard
    BY <1>4 DEF Creat, Open
  <2>2. content' = content \/ content' = [content EXCEPT !["shm"][p] = Fresh(p)]
    BY <1>4 DEF Creat, Open
  <2>3. Fresh(p) \in {NoRoom, Blank}
    BY <1>4 DEF Fresh
  <2>4. /\ content'["shm"] \in [Servers -> Seq(Words)]
        /\ \A t \in Servers : content'["shm"][t] \in {content["shm"][t], Blank, NoRoom}
    <3>1. CASE content' = content
      BY <1>1, <3>1
    <3>2. CASE content' = [content EXCEPT !["shm"][p] = Fresh(p)]
      <4>1. Fresh(p) \in Seq(Words)
        BY <1>2, <2>3
      <4>2. /\ content'["shm"] \in [Servers -> Seq(Words)]
            /\ \A u \in Servers : content'["shm"][u] = IF u = p THEN Fresh(p) ELSE content["shm"][u]
        BY <1>1, <3>2, <4>1, ShmPut
      <4> QED
        BY <2>3, <4>2
    <3> QED
      BY <2>2, <3>1, <3>2
  <2>5. at'[p] = 2 => handle'[p]["shm"] \in Servers
    <3>1. Creat(p) => p \in Servers
      BY ProgramFacts, <1>1 DEF Creat, Calls
    <3>2. CASE Creat(p)
      BY <1>1, <1>4, <3>1, <3>2, Roles DEF Creat, Instances
    <3>3. CASE Open(p)
      BY <1>1, <1>4, <3>3, Roles DEF Open, Fail, Instances
    <3> QED
      BY <1>4, <3>2, <3>3
  <2> QED
    BY <1>4, <2>1, <2>4, <2>5 DEF Writes
<1>5. CASE at[p] > 1 /\ Name(p) = "shm" /\ (Ftruncate(p) \/ Begin(p))
  <2>1. handle' = handle /\ heard' = heard
    BY <1>5 DEF Ftruncate, Begin
  <2>2. \/ content' = content
        \/ \E v \in {Blank, Part(p), content["shm"][handle[p]["shm"]]} :
             content' = [content EXCEPT !["shm"][handle[p]["shm"]] = v]
    BY <1>5 DEF Ftruncate, Begin, Put, Content, Instance
  <2>3. /\ content'["shm"] \in [Servers -> Seq(Words)]
        /\ \A t \in Servers : content'["shm"][t] \in {content["shm"][t], Blank, Part(p)}
    <3>1. CASE content' = content
      BY <1>1, <3>1
    <3>2. ASSUME NEW v \in {Blank, Part(p), content["shm"][handle[p]["shm"]]},
                 content' = [content EXCEPT !["shm"][handle[p]["shm"]] = v]
          PROVE  /\ content'["shm"] \in [Servers -> Seq(Words)]
                 /\ \A t \in Servers : content'["shm"][t] \in {content["shm"][t], Blank, Part(p)}
      <4>1. v \in Seq(Words)
        BY <1>1, <1>2, <1>5
      <4>2. /\ content'["shm"] \in [Servers -> Seq(Words)]
            /\ \A u \in Servers :
                 content'["shm"][u] = IF u = handle[p]["shm"] THEN v ELSE content["shm"][u]
        BY <1>1, <3>2, <4>1, ShmPut
      <4> QED
        BY <4>2
    <3> QED
      BY <2>2, <3>1, <3>2
  <2> QED
    BY <1>5, <2>1, <2>3 DEF Writes
<1>6. CASE at[p] > 1 /\ Name(p) = "shm" /\ Copy(p) /\ (p \in Servers => at[p] = Copies)
  <2>1. handle' = handle /\ heard' = heard
    BY <1>6 DEF Copy
  <2>2. \E v \in {Text(p), Mixed} : content' = [content EXCEPT !["shm"][handle[p]["shm"]] = v]
    BY <1>6 DEF Copy, Put, Content, Instance
  <2>3. p \in Servers => at'[p] = at[p] + 1
    <3>1. p \in Servers => Len(Program(p)) \in {8, 9}
      BY MemoryCalls, SysvShmCalls DEF SharedText, PosixShmServer
    <3>2. Copies \in {4, 5}
      BY DEF Copies
    <3>3. ASSUME p \in Servers PROVE at[p] < Len(Program(p))
      <4> DEFINE n == Len(Program(p))
      <4>1. at[p] \in 4 .. 5 /\ n \in 8 .. 9
        BY <1>6, <3>1, <3>2, <3>3
      <4> HIDE DEF n
      <4>2. at[p] < n
        BY <4>1
      <4> QED
        BY <4>2 DEF n
    <3>4. at' = [at EXCEPT ![p] = IF @ < Len(Program(p)) THEN @ + 1 ELSE @]
      BY <1>6 DEF Copy, Return
    <3> QED
      BY <1>1, <3>3, <3>4
  <2>4. /\ content'["shm"] \in [Servers -> Seq(Words)]
        /\ \A t \in Servers : \/ content'["shm"][t] \in {content["shm"][t], Mixed}
                              \/ content'["shm"][t] = Text(p) /\ t = handle[p]["shm"]
    <3>1. PICK v \in {Text(p), Mixed} : content' = [content EXCEPT !["shm"][handle[p]["shm"]] = v]
      BY <2>2
    <3>2. v \in Seq(Words)
      BY <1>2
    <3>3. /\ content'["shm"] \in [Servers -> Seq(Words)]
          /\ \A u \in Servers :
               content'["shm"][u] = IF u = handle[p]["shm"] THEN v ELSE content["shm"][u]
      BY <1>1, <3>1, <3>2, ShmPut
    <3> QED
      BY <3>3
  <2> QED
    BY <1>6, <2>1, <2>3, <2>4 DEF Writes
<1>7. CASE at[p] > 1 /\ Name(p) = "shm" /\ PrintText(p) /\ (p \in Clients => at[p] = 3)
  <2>1. handle' = handle /\ content' = content
    BY <1>7 DEF PrintText
  <2>2. heard'[p] # heard[p] =>
          Return(p) /\ heard'[p] = Printed(content["shm"][handle[p]["shm"]])
    BY <1>3, <1>7 DEF PrintText, Content, Instance
  <2>3. p \in Clients => Len(Program(p)) = 6
    BY MemoryCalls, SysvShmCalls DEF SharedText, PosixShmClient
  <2>4. p \in Clients /\ Return(p) => at'[p] = 4
    <3> SUFFICES ASSUME p \in Clients, Return(p) PROVE at'[p] = 4
      OBVIOUS
    <3>1. at[p] = 3 /\ Len(Program(p)) = 6
      BY <1>7, <2>3
    <3>2. at' = [at EXCEPT ![p] = IF @ < Len(Program(p)) THEN @ + 1 ELSE @]
      BY DEF Return
    <3> QED
      BY <1>1, <3>1, <3>2
  <2> QED
    BY <1>1, <1>7, <2>1, <2>2, <2>4 DEF Writes
<1>8. CASE at[p] > 1 /\ Name(p) = "sem" /\ (Creat(p) \/ Open(p) \/ Wait(p) \/ Post(p))
  <2>1. heard' = heard
    BY <1>8 DEF Creat, Open, Wait, Post
  <2>2. handle'[p]["shm"] = handle[p]["shm"]
    BY <1>1, <1>8, Roles DEF Creat, Open, Wait, Post
  <2>3. content' = content \/ \E t, v : content' = [content EXCEPT !["sem"][t] = v]
    <3>1. Creat(p) => content' = content \/ content' = [content EXCEPT !["sem"][p] = Fresh(p)]
      BY <1>8 DEF Creat
    <3>2. Open(p) => content' = content
      BY DEF Open
    <3>3. Wait(p) => content' = [content EXCEPT !["sem"][Instance(p)] = Content(p) - 1]
      BY <1>8 DEF Wait, Put
    <3>4. Post(p) => content' = [content EXCEPT !["sem"][Instance(p)] = Content(p) + 1]
      BY <1>8 DEF Post, Put
    <3> QED
      BY <1>8, <3>1, <3>2, <3>3, <3>4
  <2>4. content'["shm"] = content["shm"]
    BY <1>1, <2>3, SemPut
  <2> QED
    BY <1>1, <1>8, <2>1, <2>2, <2>4 DEF Writes
<1>9. CASE at[p] > 1 /\ (Attach(p) \/ Detach(p) \/ Poll(p) \/ RemoveObject(p) \/ UnlinkName(p))
  <2>1. UNCHANGED <<handle, heard, content>>
    BY <1>9 DEF Attach, Detach, Poll, RemoveObject, UnlinkName
  <2> QED
    BY <1>1, <1>9, <2>1 DEF Writes
<1> QED
  BY <1>4, <1>5, <1>6, <1>7, <1>8, <1>9, SharedCalls

LEMMA TextStep ==
    ASSUME CommonInv, TextInv, SharedText, NEW p \in Procs, Step(p)
    PROVE  TextInv'
<1>1. /\ Writes(p) /\ at[p] \in Nat /\ at'[p] \in {at[p], at[p] + 1}
      /\ Copies' = Copies /\ Copies \in {4, 5} /\ SharedText'
  BY WritesHold, OthersStay DEF Copies, SharedText, CommonInv, HandshakeTypes
<1>2. \A q \in Procs : q # p => /\ at'[q] = at[q] /\ handle'[q] = handle[q]
                                /\ heard'[q] = heard[q]
  BY OthersStay
<1>3. content'["shm"] \in [Servers -> Seq(Words)]
  BY <1>1 DEF Writes
<1>4. /\ \A q \in Procs : at[q] > 1 => handle[q]["shm"] \in Servers
      /\ \A s, t \in Servers : content["shm"][t] = Text(s) => at[s] > Copies /\ handle[s]["shm"] = t
      /\ \A c \in Clients, s \in Servers : heard[c] = s => FoundText(c, s)
      /\ content["shm"] \in [Servers -> Seq(Words)]
      /\ \A q \in Procs : at[q] \in Nat
  BY DEF TextInv, CommonInv, HandshakeTypes
<1>5. \A q \in Procs : at'[q] > 1 => handle'[q]["shm"] \in Servers
  BY <1>1, <1>2, <1>4 DEF Writes
<1>6. \A q \in Procs : /\ at[q] > 1 => handle'[q]["shm"] = handle[q]["shm"]
                       /\ at[q] \in Nat /\ at'[q] \in {at[q], at[q] + 1}
  <2>1. \A q \in Procs : at[q] \in Nat /\ at'[q] \in {at[q], at[q] + 1}
    BY <1>1, <1>2, <1>4
  <2>2. \A q \in Procs : at[q] > 1 => handle'[q]["shm"] = handle[q]["shm"]
    BY <1>1, <1>2 DEF Writes
  <2> QED
    BY <2>1, <2>2
<1>7. ASSUME NEW s \in Servers, NEW t \in Servers, content'["shm"][t] = Text(s)
      PROVE  at'[s] > Copies /\ handle'[s]["shm"] = t
  <2>1. CASE content["shm"][t] = Text(s)
    <3>1. at[s] > Copies /\ handle[s]["shm"] = t
      BY <1>4, <2>1
    <3>2. s \in Procs /\ at[s] > 1
      BY <1>1, <1>4, <3>1, Roles
    <3> QED
      BY <1>1, <1>6, <3>1, <3>2
  <2>2. CASE content["shm"][t] # Text(s)
    <3>1. content'["shm"][t] = Text(p) /\ t = handle[p]["shm"]
          /\ (p \in Servers => at[p] = Copies /\ at'[p] = at[p] + 1)
      BY <1>1, <1>7, <2>2, TextsDiffer DEF Writes
    <3>2. p = s
      BY <1>7, <3>1, TextsDiffer, Roles
    <3> QED
      BY <1>1, <1>6, <3>1, <3>2, Roles
  <2> QED
    BY <2>1, <2>2
<1>8. ASSUME NEW c \in Clients, NEW s \in Servers, heard'[c] = s
      PROVE  FoundText(c, s)'
  <2>1. CASE heard[c] = s
    <3>1. at[c] > 3 /\ at[s] > Copies /\ handle[c]["shm"] = handle[s]["shm"]
      BY <1>4, <2>1 DEF FoundText
    <3>2. s \in Procs /\ c \in Procs /\ at[s] > 1 /\ at[c] > 1
      BY <1>1, <1>4, <3>1, Roles
    <3> QED
      BY <1>1, <1>6, <3>1, <3>2 DEF FoundText
  <2>2. CASE heard[c] # s
    <3>1. c = p /\ at[c] = 3 /\ at'[c] = 4 /\ Printed(content["shm"][handle[c]["shm"]]) = s
      BY <1>1, <1>2, <1>8, <2>2, Roles DEF Writes
    <3>2. content["shm"][handle[c]["shm"]] = Text(s) /\ handle[c]["shm"] \in Servers
      BY <1>4, <3>1, TextsDiffer, Roles
    <3>3. at[s] > Copies /\ handle[s]["shm"] = handle[c]["shm"]
      BY <1>4, <3>2
    <3>4. s \in Procs /\ c \in Procs /\ at[s] > 1
      BY <1>1, <1>4, <3>3, Roles
    <3> QED
      BY <1>1, <1>6, <3>1, <3>3, <3>4 DEF FoundText
  <2> QED
    BY <2>1, <2>2
<1> QED
  BY <1>1, <1>3, <1>5, <1>7, <1>8 DEF TextInv

LEMMA PollStep ==
    ASSUME CommonInv, TextInv, PollInv, pair = "sysvShm", NEW p \in Procs, Step(p)
    PROVE  PollInv'
<1> SUFFICES ASSUME NEW c \in Clients, NEW s \in Servers, NEW t \in Servers,
                    status'[s] = "running", at'[s] = 5, heard'[c] = s, at'[c] > 4
             PROVE  content'["shm"][handle'[s]["shm"]] # Text(t)
  BY DEF PollInv, Running
<1>1. SharedText /\ Copies = 4 /\ c \in Procs /\ s \in Procs /\ c # s
  BY Roles DEF SharedText, Copies
<1>2. Writes(p)
  BY <1>1, WritesHold
<1>3. /\ \A q \in Procs : q # p => /\ at'[q] = at[q] /\ status'[q] = status[q]
                                   /\ handle'[q] = handle[q] /\ heard'[q] = heard[q]
      /\ status[p] = "running" /\ at[p] \in Nat /\ at'[p] \in {at[p], at[p] + 1}
  BY OthersStay
<1>4. status[s] = "running" /\ (s = p => p \in Servers)
  BY <1>1, <1>3
<1>5. heard[c] = s
  BY <1>1, <1>2, <1>3, Roles DEF Writes
<1>6. at[c] > 3 /\ at[s] > 4 /\ handle[c]["shm"] = handle[s]["shm"]
  BY <1>1, <1>5 DEF TextInv, FoundText
<1>7. at[s] = 5 /\ handle[s]["shm"] \in Servers /\ handle'[s]["shm"] = handle[s]["shm"]
  <2>1. at[s] = 5
    BY <1>1, <1>3, <1>6 DEF CommonInv, HandshakeTypes
  <2>2. handle'[s]["shm"] = handle[s]["shm"]
    BY <1>1, <1>2, <1>3, <2>1 DEF Writes
  <2> QED
    BY <1>1, <2>1, <2>2 DEF TextInv
<1>8. p \in Servers => p = s
  BY <1>3, <1>4 DEF CommonInv, LivesInv, Running
<1>9. CASE at[c] > 4
  <2>1. content["shm"][handle[s]["shm"]] # Text(t)
    BY <1>4, <1>5, <1>7, <1>9 DEF PollInv, Running
  <2>2. \/ content'["shm"][handle[s]["shm"]]
             \in {content["shm"][handle[s]["shm"]], Blank, NoRoom, Part(p), Mixed}
        \/ content'["shm"][handle[s]["shm"]] = Text(p) /\ (p \in Servers => at[p] = 4)
    BY <1>1, <1>2, <1>7 DEF Writes
  <2> QED
    <3>1. Text(t) \notin {Blank, NoRoom, Part(p), Mixed} /\ (Text(p) = Text(t) => p = t)
      BY TextsDiffer, Roles
    <3> SUFFICES ASSUME content'["shm"][handle[s]["shm"]] = Text(t) PROVE FALSE
      BY <1>7
    <3>2. Text(p) = Text(t) /\ (p \in Servers => at[p] = 4)
      BY <2>1, <2>2, <3>1
    <3>3. p = s
      BY <1>8, <3>1, <3>2
    <3> QED
      BY <1>7, <3>2, <3>3
<1>10. CASE at[c] = 4
  <2>1. c = p /\ at'[c] = 5
    BY <1>1, <1>3, <1>10
  <2>2. Begin(c) /\ Name(c) = "shm"
    BY <1>10, <2>1, SysvShmClientCalls
  <2>3. content' = [content EXCEPT !["shm"][handle[c]["shm"]] = Part(c)]
    BY <1>10, <2>1, <2>2 DEF Begin, Put, Fail, Instance
  <2>4. content'["shm"][handle[s]["shm"]] = Part(c)
    <3>1. Part(c) \in Seq(Words) /\ HandshakeTypes /\ content["shm"] \in [Servers -> Seq(Words)]
      BY <1>1, TextsDiffer DEF CommonInv, TextInv
    <3>2. \A u \in Servers :
            content'["shm"][u] = IF u = handle[c]["shm"] THEN Part(c) ELSE content["shm"][u]
      <4>1. PICK V : content \in [Objects -> [Servers -> V]]
        BY <3>1 DEF HandshakeTypes
      <4> QED
        BY <2>3, <4>1, Roles
    <3> QED
      BY <1>6, <1>7, <3>2
  <2> QED
    BY <1>1, <1>7, <2>4, TextsDiffer
<1> QED
  BY <1>1, <1>6, <1>9, <1>10 DEF CommonInv, HandshakeTypes

-----------------------------------------------------------------------------
(* Handshakes, POSIX shared memory: who has opened the memory a name leads to *)
(* has the semaphore its name leads to, so a client posts what the server     *)
(* that it heard waits for.                                                   *)

NamesServer(s) ==
    /\ at[s] \in 2 .. 8 => bound["shm"] = handle[s]["shm"]
    /\ at[s] = 9 => bound["shm"] = Nobody
    /\ at[s] \in 4 .. 9 => bound["sem"] = handle[s]["sem"]

NamesClient(c) ==
    /\ IF at[c] < 3 THEN handle[c]["sem"] = Nobody ELSE handle[c]["sem"] \in Servers
    /\ handle[c]["sem"] # Nobody /\ handle[c]["shm"] = bound["shm"] =>
         handle[c]["sem"] = bound["sem"]

NamesInv == pair = "posixShm" =>
    /\ \A s \in Servers : at[s] = 1 =>
         bound["shm"] # s /\ \A p \in Procs : handle[p]["shm"] # s
    /\ \A s \in Servers : Running(s) => NamesServer(s)
    /\ \A s \in Servers : at[s] > 3 => handle[s]["sem"] \in Servers
    /\ \A c \in Clients : NamesClient(c)

SemInv == pair = "posixShm" =>
    /\ \A t \in Servers : bound["sem"] = t => content["sem"][t] \in Nat
    /\ \A p \in Procs : handle[p]["sem"] \in Servers => content["sem"][handle[p]["sem"]] \in Nat
    /\ \A c \in Clients, s \in Servers :
         Running(s) /\ at[s] = 6 /\ heard[c] = s /\ status[c] = "done" =>
             content["sem"][handle[s]["sem"]] # 0

\* What a call does to the names and the semaphores.
Makes(p, o) ==
    /\ at'[p] = at[p] + 1
    /\ handle'[p][o] = bound'[o]
    /\ \/ bound[o] = Nobody /\ bound'[o] = p /\ content' = [content EXCEPT ![o][p] = Fresh(p)]
       \/ bound[o] # Nobody /\ bound'[o] = bound[o] /\ content' = content
    /\ \A n \in Objects : n # o => bound'[n] = bound[n] /\ handle'[p][n] = handle[p][n]

Opens(p, o) ==
    /\ bound' = bound /\ content' = content
    /\ \/ handle' = handle /\ at'[p] = at[p]
       \/ /\ at'[p] = at[p] + 1 /\ bound[o] # Nobody /\ handle'[p][o] = bound[o]
          /\ \A n \in Objects : n # o => handle'[p][n] = handle[p][n]

Unlinks(p, o) ==
    /\ handle' = handle /\ content' = content
    /\ bound'[o] = Nobody /\ \A n \in Objects : n # o => bound'[n] = bound[n]

LEMMA CreatMakes ==
    ASSUME CommonInv, NEW p \in Procs, Creat(p), Name(p) \in Objects, at[p] < Len(Program(p))
    PROVE  Makes(p, Name(p))
<1>1. /\ handle \in [Procs -> [Objects -> Instances]] /\ bound \in [Objects -> Instances]
      /\ at \in [Procs -> Nat]
  BY DEF CommonInv, HandshakeTypes
<1>2. at'[p] = at[p] + 1
  BY <1>1 DEF Creat, Return
<1>3. CASE bound[Name(p)] = Nobody
  BY <1>1, <1>2, <1>3 DEF Creat, Makes
<1>4. CASE bound[Name(p)] # Nobody
  BY <1>1, <1>2, <1>4 DEF Creat, Makes
<1> QED
  BY <1>3, <1>4

LEMMA OpenOpens ==
    ASSUME CommonInv, NEW p \in Procs, Open(p), Name(p) \in Objects, at[p] < Len(Program(p))
    PROVE  Opens(p, Name(p))
<1>1. /\ handle \in [Procs -> [Objects -> Instances]] /\ bound \in [Objects -> Instances]
      /\ at \in [Procs -> Nat]
  BY DEF CommonInv, HandshakeTypes
<1>2. CASE bound[Name(p)] = Nobody
  BY <1>1, <1>2 DEF Open, Fail, Opens
<1>3. CASE bound[Name(p)] # Nobody
  <2>1. at'[p] = at[p] + 1
    BY <1>1, <1>3 DEF Open, Return
  <2> QED
    BY <1>1, <1>3, <2>1 DEF Open, Opens
<1> QED
  BY <1>2, <1>3

LEMMA UnlinkUnlinks ==
    ASSUME CommonInv, NEW p \in Procs, UnlinkName(p), Name(p) \in Objects
    PROVE  Unlinks(p, Name(p))
  BY DEF UnlinkName, Unlinks, CommonInv, HandshakeTypes

LEMMA LastCall ==
    ASSUME CommonInv, NEW p \in Procs, Step(p), at[p] = Len(Program(p))
    PROVE  status'[p] # "running" /\ at'[p] = at[p]
  BY OthersStay

LEMMA NamesCalls ==
    ASSUME CommonInv, pair = "posixShm", NEW p \in Procs, Step(p)
    PROVE  /\ at[p] \in 1 .. 9 /\ (p \in Clients => at[p] \in 1 .. 6)
           /\ p \in Servers =>
                /\ at[p] = 1 => Makes(p, "shm")
                /\ at[p] = 3 => Makes(p, "sem")
                /\ at[p] = 8 => Unlinks(p, "shm")
                /\ at[p] = 9 => Unlinks(p, "sem")
                /\ at[p] \notin {1, 3, 8, 9} => handle' = handle /\ bound' = bound
           /\ p \in Clients =>
                /\ at[p] = 1 => Opens(p, "shm")
                /\ at[p] = 2 => Opens(p, "sem")
                /\ at[p] > 2 => handle' = handle /\ bound' = bound
<1>1. CASE p \in Servers
  <2>1. /\ at[p] \in 1 .. 9 /\ Len(Program(p)) = 9
        /\ at[p] \in {1, 3} => Creat(p)
        /\ at[p] = 2 => Ftruncate(p)
        /\ at[p] = 4 => Begin(p)
        /\ at[p] = 5 => Copy(p)
        /\ at[p] = 6 => Wait(p)
        /\ at[p] = 7 => PrintText(p)
        /\ at[p] \in {8, 9} => UnlinkName(p)
        /\ Name(p) = (IF at[p] \in {3, 6, 9} THEN "sem" ELSE "shm")
        /\ "shm" \in Objects /\ "sem" \in Objects
    BY <1>1, PosixShmServerCalls, Roles
  <2>2. at[p] = 1 => Makes(p, "shm")
    <3> SUFFICES ASSUME at[p] = 1 PROVE Makes(p, "shm")
      OBVIOUS
    <3>1. Creat(p) /\ Name(p) = "shm" /\ Name(p) \in Objects /\ at[p] < Len(Program(p))
      BY <2>1
    <3> QED
      BY <3>1, CreatMakes
  <2>3. at[p] = 3 => Makes(p, "sem")
    <3> SUFFICES ASSUME at[p] = 3 PROVE Makes(p, "sem")
      OBVIOUS
    <3>1. Creat(p) /\ Name(p) = "sem" /\ Name(p) \in Objects /\ at[p] < Len(Program(p))
      BY <2>1
    <3> QED
      BY <3>1, CreatMakes
  <2>4. at[p] = 8 => Unlinks(p, "shm")
    BY <2>1, UnlinkUnlinks
  <2>5. at[p] = 9 => Unlinks(p, "sem")
    BY <2>1, UnlinkUnlinks
  <2>6. at[p] \notin {1, 3, 8, 9} => handle' = handle /\ bound' = bound
    BY <2>1 DEF Ftruncate, Begin, Copy, Wait, PrintText
  <2> QED
    BY <1>1, <2>1, <2>2, <2>3, <2>4, <2>5, <2>6, Roles
<1>2. CASE p \in Clients
  <2>1. /\ at[p] \in 1 .. 6 /\ Len(Program(p)) = 6
        /\ at[p] \in {1, 2} => Open(p)
        /\ at[p] = 3 => PrintText(p)
        /\ at[p] = 4 => Begin(p)
        /\ at[p] = 5 => Copy(p)
        /\ at[p] = 6 => Post(p)
        /\ Name(p) = (IF at[p] \in {2, 6} THEN "sem" ELSE "shm")
        /\ "shm" \in Objects /\ "sem" \in Objects
    BY <1>2, PosixShmClientCalls, Roles
  <2>2. at[p] = 1 => Opens(p, "shm")
    <3> SUFFICES ASSUME at[p] = 1 PROVE Opens(p, "shm")
      OBVIOUS
    <3>1. Open(p) /\ Name(p) = "shm" /\ Name(p) \in Objects /\ at[p] < Len(Program(p))
      BY <2>1
    <3> QED
      BY <3>1, OpenOpens
  <2>3. at[p] = 2 => Opens(p, "sem")
    <3> SUFFICES ASSUME at[p] = 2 PROVE Opens(p, "sem")
      OBVIOUS
    <3>1. Open(p) /\ Name(p) = "sem" /\ Name(p) \in Objects /\ at[p] < Len(Program(p))
      BY <2>1
    <3> QED
      BY <3>1, OpenOpens
  <2>4. at[p] > 2 => handle' = handle /\ bound' = bound
    BY <2>1 DEF PrintText, Begin, Copy, Post
  <2> QED
    BY <1>2, <2>1, <2>2, <2>3, <2>4, Roles
<1> QED
  BY <1>1, <1>2 DEF Procs

LEMMA NamesStep ==
    ASSUME CommonInv, TextInv, NamesInv, pair = "posixShm", NEW p \in Procs, Step(p)
    PROVE  NamesInv'
<1>1. /\ \A q \in Procs : q # p => /\ at'[q] = at[q] /\ status'[q] = status[q]
                                   /\ handle'[q] = handle[q]
      /\ status[p] = "running" /\ at[p] \in 1 .. 9 /\ at'[p] \in {at[p], at[p] + 1} /\ pair' = pair
      /\ \A q \in Procs : at[q] \in Nat
      /\ \A o \in {"shm", "sem"} : bound[o] \in Instances /\ o \in Objects
  <2>1. /\ \A q \in Procs : at[q] \in Nat
        /\ \A o \in {"shm", "sem"} : bound[o] \in Instances /\ o \in Objects
    BY Roles DEF CommonInv, HandshakeTypes
  <2> QED
    BY <2>1, OthersStay, NamesCalls
<1>2. /\ \A s \in Servers : at[s] = 1 =>
           bound["shm"] # s /\ \A q \in Procs : handle[q]["shm"] # s
      /\ \A s \in Servers : status[s] = "running" => NamesServer(s)
      /\ \A s \in Servers : at[s] > 3 => handle[s]["sem"] \in Servers
      /\ \A c \in Clients : NamesClient(c)
      /\ \A q \in Procs : at[q] > 1 => handle[q]["shm"] \in Servers
  BY DEF NamesInv, TextInv, SharedText, Running
<1>3. CASE p \in Servers
  <2>0. p \notin Clients /\ p # Nobody /\ \A c \in Clients : c \in Procs /\ c # p
    BY <1>3, Roles
  <2>1. NamesServer(p) /\ \A s \in Servers : s # p => status'[s] # "running" /\ at'[s] = at[s]
    BY <1>1, <1>2, <1>3, Roles DEF CommonInv, LivesInv, Running
  <2>2. \A c \in Clients : /\ NamesClient(c) /\ at'[c] = at[c] /\ handle'[c] = handle[c]
                           /\ handle[c]["sem"] # Nobody => handle[c]["shm"] \in Servers
    <3>1. \A c \in Clients : at[c] < 3 => handle[c]["sem"] = Nobody
      BY <1>2 DEF NamesClient
    <3> QED
      BY <1>1, <1>2, <2>0, <3>1
  <2>3. ASSUME NEW s \in Servers, at'[s] = 1
        PROVE  bound'["shm"] # s /\ \A q \in Procs : handle'[q]["shm"] # s
    <3>1. at[s] = 1 /\ (s = p => at[p] = 1 /\ at'[p] = 1)
      BY <1>1, <1>3, <2>1, <2>3, Roles
    <3>2. at[p] = 1 => s # p /\ Makes(p, "shm")
      BY <1>1, <1>3, <3>1, NamesCalls DEF Makes
    <3>3. bound["shm"] # s /\ \A q \in Procs : handle[q]["shm"] # s
      BY <1>2, <3>1
    <3>4. CASE at[p] = 1
      BY <1>1, <3>2, <3>3, <3>4, Roles DEF Makes
    <3>5. CASE at[p] = 3
      BY <1>1, <1>3, <3>3, <3>5, NamesCalls, Roles DEF Makes
    <3>6. CASE at[p] \notin {1, 3}
      <4>1. handle' = handle /\ bound'["shm"] \in {bound["shm"], Nobody}
        BY <1>1, <1>3, <3>6, NamesCalls DEF Unlinks
      <4> QED
        BY <3>3, <4>1, Roles
    <3> QED
      BY <3>4, <3>5, <3>6
  <2>4. CASE at[p] = 1
    <3>1. Makes(p, "shm")
      BY <1>3, <2>4, NamesCalls
    <3>2. bound'["shm"] = handle'[p]["shm"] /\ bound'["sem"] = bound["sem"] /\ at'[p] = 2
          /\ (bound'["shm"] = bound["shm"] \/ bound'["shm"] = p)
      BY <1>1, <2>4, <3>1 DEF Makes
    <3>3. NamesServer(p)'
      BY <1>1, <3>2 DEF NamesServer
    <3>4. \A c \in Clients : handle[c]["shm"] # p
      BY <1>2, <1>3, <2>0, <2>4
    <3>5. \A c \in Clients : NamesClient(c)'
      BY <2>2, <3>2, <3>4 DEF NamesClient
    <3>6. \A s \in Servers : at'[s] > 3 => handle'[s]["sem"] \in Servers
      BY <1>1, <1>2, <3>2, Roles
    <3> QED
      BY <1>1, <2>1, <2>3, <3>3, <3>5, <3>6 DEF NamesInv, Running
  <2>5. CASE at[p] = 3
    <3>1. Makes(p, "sem")
      BY <1>3, <2>5, NamesCalls
    <3>2. /\ bound'["sem"] = handle'[p]["sem"] /\ bound'["shm"] = bound["shm"] /\ at'[p] = 4
          /\ handle'[p]["shm"] = handle[p]["shm"] /\ bound'["sem"] \in Servers
          /\ (bound'["sem"] = bound["sem"] \/ bound["sem"] = Nobody)
      BY <1>1, <1>3, <2>5, <3>1 DEF Makes, Instances
    <3>3. NamesServer(p)'
      BY <1>1, <2>1, <2>5, <3>2 DEF NamesServer
    <3>5. \A c \in Clients : NamesClient(c)'
      BY <2>2, <3>2 DEF NamesClient
    <3>6. \A s \in Servers : at'[s] > 3 => handle'[s]["sem"] \in Servers
      BY <1>1, <1>2, <3>2, Roles
    <3> QED
      BY <1>1, <2>1, <2>3, <3>3, <3>5, <3>6 DEF NamesInv, Running
  <2>6. CASE at[p] = 8
    <3>1. Unlinks(p, "shm")
      BY <1>3, <2>6, NamesCalls
    <3>2. handle' = handle /\ bound'["shm"] = Nobody /\ bound'["sem"] = bound["sem"]
      BY <1>1, <3>1 DEF Unlinks
    <3>3. at'[p] = 9 \/ status'[p] # "running"
      BY <1>1, <2>6, OthersStay
    <3>4. status'[p] = "running" => NamesServer(p)'
      BY <1>1, <2>1, <2>6, <3>2, <3>3 DEF NamesServer
    <3>5. \A c \in Clients : NamesClient(c)'
      BY <2>2, <3>2, Roles DEF NamesClient
    <3>6. \A s \in Servers : at'[s] > 3 => handle'[s]["sem"] \in Servers
      BY <1>1, <1>2, <2>6, <3>2, Roles
    <3> QED
      BY <1>1, <2>1, <2>3, <3>4, <3>5, <3>6 DEF NamesInv, Running
  <2>7. CASE at[p] = 9
    <3>1. Unlinks(p, "sem") /\ status'[p] # "running"
      <4>1. Len(Program(p)) = 9
        BY <1>3, PosixShmServerCalls
      <4> QED
        BY <1>3, <2>7, <4>1, NamesCalls, LastCall
    <3>2. handle' = handle /\ bound'["sem"] = Nobody /\ bound'["shm"] = bound["shm"]
      BY <1>1, <3>1 DEF Unlinks
    <3>3. bound["shm"] = Nobody
      BY <2>1, <2>7 DEF NamesServer
    <3>5. \A c \in Clients : NamesClient(c)'
      BY <2>2, <3>2, <3>3, Roles DEF NamesClient
    <3>6. \A s \in Servers : at'[s] > 3 => handle'[s]["sem"] \in Servers
      BY <1>1, <1>2, <2>7, <3>2, Roles
    <3> QED
      BY <1>1, <2>1, <2>3, <3>1, <3>5, <3>6 DEF NamesInv, Running
  <2>8. CASE at[p] \notin {1, 3, 8, 9}
    <3>1. handle' = handle /\ bound' = bound
      BY <1>3, <2>8, NamesCalls
    <3>3. NamesServer(p)'
      BY <1>1, <2>1, <2>8, <3>1 DEF NamesServer
    <3>5. \A c \in Clients : NamesClient(c)'
      BY <2>2, <3>1 DEF NamesClient
    <3>6. \A s \in Servers : at'[s] > 3 => handle'[s]["sem"] \in Servers
      BY <1>1, <1>2, <2>8, <3>1, Roles
    <3> QED
      BY <1>1, <2>1, <2>3, <3>3, <3>5, <3>6 DEF NamesInv, Running
  <2> QED
    BY <2>4, <2>5, <2>6, <2>7, <2>8
<1>4. CASE p \in Clients
  <2>1. bound' = bound /\ \A s \in Servers : s \in Procs /\ s # p
    BY <1>1, <1>4, NamesCalls, Roles DEF Opens
  <2>2. \A s \in Servers : /\ at'[s] = at[s] /\ status'[s] = status[s]
                           /\ handle'[s] = handle[s]
    BY <1>1, <2>1
  <2>3. \A s \in Servers : status'[s] = "running" => NamesServer(s)'
    BY <1>2, <2>1, <2>2 DEF NamesServer
  <2>4. handle'[p]["shm"] \in {handle[p]["shm"], bound["shm"]}
    BY <1>1, <1>4, NamesCalls DEF Opens
  <2>5. ASSUME NEW s \in Servers, at'[s] = 1
        PROVE  bound'["shm"] # s /\ \A q \in Procs : handle'[q]["shm"] # s
    BY <1>1, <1>2, <2>1, <2>2, <2>4, <2>5
  <2>6. NamesClient(p)'
    <3>1. NamesClient(p)
      BY <1>2, <1>4
    <3>2. CASE at[p] = 1
      BY <1>1, <1>4, <3>1, <3>2, NamesCalls DEF NamesClient, Opens
    <3>3. CASE at[p] = 2
      BY <1>1, <1>4, <2>1, <3>1, <3>3, NamesCalls DEF NamesClient, Opens, Instances
    <3>4. CASE at[p] > 2
      BY <1>1, <1>4, <3>1, <3>4, NamesCalls DEF NamesClient
    <3> QED
      BY <1>1, <3>2, <3>3, <3>4
  <2>7. \A c \in Clients : NamesClient(c)'
    <3>1. \A c \in Clients : c # p => at'[c] = at[c] /\ handle'[c] = handle[c]
      BY <1>1, Roles
    <3> QED
      BY <1>2, <2>1, <2>6, <3>1 DEF NamesClient
  <2>8. \A s \in Servers : at'[s] > 3 => handle'[s]["sem"] \in Servers
    BY <1>2, <2>2
  <2> QED
    BY <1>1, <2>3, <2>5, <2>7, <2>8 DEF NamesInv, Running
<1> QED
  BY <1>3, <1>4 DEF Procs

LEMMA OtherObject ==
    ASSUME CommonInv, NEW o \in Objects, NEW t, NEW v, content' = [content EXCEPT ![o][t] = v],
           NEW n \in Objects, n # o
    PROVE  content'[n] = content[n]
<1>1. PICK V : content \in [Objects -> [Servers -> V]]
  BY DEF CommonInv, HandshakeTypes
<1> QED
  BY <1>1

LEMMA SemCalls ==
    ASSUME CommonInv, pair = "posixShm", NEW p \in Procs, Step(p)
    PROVE  \/ /\ p \in Servers /\ at[p] = 3 /\ Makes(p, "sem") /\ heard' = heard
              /\ \/ bound["sem"] = Nobody /\ content' = [content EXCEPT !["sem"][p] = 0]
                 \/ bound["sem"] # Nobody /\ content' = content
           \/ /\ p \in Servers /\ at[p] = 6 /\ at'[p] = 7 /\ UNCHANGED <<bound, handle, heard>>
              /\ content["sem"][handle[p]["sem"]] > 0
              /\ content' = [content EXCEPT !["sem"][handle[p]["sem"]] =
                               content["sem"][handle[p]["sem"]] - 1]
           \/ /\ p \in Clients /\ at[p] = 6 /\ UNCHANGED <<bound, handle, heard>>
              /\ content' = [content EXCEPT !["sem"][handle[p]["sem"]] =
                               content["sem"][handle[p]["sem"]] + 1]
           \/ /\ p \in Servers /\ at[p] \notin {3, 6} /\ content'["sem"] = content["sem"]
              /\ handle'[p]["sem"] = handle[p]["sem"] /\ bound'["sem"] \in {bound["sem"], Nobody}
           \/ /\ p \in Clients /\ at[p] < 6 /\ content'["sem"] = content["sem"]
              /\ handle'[p]["sem"] \in {handle[p]["sem"], bound["sem"]} /\ bound' = bound
<1> USE Roles
<1>1. CASE p \in Servers
  <2>1. /\ at[p] \in 1 .. 9 /\ Len(Program(p)) = 9
        /\ at[p] \in {1, 3} => Creat(p)
        /\ at[p] = 2 => Ftruncate(p)
        /\ at[p] = 4 => Begin(p)
        /\ at[p] = 5 => Copy(p)
        /\ at[p] = 6 => Wait(p)
        /\ at[p] = 7 => PrintText(p)
        /\ at[p] \in {8, 9} => UnlinkName(p)
        /\ Name(p) = (IF at[p] \in {3, 6, 9} THEN "sem" ELSE "shm")
    BY <1>1, PosixShmServerCalls
  <2>2. CASE at[p] = 3
    <3>1. Makes(p, "sem") /\ Creat(p) /\ Name(p) = "sem" /\ Fresh(p) = 0
      BY <1>1, <2>1, <2>2, NamesCalls DEF Fresh
    <3> QED
      BY <1>1, <2>2, <3>1 DEF Makes, Creat
  <2>3. CASE at[p] = 6
    <3>1. Wait(p) /\ Name(p) = "sem"
      BY <2>1, <2>3
    <3>2. at'[p] = 7
      <4>1. at \in [Procs -> Nat] /\ at[p] < Len(Program(p))
        BY <2>1, <2>3 DEF CommonInv, HandshakeTypes
      <4> QED
        BY <2>3, <3>1, <4>1 DEF Wait, Return
    <3> QED
      BY <1>1, <2>3, <3>1, <3>2 DEF Wait, Put, Content, Instance
  <2>4. CASE at[p] \in {2, 4, 5, 7}
    <3>1. handle' = handle /\ bound' = bound
      BY <1>1, <2>4, NamesCalls
    <3>2. content' = content \/ \E t, v : content' = [content EXCEPT !["shm"][t] = v]
      BY <2>1, <2>4 DEF Ftruncate, Begin, Copy, PrintText, Put
    <3>3. content'["sem"] = content["sem"]
      BY <3>2, OtherObject
    <3> QED
      BY <1>1, <2>4, <3>1, <3>3
  <2>5. CASE at[p] = 1
    <3>1. Makes(p, "shm")
      BY <1>1, <2>5, NamesCalls
    <3>2. content' = content \/ \E t, v : content' = [content EXCEPT !["shm"][t] = v]
      BY <3>1 DEF Makes
    <3>3. content'["sem"] = content["sem"]
      BY <3>2, OtherObject
    <3> QED
      BY <1>1, <2>5, <3>1, <3>3 DEF Makes
  <2>6. CASE at[p] \in {8, 9}
    <3>1. Unlinks(p, "shm") \/ Unlinks(p, "sem")
      BY <1>1, <2>6, NamesCalls
    <3> QED
      BY <1>1, <2>6, <3>1 DEF Unlinks
  <2> QED
    BY <2>1, <2>2, <2>3, <2>4, <2>5, <2>6
<1>2. CASE p \in Clients
  <2>1. /\ at[p] \in 1 .. 6
        /\ at[p] = 3 => PrintText(p)
        /\ at[p] = 4 => Begin(p)
        /\ at[p] = 5 => Copy(p)
        /\ at[p] = 6 => Post(p)
        /\ Name(p) = (IF at[p] \in {2, 6} THEN "sem" ELSE "shm")
    BY <1>2, PosixShmClientCalls
  <2>2. CASE at[p] = 6
    BY <1>2, <2>1, <2>2 DEF Post, Put, Content, Instance
  <2>3. CASE at[p] \in {1, 2}
    <3>1. Opens(p, "shm") \/ Opens(p, "sem")
      BY <1>2, <2>3, NamesCalls
    <3> QED
      BY <1>2, <2>3, <3>1 DEF Opens
  <2>4. CASE at[p] \in {3, 4, 5}
    <3>1. handle' = handle /\ bound' = bound
      BY <1>2, <2>4, NamesCalls
    <3>2. content' = content \/ \E t, v : content' = [content EXCEPT !["shm"][t] = v]
      BY <2>1, <2>4 DEF Begin, Copy, PrintText, Put
    <3>3. content'["sem"] = content["sem"]
      BY <3>2, OtherObject
    <3> QED
      BY <1>2, <2>4, <3>1, <3>3
  <2> QED
    BY <2>1, <2>2, <2>3, <2>4
<1> QED
  BY <1>1, <1>2 DEF Procs

LEMMA SemStep ==
    ASSUME CommonInv, TextInv, NamesInv, SemInv, pair = "posixShm", NEW p \in Procs, Step(p)
    PROVE  SemInv'
<1>0. PICK V : content \in [Objects -> [Servers -> V]]
  BY DEF CommonInv, HandshakeTypes
<1>1. /\ \A q \in Procs : q # p => /\ at'[q] = at[q] /\ status'[q] = status[q]
                                   /\ handle'[q] = handle[q] /\ heard'[q] = heard[q]
      /\ status[p] = "running" /\ pair' = pair
  BY OthersStay
<1>2. /\ \A t \in Servers : bound["sem"] = t => content["sem"][t] \in Nat
      /\ \A q \in Procs : handle[q]["sem"] \in Servers => content["sem"][handle[q]["sem"]] \in Nat
      /\ \A c \in Clients, s \in Servers :
           status[s] = "running" /\ at[s] = 6 /\ heard[c] = s /\ status[c] = "done" =>
               content["sem"][handle[s]["sem"]] # 0
  BY DEF SemInv, Running
<1>3. /\ bound["sem"] \in Servers \cup {Nobody} /\ \A q \in Procs : handle[q]["sem"] \in Servers \cup {Nobody}
      /\ \A q \in Procs : q # Nobody
  BY Roles DEF CommonInv, HandshakeTypes, Instances
<1>4. \A s, t \in Servers : status[s] = "running" /\ status[t] = "running" => s = t
  BY DEF CommonInv, LivesInv, Running
<1>5. \A c \in Clients : c \in Procs /\ c \notin Servers
  BY Roles
<1> SUFFICES /\ \A t \in Servers : bound'["sem"] = t => content'["sem"][t] \in Nat
             /\ \A q \in Procs : handle'[q]["sem"] \in Servers =>
                  content'["sem"][handle'[q]["sem"]] \in Nat
             /\ \A c \in Clients, s \in Servers :
                  status'[s] = "running" /\ at'[s] = 6 /\ heard'[c] = s /\ status'[c] = "done" =>
                      content'["sem"][handle'[s]["sem"]] # 0
  BY DEF SemInv, Running
<1>6. CASE /\ p \in Servers /\ at[p] = 3 /\ Makes(p, "sem")
           /\ \/ bound["sem"] = Nobody /\ content' = [content EXCEPT !["sem"][p] = 0]
              \/ bound["sem"] # Nobody /\ content' = content
  <2>1. at'[p] = 4 /\ handle'[p]["sem"] = bound'["sem"] /\ bound'["sem"] \in {p, bound["sem"]}
    BY <1>6 DEF Makes
  <2>2. \A s \in Servers : status'[s] = "running" => at'[s] # 6
    BY <1>1, <1>4, <1>6, <2>1, Roles
  <2>3. CASE bound["sem"] = Nobody /\ content' = [content EXCEPT !["sem"][p] = 0]
    <3>1. \A u \in Servers : content'["sem"][u] = IF u = p THEN 0 ELSE content["sem"][u]
      BY <1>0, <2>3, Roles
    <3> QED
      BY <1>1, <1>2, <1>3, <1>6, <2>1, <2>2, <2>3, <3>1
  <2>4. CASE bound["sem"] # Nobody /\ content' = content
    <3>1. bound'["sem"] = bound["sem"]
      BY <1>6, <2>4 DEF Makes
    <3> QED
      BY <1>1, <1>2, <1>3, <2>1, <2>2, <2>4, <3>1
  <2> QED
    BY <1>6, <2>3, <2>4
<1>7. CASE /\ p \in Servers /\ at[p] = 6 /\ at'[p] = 7 /\ UNCHANGED <<bound, handle, heard>>
           /\ content["sem"][handle[p]["sem"]] > 0
           /\ content' = [content EXCEPT !["sem"][handle[p]["sem"]] =
                            content["sem"][handle[p]["sem"]] - 1]
  <2>1. \A u \in Servers : content'["sem"][u] =
          IF u = handle[p]["sem"] THEN content["sem"][handle[p]["sem"]] - 1 ELSE content["sem"][u]
    BY <1>0, <1>7, Roles
  <2>2. \A s \in Servers : status'[s] = "running" => at'[s] # 6
    BY <1>1, <1>4, <1>7, Roles
  <2>3. handle[p]["sem"] \in Servers /\ content["sem"][handle[p]["sem"]] \in Nat \ {0}
    <3>1. handle[p]["sem"] \in Servers
      BY <1>7 DEF NamesInv
    <3> QED
      BY <1>2, <1>7, <3>1
  <2>4. content["sem"][handle[p]["sem"]] - 1 \in Nat
    BY <2>3
  <2> QED
    BY <1>2, <1>7, <2>1, <2>2, <2>4
<1>8. CASE /\ p \in Clients /\ at[p] = 6 /\ UNCHANGED <<bound, handle, heard>>
           /\ content' = [content EXCEPT !["sem"][handle[p]["sem"]] =
                            content["sem"][handle[p]["sem"]] + 1]
  <2>1. \A u \in Servers : content'["sem"][u] =
          IF u = handle[p]["sem"] THEN content["sem"][handle[p]["sem"]] + 1 ELSE content["sem"][u]
    BY <1>0, <1>8, Roles
  <2>2. NamesClient(p) /\ handle[p]["sem"] \in Servers
    BY <1>8 DEF NamesInv, NamesClient
  <2>3. content["sem"][handle[p]["sem"]] \in Nat
    BY <1>2, <2>2
  <2>4. content["sem"][handle[p]["sem"]] + 1 \in Nat \ {0}
    BY <2>3
  <2>5. ASSUME NEW c \in Clients, NEW s \in Servers, status'[s] = "running", at'[s] = 6,
               heard'[c] = s, status'[c] = "done"
        PROVE  content'["sem"][handle'[s]["sem"]] # 0
    <3>1. status[s] = "running" /\ at[s] = 6 /\ heard[c] = s /\ s # p /\ s \in Procs
      BY <1>1, <1>5, <1>8, <2>5, Roles
    <3>2. NamesServer(s) /\ handle[s]["sem"] \in Servers
      BY <3>1 DEF NamesInv, Running
    <3>3. CASE c = p
      <4>1. handle[p]["shm"] = handle[s]["shm"]
        BY <1>8, <3>1, <3>3 DEF TextInv, SharedText, FoundText
      <4>2. handle[p]["sem"] = handle[s]["sem"]
        BY <1>3, <2>2, <3>1, <3>2, <4>1, Roles DEF NamesServer, NamesClient
      <4> QED
        BY <1>8, <2>1, <2>2, <2>4, <4>2
    <3>4. CASE c # p
      <4>1. content["sem"][handle[s]["sem"]] # 0
        BY <1>1, <1>2, <1>5, <2>5, <3>1, <3>4
      <4> QED
        BY <1>8, <2>1, <2>4, <3>2, <4>1
    <3> QED
      BY <3>3, <3>4
  <2> QED
    BY <1>2, <1>8, <2>1, <2>4, <2>5
<1>9. CASE \/ /\ p \in Servers /\ at[p] \notin {3, 6} /\ content'["sem"] = content["sem"]
              /\ handle'[p]["sem"] = handle[p]["sem"] /\ bound'["sem"] \in {bound["sem"], Nobody}
           \/ /\ p \in Clients /\ at[p] < 6 /\ content'["sem"] = content["sem"]
              /\ handle'[p]["sem"] \in {handle[p]["sem"], bound["sem"]} /\ bound' = bound
  <2>1. /\ content'["sem"] = content["sem"] /\ bound'["sem"] \in {bound["sem"], Nobody}
        /\ handle'[p]["sem"] \in {handle[p]["sem"], bound["sem"]}
    BY <1>9
  <2>2. ASSUME NEW c \in Clients, NEW s \in Servers, status'[s] = "running", at'[s] = 6,
               heard'[c] = s, status'[c] = "done"
        PROVE  content'["sem"][handle'[s]["sem"]] # 0
    <3>1. s \in Procs /\ c \in Procs /\ s # c /\ at[s] \in Nat
      BY Roles DEF CommonInv, HandshakeTypes
    <3>2. CASE s = p
      <4>1. at[p] = 5 /\ heard[c] = s
        BY <1>1, <1>9, <2>2, <3>1, <3>2, OthersStay, Roles
      <4>2. at[s] > 5
        BY <4>1 DEF TextInv, SharedText, FoundText, Copies
      <4> QED
        BY <3>2, <4>1, <4>2
    <3>3. CASE c = p
      <4>1. Len(Program(p)) = 6 /\ at[p] < 6
        BY <1>9, <3>3, PosixShmClientCalls, Roles
      <4>2. at[p] # Len(Program(p))
        BY <4>1
      <4> QED
        BY <2>2, <3>3, <4>2, OthersStay
    <3>4. CASE s # p /\ c # p
      BY <1>1, <1>2, <2>1, <2>2, <3>1, <3>4
    <3> QED
      BY <3>2, <3>3, <3>4
  <2>3. \A t \in Servers : bound'["sem"] = t => content'["sem"][t] \in Nat
    BY <1>2, <2>1, Roles
  <2>4. \A q \in Procs : handle'[q]["sem"] \in Servers => content'["sem"][handle'[q]["sem"]] \in Nat
    BY <1>1, <1>2, <1>3, <2>1
  <2> QED
    BY <2>2, <2>3, <2>4
<1> QED
  BY <1>6, <1>7, <1>8, <1>9, SemCalls

SharedWaits == TextInv /\ PollInv /\ NamesInv /\ SemInv

LEMMA SharedWaitsInitial == HandshakesInit => SharedWaits
<1> SUFFICES ASSUME HandshakesInit PROVE SharedWaits
  OBVIOUS
<1>1. /\ \A p \in Procs : status[p] = "unborn" /\ at[p] = 1 /\ heard[p] = Nobody
      /\ \A p \in Procs, o \in Objects : handle[p][o] = Nobody
      /\ \A o \in Objects : bound[o] = Nobody
      /\ \A o \in Objects, s \in Servers : content[o][s] = << >>
      /\ content["shm"] = [s \in Servers |-> << >>]
  BY Roles DEF HandshakesInit
<1>2. \A s \in Servers : s \in Procs /\ s # Nobody /\ Text(s) # << >>
  BY Roles DEF Text
<1>3. TextInv
  BY <1>1, <1>2, Roles DEF TextInv
<1>4. PollInv /\ SemInv
  BY <1>1, <1>2, Roles DEF PollInv, SemInv, Running
<1>5. NamesInv
  BY <1>1, <1>2, Roles DEF NamesInv, NamesClient, Running
<1> QED
  BY <1>3, <1>4, <1>5 DEF SharedWaits

LEMMA SharedWaitsStep ==
    ASSUME CommonInv, UnbornInv, SharedWaits, [HandshakesNext]_handshakeVars
    PROVE  SharedWaits'
<1>1. ASSUME NEW p \in Procs, Step(p) PROVE SharedWaits'
  <2>1. pair' = pair
    BY <1>1, OthersStay
  <2>2. CASE pair = "posixShm"
    BY <1>1, <2>1, <2>2, TextStep, NamesStep, SemStep DEF SharedWaits, SharedText, PollInv
  <2>3. CASE pair = "sysvShm"
    BY <1>1, <2>1, <2>3, TextStep, PollStep DEF SharedWaits, SharedText, NamesInv, SemInv
  <2>4. CASE ~ SharedText
    BY <2>1, <2>4 DEF SharedWaits, SharedText, TextInv, PollInv, NamesInv, SemInv
  <2> QED
    BY <2>2, <2>3, <2>4 DEF SharedText
<1>2. CASE Rests
  <2>1. UNCHANGED <<pair, at, bound, handle, content, heard>> /\ Copies' = Copies
    BY <1>2 DEF Rests, Copies
  <2>2. /\ \A p \in Procs : status'[p] = "running" => status[p] = "running" \/ at[p] = 1
        /\ \A p \in Procs : status'[p] = "done" => status[p] = "done"
        /\ \A s \in Servers : s \in Procs /\ \A c \in Clients : c \in Procs
    BY <1>2, Roles DEF Rests, UnbornInv
  <2>3. TextInv'
    BY <2>1 DEF SharedWaits, TextInv, SharedText, FoundText, Text
  <2>4. PollInv'
    <3> SUFFICES ASSUME pair = "sysvShm", NEW c \in Clients, NEW s \in Servers,
                        status'[s] = "running", at[s] = 5, heard[c] = s, at[c] > 4
                 PROVE  \A t \in Servers : content["shm"][handle[s]["shm"]] # Text(t)
      BY <2>1 DEF PollInv, Running, Text
    <3>1. status[s] = "running"
      BY <2>2
    <3> QED
      BY <3>1 DEF SharedWaits, PollInv, Running
  <2>5. NamesInv'
    <3>1. \A s \in Servers : status'[s] = "running" => status[s] = "running" \/ at[s] = 1
      BY <2>2
    <3>2. \A s \in Servers : NamesServer(s) \/ at[s] = 1 => NamesServer(s)'
      BY <2>1 DEF NamesServer
    <3>3. \A c \in Clients : NamesClient(c) => NamesClient(c)'
      BY <2>1 DEF NamesClient
    <3> QED
      BY <2>1, <3>1, <3>2, <3>3 DEF SharedWaits, NamesInv, Running
  <2>6. SemInv'
    <3> SUFFICES ASSUME pair = "posixShm"
                 PROVE  /\ \A t \in Servers : bound["sem"] = t => content["sem"][t] \in Nat
                        /\ \A p \in Procs : handle[p]["sem"] \in Servers =>
                             content["sem"][handle[p]["sem"]] \in Nat
                        /\ \A c \in Clients, s \in Servers :
                             status'[s] = "running" /\ at[s] = 6 /\ heard[c] = s /\ status'[c] = "done" =>
                               content["sem"][handle[s]["sem"]] # 0
      BY <2>1 DEF SemInv, Running
    <3>1. /\ \A t \in Servers : bound["sem"] = t => content["sem"][t] \in Nat
          /\ \A p \in Procs : handle[p]["sem"] \in Servers =>
                content["sem"][handle[p]["sem"]] \in Nat
          /\ \A c \in Clients, s \in Servers :
                status[s] = "running" /\ at[s] = 6 /\ heard[c] = s /\ status[c] = "done" =>
                   content["sem"][handle[s]["sem"]] # 0
      BY DEF SharedWaits, SemInv, Running
    <3> QED
      BY <2>2, <3>1
  <2> QED
    BY <2>3, <2>4, <2>5, <2>6 DEF SharedWaits
<1> QED
  BY <1>1, <1>2, StepOrRests

\* Nothing waits at a call that does not wait.
LEMMA CallsAt ==
    ASSUME NEW p \in Procs, NEW w, NEW o, Program(p)[at[p]] = <<w, o>>
    PROVE  /\ Name(p) = o
           /\ \A x : Calls(p, x) <=> Running(p) /\ x = w
  BY DEF Name, Calls

LEMMA SharedWaitsMeaning ==
    ASSUME CommonInv, UnbornInv, SharedWaits, SharedText, Quiet
    PROVE  /\ \A c \in Clients : ~ Running(c)
           /\ \A s \in Servers, c \in Clients : Running(s) => ~ (heard[c] = s /\ status[c] = "done")
<1>1. \A p \in Procs : Running(p) =>
         \/ Calls(p, "poll") /\ Content(p) \in {Text(s) : s \in Servers}
         \/ Calls(p, "wait") /\ Content(p) = 0
  <2>1. \A p \in Procs : Program(p)[at[p]][1] \notin {"meet", "receive", "read"}
    <3> SUFFICES ASSUME NEW p \in Procs
                 PROVE  Program(p)[at[p]][1] \notin {"meet", "receive", "read"}
      OBVIOUS
    <3>1. at[p] \in 1 .. Len(Program(p))
      BY DEF CommonInv, HandshakeTypes
    <3>2. \/ Program(p) = PosixShmServer \/ Program(p) = PosixShmClient
          \/ Program(p) = SysvShmServer \/ Program(p) = SysvShmClient
      BY MemoryCalls, SysvShmCalls DEF SharedText, Procs
    <3>3. CASE Program(p) = PosixShmServer
      BY <3>1, <3>3 DEF PosixShmServer
    <3>4. CASE Program(p) = PosixShmClient
      BY <3>1, <3>4 DEF PosixShmClient
    <3>5. CASE Program(p) = SysvShmServer
      BY <3>1, <3>5 DEF SysvShmServer
    <3>6. CASE Program(p) = SysvShmClient
      BY <3>1, <3>6 DEF SysvShmClient
    <3> QED
      BY <3>2, <3>3, <3>4, <3>5, <3>6
  <2>2. ASSUME NEW p \in Procs, Running(p)
        PROVE  \/ Calls(p, "poll") /\ Content(p) \in {Text(s) : s \in Servers}
               \/ Calls(p, "wait") /\ Content(p) = 0
    <3>1. Blocked(p) /\ Program(p)[at[p]][1] \notin {"meet", "receive", "read"}
      BY <2>1, <2>2 DEF Quiet
    <3> QED
      BY <3>1 DEF Blocked, Calls
  <2> QED
    BY <2>2
<1>2. \A c \in Clients : ~ Running(c)
  <2> SUFFICES ASSUME NEW c \in Clients, Running(c) PROVE FALSE
    OBVIOUS
  <2>1. Program(c)[at[c]][1] \in {"poll", "wait"} /\ at[c] \in 1 .. Len(Program(c))
    BY <1>1, Roles DEF Calls, CommonInv, HandshakeTypes
  <2>2. Program(c) = PosixShmClient \/ Program(c) = SysvShmClient
    BY MemoryCalls, SysvShmCalls DEF SharedText
  <2>3. CASE Program(c) = PosixShmClient
    BY <2>1, <2>3 DEF PosixShmClient
  <2>4. CASE Program(c) = SysvShmClient
    BY <2>1, <2>4 DEF SysvShmClient
  <2> QED
    BY <2>2, <2>3, <2>4
<1>3. ASSUME NEW s \in Servers, NEW c \in Clients, Running(s), heard[c] = s, status[c] = "done"
      PROVE  FALSE
  <2>1. s \in Procs /\ c \in Procs /\ at[s] \in 1 .. Len(Program(s))
    BY Roles DEF CommonInv, HandshakeTypes
  <2>2. Program(s)[at[s]][1] \in {"poll", "wait"}
    BY <1>1, <1>3, <2>1 DEF Calls
  <2>3. CASE pair = "posixShm"
    <3>1. Program(s) = PosixShmServer
      BY <2>3, MemoryCalls
    <3>2. at[s] = 6 /\ Program(s)[at[s]] = <<"wait", "sem">>
      BY <2>1, <2>2, <3>1 DEF PosixShmServer
    <3>3. Content(s) = 0 /\ Name(s) = "sem"
      BY <1>1, <1>3, <2>1, <3>2, CallsAt
    <3>4. content["sem"][handle[s]["sem"]] # 0
      BY <1>3, <2>3, <3>2 DEF SharedWaits, SemInv
    <3> QED
      BY <3>3, <3>4 DEF Content, Instance
  <2>4. CASE pair = "sysvShm"
    <3>1. Program(s) = SysvShmServer /\ Program(c) = SysvShmClient
      BY <2>4, SysvShmCalls
    <3>2. at[s] = 5 /\ Program(s)[at[s]] = <<"poll", "shm">>
      BY <2>1, <2>2, <3>1 DEF SysvShmServer
    <3>3. Content(s) \in {Text(t) : t \in Servers} /\ Name(s) = "shm"
      BY <1>1, <1>3, <2>1, <3>2, CallsAt
    <3>4. at[c] = 6
      BY <1>3, <2>1, <3>1 DEF CommonInv, LivesInv, SysvShmClient
    <3>5. \A t \in Servers : content["shm"][handle[s]["shm"]] # Text(t)
      BY <1>3, <2>4, <3>2, <3>4 DEF SharedWaits, PollInv
    <3> QED
      BY <3>3, <3>5 DEF Content, Instance
  <2> QED
    BY <2>3, <2>4 DEF SharedText
<1> QED
  BY <1>2, <1>3
-----------------------------------------------------------------------------
(* Handshakes, queues: who has opened the queue to the clients that its name  *)
(* leads to has the queue to the server that its name leads to, and neither   *)
(* has been removed.                                                          *)

PipesServer(s) ==
    /\ at[s] \in Skip + 2 .. Skip + 5 => bound["toClient"] = handle[s]["toClient"]
    /\ at[s] = Skip + 6 \/ (at[s] = 2 /\ Skip = 2) => bound["toClient"] = Nobody
    /\ at[s] \in Skip + 3 .. Skip + 6 => bound["toServer"] = handle[s]["toServer"]

\* An instance that s has not made yet.
Unmade(s, o) ==
    bound[o] # s /\ <<o, s>> \notin removed /\ \A p \in Procs : handle[p][o] # s

PipesClient(c) ==
    /\ at[c] < 3 => handle[c]["toServer"] = Nobody
    /\ handle[c]["toServer"] # Nobody /\ handle[c]["toClient"] = bound["toClient"] =>
         handle[c]["toServer"] = bound["toServer"]

PipesInv == OverQueues =>
    /\ \A s \in Servers : /\ at[s] <= Skip + 1 => Unmade(s, "toClient")
                          /\ at[s] <= Skip + 2 => Unmade(s, "toServer")
    /\ \A s \in Servers : Running(s) => PipesServer(s)
    /\ \A o \in {"toClient", "toServer"} : bound[o] # Nobody => <<o, bound[o]>> \notin removed
    /\ pair = "sysvQueue" =>
         \A s \in Servers : at[s] = 6 => <<"toClient", handle[s]["toClient"]>> \in removed
    /\ \A c \in Clients : PipesClient(c)

\* A name is removed, perhaps with the instance p has opened.
Drops(p, o) ==
    /\ Unlinks(p, o)
    /\ \/ removed' = removed /\ pair = "posixQueue"
       \/ removed' = removed \cup {<<o, handle[p][o]>>} /\ pair = "sysvQueue"

LEMMA DropDrops ==
    ASSUME CommonInv, NEW p \in Procs, Name(p) \in Objects,
           (UnlinkName(p) /\ pair = "posixQueue") \/ (RemoveObject(p) /\ pair = "sysvQueue")
    PROVE  Drops(p, Name(p))
  BY DEF UnlinkName, RemoveObject, Drops, Unlinks, Instance, CommonInv, HandshakeTypes

LEMMA PipesCalls ==
    ASSUME CommonInv, OverQueues, NEW p \in Procs, Step(p)
    PROVE  /\ Skip \in {0, 2}
           /\ p \in Servers =>
                /\ at[p] \in 1 .. Skip + 6
                /\ at[p] = 1 /\ Skip = 2 => Unlinks(p, "toClient") /\ removed' = removed
                /\ at[p] = 2 /\ Skip = 2 => Unlinks(p, "toServer") /\ removed' = removed
                /\ at[p] = Skip + 1 => Makes(p, "toClient") /\ removed' = removed
                /\ at[p] = Skip + 2 => Makes(p, "toServer") /\ removed' = removed
                /\ at[p] \in {Skip + 3, Skip + 4} => UNCHANGED <<handle, bound, removed>>
                /\ at[p] = Skip + 5 => Drops(p, "toClient") /\ at'[p] = Skip + 6
                /\ at[p] = Skip + 6 => Drops(p, "toServer") /\ status'[p] # "running"
                                       /\ at'[p] = Skip + 6
           /\ p \in Clients =>
                /\ at[p] \in 1 .. 4 /\ removed' = removed
                /\ at[p] = 1 => Opens(p, "toClient")
                /\ at[p] = 2 => Opens(p, "toServer")
                /\ at[p] > 2 => UNCHANGED <<handle, bound>>
<1> USE Roles
<1>0. Skip \in {0, 2}
  BY DEF Skip
<1>1. CASE p \in Servers
  <2>1. /\ at[p] \in 1 .. Skip + 6 /\ Len(Program(p)) = Skip + 6
        /\ at[p] <= Skip => UnlinkName(p) /\ Name(p) = (IF at[p] = 1 THEN "toClient" ELSE "toServer")
        /\ at[p] = Skip + 1 => Creat(p) /\ Name(p) = "toClient"
        /\ at[p] = Skip + 2 => Creat(p) /\ Name(p) = "toServer"
        /\ at[p] = Skip + 3 => Send(p)
        /\ at[p] = Skip + 4 => Receive(p)
    BY <1>1, QueueServerCalls, QueueCalls
  <2>2. Skip = 2 /\ at[p] \in {1, 2} => UnlinkName(p) /\ removed' = removed /\ Unlinks(p, Name(p))
    <3> SUFFICES ASSUME Skip = 2, at[p] \in {1, 2}
                 PROVE UnlinkName(p) /\ removed' = removed /\ Unlinks(p, Name(p))
      OBVIOUS
    <3>1. UnlinkName(p) /\ Name(p) \in Objects
      BY <2>1
    <3> QED
      BY <3>1, UnlinkUnlinks DEF UnlinkName
  <2>3. at[p] = Skip + 1 => Makes(p, "toClient") /\ removed' = removed
    <3> SUFFICES ASSUME at[p] = Skip + 1 PROVE Makes(p, "toClient") /\ removed' = removed
      OBVIOUS
    <3>1. Creat(p) /\ Name(p) = "toClient" /\ Name(p) \in Objects /\ at[p] < Len(Program(p))
      BY <1>0, <2>1
    <3> QED
      BY <3>1, CreatMakes DEF Creat
  <2>4. at[p] = Skip + 2 => Makes(p, "toServer") /\ removed' = removed
    <3> SUFFICES ASSUME at[p] = Skip + 2 PROVE Makes(p, "toServer") /\ removed' = removed
      OBVIOUS
    <3>1. Creat(p) /\ Name(p) = "toServer" /\ Name(p) \in Objects /\ at[p] < Len(Program(p))
      BY <1>0, <2>1
    <3> QED
      BY <3>1, CreatMakes DEF Creat
  <2>5. at[p] \in {Skip + 3, Skip + 4} => UNCHANGED <<handle, bound, removed>>
    BY <2>1 DEF Send, Receive
  <2>6. at[p] \in {Skip + 5, Skip + 6} =>
          /\ Name(p) = (IF at[p] = Skip + 5 THEN "toClient" ELSE "toServer")
          /\ (UnlinkName(p) /\ pair = "posixQueue") \/ (RemoveObject(p) /\ pair = "sysvQueue")
    <3>1. CASE pair = "posixQueue"
      <4>1. Program(p) = PosixQueueServer /\ Skip = 2
        BY <1>1, <3>1 DEF Program, Skip
      <4>2. /\ at[p] = 7 => Program(p)[at[p]] = <<"unlink", "toClient">>
            /\ at[p] = 8 => Program(p)[at[p]] = <<"unlink", "toServer">>
        BY <4>1 DEF PosixQueueServer
      <4>3. /\ at[p] = 7 => UnlinkName(p) /\ Name(p) = "toClient"
            /\ at[p] = 8 => UnlinkName(p) /\ Name(p) = "toServer"
        BY <4>2, OneCall
      <4>4. CASE at[p] = 7
        BY <3>1, <4>1, <4>3, <4>4
      <4>5. CASE at[p] = 8
        BY <3>1, <4>1, <4>3, <4>5
      <4>6. Skip + 5 = 7 /\ Skip + 6 = 8
        BY <4>1
      <4> QED
        BY <4>4, <4>5, <4>6
    <3>2. CASE pair = "sysvQueue"
      <4>1. Program(p) = SysvQueueServer /\ Skip = 0
        BY <1>1, <3>2 DEF Program, Skip
      <4>2. /\ at[p] = 5 => Program(p)[at[p]] = <<"remove", "toClient">>
            /\ at[p] = 6 => Program(p)[at[p]] = <<"remove", "toServer">>
        BY <4>1 DEF SysvQueueServer
      <4>3. /\ at[p] = 5 => RemoveObject(p) /\ Name(p) = "toClient"
            /\ at[p] = 6 => RemoveObject(p) /\ Name(p) = "toServer"
        BY <4>2, OneCall
      <4> QED
        BY <3>2, <4>1, <4>3
    <3> QED
      BY <3>1, <3>2 DEF OverQueues
  <2>7. at[p] = Skip + 5 => Drops(p, "toClient") /\ at'[p] = Skip + 6
    <3> SUFFICES ASSUME at[p] = Skip + 5 PROVE Drops(p, "toClient") /\ at'[p] = Skip + 6
      OBVIOUS
    <3>1. /\ Name(p) = "toClient"
          /\ (UnlinkName(p) /\ pair = "posixQueue") \/ (RemoveObject(p) /\ pair = "sysvQueue")
      BY <2>6
    <3>2. Drops(p, "toClient")
      BY <3>1, DropDrops
    <3>3. Return(p) /\ at[p] < Len(Program(p)) /\ at \in [Procs -> Nat] /\ at[p] + 1 = Skip + 6
      BY <1>0, <2>1, <3>1 DEF UnlinkName, RemoveObject, CommonInv, HandshakeTypes
    <3> QED
      BY <3>2, <3>3 DEF Return
  <2>8. at[p] = Skip + 6 => Drops(p, "toServer") /\ status'[p] # "running" /\ at'[p] = Skip + 6
    <3> SUFFICES ASSUME at[p] = Skip + 6
                 PROVE  Drops(p, "toServer") /\ status'[p] # "running" /\ at'[p] = Skip + 6
      OBVIOUS
    <3>1. /\ Name(p) = "toServer"
          /\ (UnlinkName(p) /\ pair = "posixQueue") \/ (RemoveObject(p) /\ pair = "sysvQueue")
      BY <1>0, <2>6
    <3>2. Drops(p, "toServer")
      BY <3>1, DropDrops
    <3> QED
      BY <2>1, <3>2, LastCall
  <2>9. /\ Skip = 2 /\ at[p] = 1 => Name(p) = "toClient"
        /\ Skip = 2 /\ at[p] = 2 => Name(p) = "toServer"
    BY <2>1
  <2> QED
    BY <1>0, <1>1, <2>1, <2>2, <2>3, <2>4, <2>5, <2>7, <2>8, <2>9
<1>2. CASE p \in Clients
  <2>1. /\ at[p] \in 1 .. 4 /\ Len(Program(p)) = 4
        /\ at[p] = 1 => Open(p) /\ Name(p) = "toClient"
        /\ at[p] = 2 => Open(p) /\ Name(p) = "toServer"
        /\ at[p] = 3 => Receive(p)
        /\ at[p] = 4 => Send(p)
    BY <1>2, QueueClientCalls, QueueCalls
  <2>2. at[p] = 1 => Opens(p, "toClient")
    <3> SUFFICES ASSUME at[p] = 1 PROVE Opens(p, "toClient")
      OBVIOUS
    <3>1. Open(p) /\ Name(p) = "toClient" /\ Name(p) \in Objects /\ at[p] < Len(Program(p))
      BY <2>1
    <3> QED
      BY <3>1, OpenOpens
  <2>3. at[p] = 2 => Opens(p, "toServer")
    <3> SUFFICES ASSUME at[p] = 2 PROVE Opens(p, "toServer")
      OBVIOUS
    <3>1. Open(p) /\ Name(p) = "toServer" /\ Name(p) \in Objects /\ at[p] < Len(Program(p))
      BY <2>1
    <3> QED
      BY <3>1, OpenOpens
  <2>4. at[p] > 2 => UNCHANGED <<handle, bound>>
    BY <2>1 DEF Receive, Send
  <2>5. removed' = removed
    BY <2>1 DEF Open, Receive, Send
  <2> QED
    BY <1>0, <1>2, <2>1, <2>2, <2>3, <2>4, <2>5
<1> QED
  BY <1>1, <1>2 DEF Procs

LEMMA PipesServerStep ==
    ASSUME CommonInv, QueueInv, PipesInv, OverQueues, NEW p \in Servers, Step(p)
    PROVE  PipesInv'
<1> USE Roles
<1>1. /\ \A q \in Procs : q # p => /\ at'[q] = at[q] /\ status'[q] = status[q]
                                   /\ handle'[q] = handle[q]
      /\ p \in Procs /\ status[p] = "running" /\ at[p] \in 1 .. Skip + 6
      /\ at'[p] \in {at[p], at[p] + 1} /\ pair' = pair /\ Skip' = Skip /\ OverQueues'
      /\ Skip \in {0, 2} /\ \A q \in Procs : at[q] \in Nat
  <2>1. p \in Procs /\ Skip' = Skip /\ OverQueues' /\ pair' = pair
    BY OthersStay DEF Skip, OverQueues
  <2>2. \A q \in Procs : at[q] \in Nat
    BY DEF CommonInv, HandshakeTypes
  <2> QED
    BY <2>1, <2>2, OthersStay, PipesCalls
<1>2. /\ \A s \in Servers : /\ at[s] <= Skip + 1 => Unmade(s, "toClient")
                            /\ at[s] <= Skip + 2 => Unmade(s, "toServer")
      /\ PipesServer(p)
      /\ \A o \in {"toClient", "toServer"} : bound[o] # Nobody => <<o, bound[o]>> \notin removed
      /\ pair = "sysvQueue" =>
           \A s \in Servers : at[s] = 6 => <<"toClient", handle[s]["toClient"]>> \in removed
      /\ \A c \in Clients : PipesClient(c)
  BY <1>1 DEF PipesInv, Running
<1>3. \A s \in Servers : s # p => status'[s] # "running" /\ at'[s] = at[s]
  BY <1>1 DEF CommonInv, LivesInv, Running
<1>4. \A c \in Clients : /\ c \in Procs /\ c # p /\ at'[c] = at[c] /\ handle'[c] = handle[c]
                         /\ handle[c]["toServer"] # Nobody => handle[c]["toClient"] \in Servers
  <2>1. \A c \in Clients : /\ at[c] < 3 => handle[c]["toServer"] = Nobody
                           /\ at[c] > 1 => handle[c]["toClient"] \in Servers
    BY <1>2 DEF PipesClient, QueueInv, ClientOpens
  <2> QED
    BY <1>1, <2>1
<1>5. /\ \A o \in {"toClient", "toServer"} : bound[o] \in Servers \cup {Nobody} /\ o \in Objects
      /\ at[p] > Skip + 1 => handle[p]["toClient"] \in Servers
      /\ at[p] > Skip + 2 => handle[p]["toServer"] \in Servers
  <2>1. ServerOpens(p)
    BY DEF QueueInv
  <2> QED
    BY <2>1 DEF ServerOpens, CommonInv, HandshakeTypes, Instances
\* The one call of six.
<1>6. \/ at[p] = 1 /\ Skip = 2 /\ Unlinks(p, "toClient") /\ removed' = removed
      \/ at[p] = 2 /\ Skip = 2 /\ Unlinks(p, "toServer") /\ removed' = removed
      \/ at[p] = Skip + 1 /\ Makes(p, "toClient") /\ removed' = removed
      \/ at[p] = Skip + 2 /\ Makes(p, "toServer") /\ removed' = removed
      \/ at[p] \in {Skip + 3, Skip + 4} /\ UNCHANGED <<handle, bound, removed>>
      \/ at[p] = Skip + 5 /\ Drops(p, "toClient") /\ at'[p] = Skip + 6
      \/ at[p] = Skip + 6 /\ Drops(p, "toServer") /\ status'[p] # "running" /\ at'[p] = Skip + 6
  <2>1. (at[p] \in {1, 2} /\ Skip = 2) \/ at[p] \in Skip + 1 .. Skip + 6
    BY <1>1
  <2> QED
    BY <1>1, <2>1, PipesCalls
<1>7. /\ \A o \in {"toClient", "toServer"} :
           bound'[o] \in {bound[o], Nobody, p} /\ handle'[p][o] \in {handle[p][o], bound'[o]}
      /\ \A x \in removed' : x \in removed \/ \E o : x = <<o, handle[p][o]>>
      /\ removed \subseteq removed'
  <2>1. ASSUME NEW o \in {"toClient", "toServer"}, Unlinks(p, o) \/ Makes(p, o)
        PROVE  \A n \in {"toClient", "toServer"} :
                 bound'[n] \in {bound[n], Nobody, p} /\ handle'[p][n] \in {handle[p][n], bound'[n]}
    BY <1>5, <2>1 DEF Unlinks, Makes
  <2>2. ASSUME NEW o \in {"toClient", "toServer"}, Drops(p, o)
        PROVE  /\ Unlinks(p, o)
               /\ \A x \in removed' : x \in removed \/ x = <<o, handle[p][o]>>
               /\ removed \subseteq removed'
    BY <2>2 DEF Drops
  <2>3. CASE UNCHANGED <<handle, bound, removed>>
    BY <2>3
  <2>4. CASE removed' = removed /\ \E o \in {"toClient", "toServer"} : Unlinks(p, o) \/ Makes(p, o)
    BY <2>1, <2>4
  <2>5. CASE \E o \in {"toClient", "toServer"} : Drops(p, o)
    BY <2>1, <2>2, <2>5
  <2> QED
    BY <1>6, <2>3, <2>4, <2>5
<1>8. ASSUME NEW s \in Servers
      PROVE  /\ at'[s] <= Skip + 1 => Unmade(s, "toClient")'
             /\ at'[s] <= Skip + 2 => Unmade(s, "toServer")'
  <2>1. CASE s # p
    <3>1. ASSUME NEW o \in {"toClient", "toServer"}, Unmade(s, o) PROVE Unmade(s, o)'
      <4>1. bound[o] # s /\ <<o, s>> \notin removed /\ \A q \in Procs : handle[q][o] # s
        BY <3>1 DEF Unmade
      <4>2. bound'[o] # s
        BY <1>7, <2>1, <4>1
      <4>3. <<o, s>> \notin removed'
        BY <1>1, <1>7, <4>1
      <4>4. \A q \in Procs : handle'[q][o] # s
        BY <1>1, <1>7, <4>1, <4>2
      <4> QED
        BY <4>2, <4>3, <4>4 DEF Unmade
    <3> QED
      BY <1>2, <1>3, <2>1, <3>1
  <2>2. CASE s = p
    <3>1. CASE at[p] \in {1, 2} /\ Skip = 2
      <4>1. handle' = handle /\ removed' = removed
            /\ \A o \in {"toClient", "toServer"} : bound'[o] \in {bound[o], Nobody}
        BY <1>1, <1>5, <1>6, <3>1 DEF Unlinks
      <4> QED
        BY <1>1, <1>2, <2>2, <3>1, <4>1 DEF Unmade
    <3>2. CASE at[p] = Skip + 1
      <4>1. Makes(p, "toClient") /\ removed' = removed
        BY <1>1, <1>6, <3>2
      <4>2. at'[p] = Skip + 2 /\ bound'["toServer"] = bound["toServer"]
            /\ handle'[p]["toServer"] = handle[p]["toServer"]
        BY <1>1, <1>5, <3>2, <4>1 DEF Makes
      <4> QED
        BY <1>1, <1>2, <2>2, <3>2, <4>1, <4>2 DEF Unmade
    <3>3. CASE at[p] = Skip + 2
      <4>1. at'[p] = Skip + 3
        BY <1>1, <1>6, <3>3 DEF Makes
      <4> QED
        BY <1>1, <2>2, <4>1
    <3>4. CASE at[p] > Skip + 2
      BY <1>1, <2>2, <3>4
    <3> QED
      BY <1>1, <3>1, <3>2, <3>3, <3>4
  <2> QED
    BY <2>1, <2>2
<1>9. \A o \in {"toClient", "toServer"} : bound'[o] # Nobody => <<o, bound'[o]>> \notin removed'
  <2>1. CASE \E o \in {"toClient", "toServer"} : Unlinks(p, o) /\ removed' = removed
    BY <1>2, <1>5, <2>1 DEF Unlinks
  <2>2. CASE at[p] = Skip + 1 /\ Makes(p, "toClient") /\ removed' = removed
    <3>1. Unmade(p, "toClient")
      BY <1>1, <1>2, <2>2
    <3> QED
      BY <1>2, <1>5, <2>2, <3>1 DEF Makes, Unmade
  <2>3. CASE at[p] = Skip + 2 /\ Makes(p, "toServer") /\ removed' = removed
    <3>1. Unmade(p, "toServer")
      BY <1>1, <1>2, <2>3
    <3> QED
      BY <1>2, <1>5, <2>3, <3>1 DEF Makes, Unmade
  <2>4. CASE UNCHANGED <<handle, bound, removed>>
    BY <1>2, <2>4
  <2>5. CASE \E o \in {"toClient", "toServer"} : Drops(p, o)
    <3>1. PICK o \in {"toClient", "toServer"} : Drops(p, o)
      BY <2>5
    <3>2. /\ bound'[o] = Nobody /\ \A n \in {"toClient", "toServer"} : n # o => bound'[n] = bound[n]
          /\ \A x \in removed' : x \in removed \/ x = <<o, handle[p][o]>>
      BY <1>5, <3>1 DEF Drops, Unlinks
    <3> QED
      BY <1>2, <3>2
  <2> QED
    BY <1>6, <2>1, <2>2, <2>3, <2>4, <2>5
<1>10. ASSUME pair = "sysvQueue", NEW s \in Servers, at'[s] = 6
       PROVE  <<"toClient", handle'[s]["toClient"]>> \in removed'
  <2>1. Skip = 0
    BY <1>10 DEF Skip
  <2>2. CASE s # p
    BY <1>1, <1>2, <1>3, <1>7, <1>10, <2>2
  <2>3. CASE s = p
    <3>1. \/ at[p] = 5 /\ Drops(p, "toClient")
          \/ at[p] = 6 /\ Drops(p, "toServer")
      BY <1>1, <1>6, <1>10, <2>1, <2>3
    <3>2. handle' = handle
      BY <3>1 DEF Drops, Unlinks
    <3>3. CASE at[p] = 5
      BY <1>10, <2>3, <3>1, <3>2, <3>3 DEF Drops
    <3>4. CASE at[p] = 6
      BY <1>2, <1>7, <1>10, <2>3, <3>2, <3>4
    <3> QED
      BY <3>1, <3>3, <3>4
  <2> QED
    BY <2>2, <2>3
<1>11. status'[p] = "running" => PipesServer(p)'
  <2>1. CASE at[p] = 1 /\ Skip = 2 /\ Unlinks(p, "toClient")
    BY <1>1, <1>5, <2>1 DEF PipesServer, Unlinks
  <2>2. CASE at[p] = 2 /\ Skip = 2 /\ Unlinks(p, "toServer")
    BY <1>1, <1>2, <1>5, <2>2 DEF PipesServer, Unlinks
  <2>3. CASE at[p] = Skip + 1 /\ Makes(p, "toClient")
    <3>1. at'[p] = Skip + 2 /\ handle'[p]["toClient"] = bound'["toClient"]
      BY <1>1, <2>3 DEF Makes
    <3>2. ~ (at'[p] = 2 /\ Skip = 2) /\ at'[p] # Skip + 6 /\ at'[p] \notin Skip + 3 .. Skip + 6
      BY <1>1, <3>1
    <3> QED
      BY <1>1, <3>1, <3>2 DEF PipesServer
  <2>4. CASE at[p] = Skip + 2 /\ Makes(p, "toServer")
    <3>1. /\ at'[p] = Skip + 3 /\ handle'[p]["toServer"] = bound'["toServer"]
          /\ bound'["toClient"] = bound["toClient"] /\ handle'[p]["toClient"] = handle[p]["toClient"]
      BY <1>1, <1>5, <2>4 DEF Makes
    <3>2. ~ (at'[p] = 2 /\ Skip = 2) /\ at'[p] # Skip + 6
      BY <1>1, <3>1
    <3>3. bound["toClient"] = handle[p]["toClient"]
      BY <1>1, <1>2, <2>4 DEF PipesServer
    <3> QED
      BY <1>1, <3>1, <3>2, <3>3 DEF PipesServer
  <2>5. CASE at[p] \in {Skip + 3, Skip + 4} /\ UNCHANGED <<handle, bound, removed>>
    <3>1. at'[p] \in Skip + 3 .. Skip + 5 /\ at[p] \in Skip + 3 .. Skip + 5
          /\ ~ (at'[p] = 2 /\ Skip = 2)
      BY <1>1, <2>5
    <3>2. bound["toClient"] = handle[p]["toClient"] /\ bound["toServer"] = handle[p]["toServer"]
      BY <1>1, <1>2, <3>1 DEF PipesServer
    <3> QED
      BY <1>1, <2>5, <3>1, <3>2 DEF PipesServer
  <2>6. CASE at[p] = Skip + 5 /\ Drops(p, "toClient") /\ at'[p] = Skip + 6
    <3>1. bound["toServer"] = handle[p]["toServer"]
      BY <1>1, <1>2, <2>6 DEF PipesServer
    <3>2. bound'["toClient"] = Nobody /\ bound'["toServer"] = bound["toServer"] /\ handle' = handle
      BY <1>5, <2>6 DEF Drops, Unlinks
    <3> QED
      BY <1>1, <2>6, <3>1, <3>2 DEF PipesServer
  <2> QED
    BY <1>6, <2>1, <2>2, <2>3, <2>4, <2>5, <2>6
<1>12. ASSUME NEW c \in Clients PROVE PipesClient(c)'
  <2>1. /\ PipesClient(c) /\ at'[c] = at[c] /\ handle'[c] = handle[c]
        /\ handle[c]["toServer"] # Nobody => handle[c]["toClient"] \in Servers
    BY <1>2, <1>4
  <2>2. CASE Unlinks(p, "toClient")
    BY <2>1, <2>2 DEF PipesClient, Unlinks
  <2>3. CASE Unlinks(p, "toServer") /\ ((at[p] = 2 /\ Skip = 2) \/ at[p] = Skip + 6)
    <3>1. bound["toClient"] = Nobody /\ bound'["toClient"] = bound["toClient"]
      BY <1>2, <1>5, <2>3 DEF PipesServer, Unlinks
    <3> QED
      BY <2>1, <3>1 DEF PipesClient
  <2>4. CASE at[p] = Skip + 1 /\ Makes(p, "toClient")
    <3>0. Unmade(p, "toClient")
      BY <1>1, <1>2, <2>4
    <3>1. handle[c]["toClient"] # p /\ bound'["toClient"] \in {bound["toClient"], p}
          /\ bound'["toServer"] = bound["toServer"]
      BY <1>4, <1>5, <2>4, <3>0 DEF Unmade, Makes
    <3> QED
      BY <2>1, <3>1 DEF PipesClient
  <2>5. CASE Makes(p, "toServer")
    <3>1. (bound["toServer"] = Nobody \/ bound'["toServer"] = bound["toServer"])
          /\ bound'["toClient"] = bound["toClient"]
      BY <1>5, <2>5 DEF Makes
    <3> QED
      BY <2>1, <3>1 DEF PipesClient
  <2>6. CASE bound' = bound
    BY <2>1, <2>6 DEF PipesClient
  <2> QED
    BY <1>6, <2>2, <2>3, <2>4, <2>5, <2>6 DEF Drops
<1>13. \A s \in Servers : status'[s] = "running" => PipesServer(s)'
  BY <1>3, <1>11
<1> QED
  BY <1>1, <1>8, <1>9, <1>10, <1>12, <1>13 DEF PipesInv, Running

LEMMA PipesClientStep ==
    ASSUME CommonInv, QueueInv, PipesInv, OverQueues, NEW p \in Clients, Step(p)
    PROVE  PipesInv'
<1> USE Roles
<1>1. /\ \A q \in Procs : q # p => /\ at'[q] = at[q] /\ status'[q] = status[q]
                                   /\ handle'[q] = handle[q]
      /\ p \in Procs /\ at[p] \in 1 .. 4 /\ at'[p] \in {at[p], at[p] + 1}
      /\ removed' = removed /\ bound' = bound
      /\ \A s \in Servers : s # p /\ s \in Procs
  <2>1. p \in Procs /\ \A s \in Servers : s # p /\ s \in Procs
    OBVIOUS
  <2> QED
    BY <2>1, OthersStay, PipesCalls DEF Opens
<1>2. pair' = pair /\ Skip' = Skip /\ OverQueues'
  BY OthersStay DEF Skip, OverQueues
<1>3. \A o \in {"toClient", "toServer"} : handle'[p][o] \in {handle[p][o], bound[o]} /\ o \in Objects
  BY <1>1, PipesCalls DEF Opens
<1>4. /\ \A s \in Servers : /\ at[s] <= Skip + 1 => Unmade(s, "toClient")
                            /\ at[s] <= Skip + 2 => Unmade(s, "toServer")
      /\ \A s \in Servers : Running(s) => PipesServer(s)
      /\ \A o \in {"toClient", "toServer"} : bound[o] # Nobody => <<o, bound[o]>> \notin removed
      /\ pair = "sysvQueue" =>
           \A s \in Servers : at[s] = 6 => <<"toClient", handle[s]["toClient"]>> \in removed
      /\ \A c \in Clients : PipesClient(c)
  BY DEF PipesInv
<1>5. \A s \in Servers, o \in {"toClient", "toServer"} : Unmade(s, o) => Unmade(s, o)'
  BY <1>1, <1>3 DEF Unmade
<1>6. \A s \in Servers : Running(s)' => PipesServer(s)'
  BY <1>1, <1>2, <1>4 DEF Running, PipesServer
<1>7. ASSUME NEW c \in Clients PROVE PipesClient(c)'
  <2>1. PipesClient(c)
    BY <1>4
  <2>2. CASE c # p
    BY <1>1, <2>1, <2>2 DEF PipesClient
  <2>3. CASE c = p /\ at[p] = 1
    <3>1. Opens(p, "toClient")
      BY <2>3, PipesCalls
    <3>2. handle'[p]["toServer"] = Nobody
      BY <1>3, <2>1, <2>3, <3>1 DEF Opens, PipesClient
    <3> QED
      BY <1>1, <2>1, <2>3, <3>2 DEF PipesClient
  <2>4. CASE c = p /\ at[p] = 2
    <3>1. Opens(p, "toServer")
      BY <2>4, PipesCalls
    <3>2. \/ handle' = handle /\ at'[p] = at[p]
          \/ at'[p] = 3 /\ handle'[p]["toServer"] = bound["toServer"]
      BY <1>3, <2>4, <3>1 DEF Opens
    <3> QED
      BY <1>1, <2>1, <2>4, <3>2 DEF PipesClient
  <2>5. CASE c = p /\ at[p] > 2
    <3>1. handle' = handle /\ at'[p] > 2
      BY <1>1, <2>5, PipesCalls
    <3> QED
      BY <1>1, <2>1, <2>5, <3>1 DEF PipesClient
  <2> QED
    BY <1>1, <2>2, <2>3, <2>4, <2>5
<1>8. /\ \A s \in Servers : /\ at'[s] <= Skip + 1 => Unmade(s, "toClient")'
                            /\ at'[s] <= Skip + 2 => Unmade(s, "toServer")'
      /\ pair = "sysvQueue" =>
           \A s \in Servers : at'[s] = 6 => <<"toClient", handle'[s]["toClient"]>> \in removed'
  BY <1>1, <1>4, <1>5
<1> QED
  BY <1>1, <1>2, <1>4, <1>6, <1>7, <1>8 DEF PipesInv

-----------------------------------------------------------------------------
(* Handshakes, queues: the "Hi!" of a server is in the queue it has opened, or *)
(* a client has taken it; that client can answer, and its answer is found.    *)

Greeted(c, s) ==
    at[c] = 4 /\ at[s] >= Skip + 4 /\ handle[c]["toClient"] = handle[s]["toClient"]

GreetInv == OverQueues =>
    /\ \A s, t \in Servers : s \in Range(content["toClient"][t]) =>
         at[s] >= Skip + 4 /\ handle[s]["toClient"] = t
    /\ \A c \in Clients, s \in Servers : heard[c] = s => Greeted(c, s)
    /\ \A s \in Servers : at[s] >= Skip + 4 =>
         s \in Range(content["toClient"][handle[s]["toClient"]]) \/ \E c \in Clients : heard[c] = s
    /\ \A c \in Clients, s \in Servers : Running(s) /\ at[s] = Skip + 4 /\ heard[c] = s =>
         /\ status[c] # "failed"
         /\ status[c] = "done" => content["toServer"][handle[s]["toServer"]] # << >>
    /\ crashes = 0 => \A p \in Procs : status[p] # "dead"

LEMMA TailRange ==
    ASSUME NEW S, NEW q \in Seq(S), q # << >>
    PROVE  /\ Head(q) \in Range(q)
           /\ \A x \in Range(Tail(q)) : x \in Range(q)
           /\ \A x \in Range(q) : x = Head(q) \/ x \in Range(Tail(q))
<1>1. /\ 1 \in DOMAIN q /\ Head(q) = q[1]
      /\ DOMAIN Tail(q) = 1 .. Len(q) - 1 /\ DOMAIN q = 1 .. Len(q) /\ Len(q) \in Nat
      /\ \A m \in DOMAIN Tail(q) : m + 1 \in DOMAIN q /\ m + 1 # 1 /\ Tail(q)[m] = q[m + 1]
  BY TailFacts, LenProperties
<1>2. ASSUME NEW x \in Range(q), x # Head(q) PROVE x \in Range(Tail(q))
  <2>1. PICK k \in DOMAIN q : q[k] = x
    BY DEF Range
  <2>2. k - 1 \in DOMAIN Tail(q) /\ (k - 1) + 1 = k
    BY <1>1, <1>2, <2>1
  <2>3. Tail(q)[k - 1] = x
    BY <1>1, <2>1, <2>2
  <2> QED
    BY <2>2, <2>3 DEF Range
<1> QED
  BY <1>1, <1>2 DEF Range

LEMMA ServerTexts ==
    ASSUME CommonInv, QueueInv, OverQueues, NEW p \in Servers, Step(p)
    PROVE  /\ status'[p] # "dead" /\ \A c \in Clients : heard'[c] = heard[c]
           /\ \/ at[p] \notin {Skip + 1, Skip + 3} /\ content'["toClient"] = content["toClient"]
              \/ /\ at[p] = Skip + 1
                 /\ \A t \in Servers : \/ content'["toClient"][t] = content["toClient"][t]
                                       \/ t = p /\ content'["toClient"][t] = << >>
              \/ at[p] = Skip + 3 /\ at'[p] = at[p] /\ content' = content
              \/ /\ at[p] = Skip + 3 /\ at'[p] = Skip + 4
                 /\ \A t \in Servers :
                      /\ t # handle[p]["toClient"] => content'["toClient"][t] = content["toClient"][t]
                      /\ t = handle[p]["toClient"] =>
                           /\ p \in Range(content'["toClient"][t])
                           /\ \A x : x \in Range(content["toClient"][t]) =>
                                       x \in Range(content'["toClient"][t])
                           /\ \A x : x \in Range(content'["toClient"][t]) =>
                                       x = p \/ x \in Range(content["toClient"][t])
<1> USE Roles
<1>1. /\ at[p] \in 1 .. Skip + 6 /\ Skip \in {0, 2}
      /\ at[p] <= Skip => UnlinkName(p)
      /\ at[p] = Skip + 1 => Creat(p) /\ Name(p) = "toClient"
      /\ at[p] = Skip + 2 => Creat(p) /\ Name(p) = "toServer"
      /\ at[p] = Skip + 3 => Send(p) /\ Name(p) = "toClient"
      /\ at[p] = Skip + 4 => Receive(p) /\ Name(p) = "toServer"
      /\ at[p] \in {Skip + 5, Skip + 6} => UnlinkName(p) \/ RemoveObject(p)
  BY QueueServerCalls
<1>2. \A c \in Clients : heard'[c] = heard[c] /\ c # p
  BY OthersStay
<1>3. PICK V : content \in [Objects -> [Servers -> V]]
  BY DEF CommonInv, HandshakeTypes
<1>4. ~ (at[p] \in {Skip + 3, Skip + 4}) => Return(p)
  BY <1>1 DEF UnlinkName, RemoveObject, Creat
<1>5. Return(p) \/ Fail(p, "failed") => status'[p] # "dead"
  <2>1. status[p] = "running" /\ status \in [Procs -> Statuses]
    BY OthersStay DEF CommonInv, HandshakeTypes
  <2> QED
    BY <2>1 DEF Return, Fail
<1>6. CASE at[p] \in {Skip + 5, Skip + 6} \/ at[p] <= Skip
  BY <1>1, <1>2, <1>4, <1>5, <1>6 DEF UnlinkName, RemoveObject
<1>7. CASE at[p] = Skip + 1
  <2>1. content' = content \/ content' = [content EXCEPT !["toClient"][p] = << >>]
    BY <1>1, <1>7 DEF Creat, Fresh
  <2>2. \A t \in Servers : \/ content'["toClient"][t] = content["toClient"][t]
                           \/ t = p /\ content'["toClient"][t] = << >>
    BY <1>3, <2>1
  <2> QED
    BY <1>1, <1>2, <1>4, <1>5, <1>7, <2>2
<1>8. CASE at[p] = Skip + 2
  <2>1. content' = content \/ \E t, v : content' = [content EXCEPT !["toServer"][t] = v]
    BY <1>1, <1>8 DEF Creat
  <2>2. content'["toClient"] = content["toClient"]
    BY <2>1, OtherObject
  <2> QED
    BY <1>1, <1>2, <1>4, <1>5, <1>8, <2>2
<1>9. CASE at[p] = Skip + 4
  <2>1. content' = content \/ \E t, v : content' = [content EXCEPT !["toServer"][t] = v]
    BY <1>1, <1>9 DEF Receive, Put
  <2>2. content'["toClient"] = content["toClient"]
    BY <2>1, OtherObject
  <2>3. Return(p) \/ Fail(p, "failed")
    BY <1>1, <1>9 DEF Receive
  <2> QED
    BY <1>1, <1>2, <1>5, <1>9, <2>2, <2>3
<1>10. CASE at[p] = Skip + 3
  <2> DEFINE h == handle[p]["toClient"]
             q == content["toClient"][h]
  <2>1. h \in Servers /\ q \in Seq(Servers)
    <3>1. ServerOpens(p)
      BY DEF QueueInv
    <3> QED
      BY <1>1, <1>10, <3>1 DEF ServerOpens, QueueInv
  <2>2. \/ Fail(p, "failed") /\ content' = content
        \/ Return(p) /\ content' = [content EXCEPT !["toClient"][h] = Append(q, p)]
    BY <1>1, <1>10 DEF Send, Put, Content, Instance
  <2>3. CASE Fail(p, "failed") /\ content' = content
    BY <1>2, <1>5, <1>10, <2>3 DEF Fail
  <2>4. CASE Return(p) /\ content' = [content EXCEPT !["toClient"][h] = Append(q, p)]
    <3>1. at'[p] = Skip + 4
      <4>1. at \in [Procs -> Nat] /\ Len(Program(p)) = Skip + 6
        BY QueueCalls DEF CommonInv, HandshakeTypes
      <4>2. at[p] < Len(Program(p)) /\ at[p] + 1 = Skip + 4
        BY <1>1, <1>10, <4>1
      <4> QED
        BY <1>10, <2>4, <4>1, <4>2 DEF Return
    <3>2. /\ content'["toClient"][h] = Append(q, p)
          /\ \A t \in Servers : t # h => content'["toClient"][t] = content["toClient"][t]
      BY <1>3, <2>1, <2>4
    <3>3. /\ p \in Range(Append(q, p))
          /\ \A x : x \in Range(q) => x \in Range(Append(q, p))
          /\ \A x : x \in Range(Append(q, p)) => x = p \/ x \in Range(q)
      <4>1. Range(Append(q, p)) = Range(q) \cup {p}
        BY <2>1, QueueAppend
      <4> QED
        BY <4>1
    <3> HIDE DEF q, h
    <3>4. \A t \in Servers : t = h =>
            /\ p \in Range(content'["toClient"][t])
            /\ \A x : x \in Range(content["toClient"][t]) => x \in Range(content'["toClient"][t])
            /\ \A x : x \in Range(content'["toClient"][t]) => x = p \/ x \in Range(content["toClient"][t])
      BY <3>2, <3>3 DEF q
    <3> QED
      BY <1>2, <1>5, <1>10, <2>4, <3>1, <3>2, <3>4 DEF h
  <2> QED
    BY <2>2, <2>3, <2>4
<1> QED
  BY <1>1, <1>6, <1>7, <1>8, <1>9, <1>10

LEMMA ClientTexts ==
    ASSUME CommonInv, QueueInv, OverQueues, NEW p \in Clients, Step(p)
    PROVE  /\ status'[p] # "dead"
           /\ \/ at[p] < 3 /\ content' = content /\ heard' = heard /\ status'[p] # "done"
              \/ at[p] = 3 /\ at'[p] = 3 /\ content' = content /\ heard' = heard
              \/ /\ at[p] = 3 /\ at'[p] = 4 /\ status'[p] = "running"
                 /\ content'["toServer"] = content["toServer"]
                 /\ heard'[p] \in Range(content["toClient"][handle[p]["toClient"]])
                 /\ \A t \in Servers :
                      /\ t # handle[p]["toClient"] => content'["toClient"][t] = content["toClient"][t]
                      /\ t = handle[p]["toClient"] =>
                           /\ \A x : x \in Range(content'["toClient"][t]) =>
                                       x \in Range(content["toClient"][t])
                           /\ \A x : x \in Range(content["toClient"][t]) =>
                                       x = heard'[p] \/ x \in Range(content'["toClient"][t])
              \/ /\ at[p] = 4 /\ content' = content /\ heard' = heard /\ status'[p] = "failed"
                 /\ <<"toServer", handle[p]["toServer"]>> \in removed
              \/ /\ at[p] = 4 /\ content'["toClient"] = content["toClient"] /\ heard' = heard
                 /\ status'[p] = "done"
                 /\ \A t \in Servers :
                      content["toServer"][t] # << >> \/ t = handle[p]["toServer"] =>
                          content'["toServer"][t] # << >>
<1> USE Roles
<1>1. /\ at[p] \in 1 .. 4 /\ p \in Procs /\ Len(Program(p)) = 4
      /\ at[p] = 1 => Open(p)
      /\ at[p] = 2 => Open(p)
      /\ at[p] = 3 => Receive(p) /\ Name(p) = "toClient"
      /\ at[p] = 4 => Send(p) /\ Name(p) = "toServer"
  BY QueueClientCalls, QueueCalls
<1>2. /\ status[p] = "running" /\ status \in [Procs -> Statuses] /\ at \in [Procs -> Nat]
      /\ ClientOpens(p)
  BY OthersStay DEF CommonInv, HandshakeTypes, QueueInv
<1>3. PICK V : content \in [Objects -> [Servers -> V]]
  BY DEF CommonInv, HandshakeTypes
<1>4. /\ Fail(p, "failed") => status'[p] = "failed" /\ at' = at
      /\ Return(p) => /\ at[p] < 4 => at'[p] = at[p] + 1 /\ status'[p] = "running"
                      /\ at[p] = 4 => status'[p] = "done"
  <2>1. Fail(p, "failed") => status'[p] = "failed" /\ at' = at
    BY <1>1, <1>2 DEF Fail
  <2>2. ASSUME Return(p), at[p] < 4 PROVE at'[p] = at[p] + 1 /\ status'[p] = "running"
    BY <1>1, <1>2, <2>2 DEF Return
  <2>3. ASSUME Return(p), at[p] = 4 PROVE status'[p] = "done"
    BY <1>1, <1>2, <2>3 DEF Return
  <2> QED
    BY <2>1, <2>2, <2>3
<1>5. CASE at[p] < 3
  <2>1. Open(p)
    BY <1>1, <1>5
  <2>2. content' = content /\ heard' = heard /\ (Return(p) \/ Fail(p, "failed"))
    BY <2>1 DEF Open
  <2> QED
    BY <1>1, <1>4, <1>5, <2>2
<1>6. CASE at[p] = 3
  <2> DEFINE h == handle[p]["toClient"]
             q == content["toClient"][h]
  <2>1. h \in Servers /\ q \in Seq(Servers)
    BY <1>2, <1>6 DEF ClientOpens, QueueInv
  <2>2. \/ Fail(p, "failed") /\ content' = content /\ heard' = heard
        \/ /\ Return(p) /\ content' = [content EXCEPT !["toClient"][h] = Tail(q)] /\ q # << >>
           /\ heard' = [heard EXCEPT ![p] = Head(q)]
    BY <1>1, <1>6 DEF Receive, Put, Content, Instance
  <2>3. CASE Fail(p, "failed") /\ content' = content /\ heard' = heard
    BY <1>4, <1>6, <2>3
  <2>4. CASE /\ Return(p) /\ content' = [content EXCEPT !["toClient"][h] = Tail(q)] /\ q # << >>
             /\ heard' = [heard EXCEPT ![p] = Head(q)]
    <3>1. /\ content'["toClient"][h] = Tail(q) /\ content'["toServer"] = content["toServer"]
          /\ \A t \in Servers : t # h => content'["toClient"][t] = content["toClient"][t]
      BY <1>3, <2>1, <2>4
    <3>2. heard'[p] = Head(q)
      <4>1. PICK W : heard \in [Procs -> W]
        BY DEF CommonInv, HandshakeTypes
      <4> QED
        BY <1>1, <2>4, <4>1
    <3>3. /\ Head(q) \in Range(q)
          /\ \A x : x \in Range(Tail(q)) => x \in Range(q)
          /\ \A x : x \in Range(q) => x = Head(q) \/ x \in Range(Tail(q))
      <4>1. q \in Seq(Servers) /\ q # << >>
        BY <2>1, <2>4
      <4> HIDE DEF q
      <4> QED
        BY <4>1, TailRange
    <3>4. at'[p] = 4 /\ status'[p] = "running"
      BY <1>4, <1>6, <2>4
    <3> HIDE DEF q, h
    <3>5. \A t \in Servers : t = h =>
            /\ \A x : x \in Range(content'["toClient"][t]) => x \in Range(content["toClient"][t])
            /\ \A x : x \in Range(content["toClient"][t]) =>
                        x = heard'[p] \/ x \in Range(content'["toClient"][t])
      BY <3>1, <3>2, <3>3 DEF q
    <3>6. heard'[p] \in Range(content["toClient"][h])
      BY <3>2, <3>3 DEF q
    <3> QED
      BY <1>6, <3>1, <3>4, <3>5, <3>6 DEF h
  <2> QED
    BY <2>2, <2>3, <2>4
<1>7. CASE at[p] = 4
  <2> DEFINE h == handle[p]["toServer"]
             q == content["toServer"][h]
  <2>1. h \in Servers /\ q \in Seq(Clients)
    BY <1>2, <1>7 DEF ClientOpens, QueueInv
  <2>2. \/ Fail(p, "failed") /\ content' = content /\ heard' = heard /\ <<"toServer", h>> \in removed
        \/ Return(p) /\ content' = [content EXCEPT !["toServer"][h] = Append(q, p)] /\ heard' = heard
    BY <1>1, <1>7 DEF Send, Put, Content, Instance, IsRemoved
  <2>3. CASE Fail(p, "failed") /\ content' = content /\ heard' = heard /\ <<"toServer", h>> \in removed
    BY <1>4, <1>7, <2>3
  <2>4. CASE Return(p) /\ content' = [content EXCEPT !["toServer"][h] = Append(q, p)] /\ heard' = heard
    <3>1. /\ content'["toServer"][h] = Append(q, p) /\ content'["toClient"] = content["toClient"]
          /\ \A t \in Servers : t # h => content'["toServer"][t] = content["toServer"][t]
      BY <1>3, <2>1, <2>4
    <3>2. Append(q, p) # << >>
      BY <2>1, AppendRange
    <3>3. status'[p] = "done"
      BY <1>4, <1>7, <2>4
    <3> HIDE DEF q, h
    <3>4. \A t \in Servers : content["toServer"][t] # << >> \/ t = h => content'["toServer"][t] # << >>
      BY <3>1, <3>2
    <3> QED
      BY <1>7, <2>4, <3>1, <3>3, <3>4 DEF h
  <2> QED
    BY <2>2, <2>3, <2>4
<1> QED
  BY <1>1, <1>5, <1>6, <1>7

LEMMA GreetServerStep ==
    ASSUME CommonInv, QueueInv, PipesInv, GreetInv, OverQueues, NEW p \in Servers, Step(p)
    PROVE  GreetInv'
<1> USE Roles
<1>1. /\ \A q \in Procs : q # p => /\ at'[q] = at[q] /\ status'[q] = status[q]
                                   /\ handle'[q] = handle[q]
      /\ p \in Procs /\ status[p] = "running" /\ crashes' = crashes
      /\ at'[p] = at[p] + 1 \/ (at'[p] = at[p] /\ status'[p] # "running")
      /\ Skip' = Skip /\ OverQueues' /\ Skip \in {0, 2} /\ \A q \in Procs : at[q] \in Nat
      /\ \A c \in Clients : c # p
      /\ \A s \in Servers : s # p => status'[s] # "running"
  <2>1. p \in Procs /\ Skip' = Skip /\ OverQueues' /\ Skip \in {0, 2}
    BY OthersStay DEF Skip, OverQueues
  <2>2. \A q \in Procs : at[q] \in Nat
    BY DEF CommonInv, HandshakeTypes
  <2>3. \A c \in Clients : c # p
    OBVIOUS
  <2>4. \A s \in Servers : s # p => status[s] # "running"
    BY OthersStay DEF CommonInv, LivesInv, Running
  <2> QED
    BY <2>1, <2>2, <2>3, <2>4, OthersStay
<1>2. /\ \A s, t \in Servers : s \in Range(content["toClient"][t]) =>
           at[s] >= Skip + 4 /\ handle[s]["toClient"] = t
      /\ \A c \in Clients, s \in Servers : heard[c] = s => Greeted(c, s)
      /\ \A s \in Servers : at[s] >= Skip + 4 =>
           s \in Range(content["toClient"][handle[s]["toClient"]]) \/ \E c \in Clients : heard[c] = s
      /\ crashes = 0 => \A q \in Procs : status[q] # "dead"
  BY DEF GreetInv
<1>3. /\ at[p] > Skip + 1 => handle'[p]["toClient"] = handle[p]["toClient"]
      /\ at[p] \in 1 .. Skip + 6
      /\ \A s \in Servers : at[s] >= Skip + 4 => handle[s]["toClient"] \in Servers
  <2>1. /\ at[p] \in 1 .. Skip + 6
        /\ at[p] = Skip + 2 => Makes(p, "toServer")
        /\ at[p] \in {Skip + 3, Skip + 4} => UNCHANGED <<handle, bound, removed>>
        /\ at[p] = Skip + 5 => Drops(p, "toClient")
        /\ at[p] = Skip + 6 => Drops(p, "toServer")
    BY PipesCalls
  <2>2. Makes(p, "toServer") => handle'[p]["toClient"] = handle[p]["toClient"]
    BY DEF Makes
  <2>3. \A o : Drops(p, o) => handle' = handle
    BY DEF Drops, Unlinks
  <2>4. at[p] > Skip + 1 => at[p] \in {Skip + 2, Skip + 3, Skip + 4, Skip + 5, Skip + 6}
    BY <1>1, <2>1
  <2>5. \A s \in Servers : at[s] >= Skip + 4 => handle[s]["toClient"] \in Servers
    BY <1>1 DEF QueueInv, ServerOpens
  <2> QED
    BY <2>1, <2>2, <2>3, <2>4, <2>5
<1>4. \A s \in Servers : at[s] >= Skip + 4 =>
        at'[s] >= Skip + 4 /\ handle'[s]["toClient"] = handle[s]["toClient"]
  BY <1>1, <1>3
<1>5. \A c \in Clients : heard'[c] = heard[c] /\ at'[c] = at[c] /\ handle'[c] = handle[c]
  BY <1>1, ServerTexts
<1>6. \A c \in Clients, s \in Servers : heard'[c] = s => Greeted(c, s)'
  BY <1>1, <1>2, <1>4, <1>5 DEF Greeted
<1>7. /\ \A s, t \in Servers : s \in Range(content'["toClient"][t]) =>
           at'[s] >= Skip + 4 /\ handle'[s]["toClient"] = t
      /\ \A s \in Servers : at'[s] >= Skip + 4 =>
           s \in Range(content'["toClient"][handle'[s]["toClient"]]) \/ \E c \in Clients : heard'[c] = s
  <2>1. CASE at[p] \notin {Skip + 1, Skip + 3} /\ content'["toClient"] = content["toClient"]
    <3>1. \A s \in Servers : at'[s] >= Skip + 4 => at[s] >= Skip + 4
      BY <1>1, <2>1
    <3> QED
      BY <1>2, <1>4, <1>5, <2>1, <3>1
  <2>2. CASE /\ at[p] = Skip + 1
             /\ \A t \in Servers : \/ content'["toClient"][t] = content["toClient"][t]
                                   \/ t = p /\ content'["toClient"][t] = << >>
    <3>1. \A s \in Servers : at'[s] >= Skip + 4 => at[s] >= Skip + 4 /\ s # p
      BY <1>1, <2>2
    <3>2. \A s \in Servers : s # p => handle[s]["toClient"] # p
      <4>1. at[p] <= Skip + 1
        BY <1>1, <2>2
      <4>2. Unmade(p, "toClient")
        BY <4>1 DEF PipesInv
      <4> QED
        BY <4>2 DEF Unmade
    <3>3. Range(<< >>) = {}
      BY DEF Range
    <3> QED
      BY <1>2, <1>3, <1>4, <1>5, <2>2, <3>1, <3>2, <3>3
  <2>3. CASE at[p] = Skip + 3 /\ at'[p] = at[p] /\ content' = content
    <3>1. \A s \in Servers : at'[s] >= Skip + 4 => at[s] >= Skip + 4
      BY <1>1, <2>3
    <3> QED
      BY <1>2, <1>4, <1>5, <2>3, <3>1
  <2>4. CASE /\ at[p] = Skip + 3 /\ at'[p] = Skip + 4
             /\ \A t \in Servers :
                  /\ t # handle[p]["toClient"] => content'["toClient"][t] = content["toClient"][t]
                  /\ t = handle[p]["toClient"] =>
                       /\ p \in Range(content'["toClient"][t])
                       /\ \A x : x \in Range(content["toClient"][t]) =>
                                   x \in Range(content'["toClient"][t])
                       /\ \A x : x \in Range(content'["toClient"][t]) =>
                                   x = p \/ x \in Range(content["toClient"][t])
    <3>1. /\ \A s \in Servers : at'[s] >= Skip + 4 => at[s] >= Skip + 4 \/ s = p
          /\ at'[p] >= Skip + 4 /\ handle'[p]["toClient"] = handle[p]["toClient"]
      BY <1>1, <1>3, <2>4
    <3>2. handle[p]["toClient"] \in Servers
      BY <1>1, <2>4 DEF QueueInv, ServerOpens
    <3>3. ASSUME NEW s \in Servers, NEW t \in Servers, s \in Range(content'["toClient"][t])
          PROVE  at'[s] >= Skip + 4 /\ handle'[s]["toClient"] = t
      <4>1. s \in Range(content["toClient"][t]) \/ (s = p /\ t = handle[p]["toClient"])
        BY <2>4, <3>3
      <4> QED
        BY <1>2, <1>4, <3>1, <4>1
    <3>4. ASSUME NEW s \in Servers, at'[s] >= Skip + 4
          PROVE  s \in Range(content'["toClient"][handle'[s]["toClient"]]) \/ \E c \in Clients : heard'[c] = s
      <4>1. CASE s = p
        BY <2>4, <3>1, <3>2, <4>1
      <4>2. CASE at[s] >= Skip + 4
        BY <1>2, <1>3, <1>4, <1>5, <2>4, <4>2
      <4> QED
        BY <3>1, <3>4, <4>1, <4>2
    <3> QED
      BY <3>3, <3>4
  <2> QED
    BY <2>1, <2>2, <2>3, <2>4, ServerTexts
\* It would have to be p, which leaves this call.
<1>8. \A c \in Clients, s \in Servers : ~ (status'[s] = "running" /\ at'[s] = Skip + 4 /\ heard'[c] = s)
  <2> SUFFICES ASSUME NEW c \in Clients, NEW s \in Servers,
                      status'[s] = "running", at'[s] = Skip + 4, heard'[c] = s
               PROVE  FALSE
    OBVIOUS
  <2>1. s = p
    BY <1>1
  <2>2. at[p] >= Skip + 4
    BY <1>2, <1>5, <2>1 DEF Greeted
  <2> QED
    BY <1>1, <2>1, <2>2
<1>9. crashes' = 0 => \A q \in Procs : status'[q] # "dead"
  BY <1>1, <1>2, ServerTexts
<1> QED
  BY <1>1, <1>6, <1>7, <1>8, <1>9 DEF GreetInv, Running

LEMMA GreetClientStep ==
    ASSUME CommonInv, QueueInv, PipesInv, GreetInv, OverQueues, NEW p \in Clients, Step(p)
    PROVE  GreetInv'
<1> USE Roles
<1>1. /\ \A q \in Procs : q # p => /\ at'[q] = at[q] /\ status'[q] = status[q]
                                   /\ handle'[q] = handle[q] /\ heard'[q] = heard[q]
      /\ p \in Procs /\ status[p] = "running" /\ crashes' = crashes
      /\ at[p] \in 1 .. 4 /\ (at[p] = 4 => at'[p] = 4) /\ (at[p] > 2 => handle' = handle)
      /\ Skip' = Skip /\ OverQueues'
  <2>1. p \in Procs /\ Skip' = Skip /\ OverQueues'
    BY OthersStay DEF Skip, OverQueues
  <2>2. at[p] = 4 => at'[p] = 4
    BY <2>1, LastCall, QueueCalls
  <2> QED
    BY <2>1, <2>2, OthersStay, PipesCalls
<1>2. /\ \A s, t \in Servers : s \in Range(content["toClient"][t]) =>
           at[s] >= Skip + 4 /\ handle[s]["toClient"] = t
      /\ \A c \in Clients, s \in Servers : heard[c] = s => Greeted(c, s)
      /\ \A s \in Servers : at[s] >= Skip + 4 =>
           s \in Range(content["toClient"][handle[s]["toClient"]]) \/ \E c \in Clients : heard[c] = s
      /\ \A c \in Clients, s \in Servers : status[s] = "running" /\ at[s] = Skip + 4 /\ heard[c] = s =>
           /\ status[c] # "failed"
           /\ status[c] = "done" => content["toServer"][handle[s]["toServer"]] # << >>
      /\ crashes = 0 => \A q \in Procs : status[q] # "dead"
  BY DEF GreetInv, Running
<1>3. \A s \in Servers : at'[s] = at[s] /\ status'[s] = status[s] /\ handle'[s] = handle[s]
  <2>1. \A s \in Servers : s \in Procs /\ s # p
    OBVIOUS
  <2> QED
    BY <1>1, <2>1
<1>4. \A s \in Servers : heard[p] = s => at[p] = 4
  BY <1>2 DEF Greeted
\* What p does to the texts.
<1>5. /\ \A s, t \in Servers : s \in Range(content'["toClient"][t]) => s \in Range(content["toClient"][t])
      /\ \A s, t \in Servers : s \in Range(content["toClient"][t]) =>
           s \in Range(content'["toClient"][t]) \/ heard'[p] = s
      /\ heard'[p] = heard[p] \/ /\ at[p] = 3 /\ at'[p] = 4 /\ status'[p] = "running"
                                 /\ heard'[p] \in Range(content["toClient"][handle[p]["toClient"]])
      /\ \A t \in Servers : content["toServer"][t] # << >> => content'["toServer"][t] # << >>
  <2>1. CASE content' = content /\ heard' = heard
    BY <2>1
  <2>2. CASE /\ at[p] = 3 /\ at'[p] = 4 /\ status'[p] = "running"
             /\ content'["toServer"] = content["toServer"]
             /\ heard'[p] \in Range(content["toClient"][handle[p]["toClient"]])
             /\ \A t \in Servers :
                  /\ t # handle[p]["toClient"] => content'["toClient"][t] = content["toClient"][t]
                  /\ t = handle[p]["toClient"] =>
                       /\ \A x : x \in Range(content'["toClient"][t]) =>
                                   x \in Range(content["toClient"][t])
                       /\ \A x : x \in Range(content["toClient"][t]) =>
                                   x = heard'[p] \/ x \in Range(content'["toClient"][t])
    <3>1. ASSUME NEW t \in Servers
          PROVE  /\ \A x : x \in Range(content'["toClient"][t]) => x \in Range(content["toClient"][t])
                 /\ \A x : x \in Range(content["toClient"][t]) =>
                             x = heard'[p] \/ x \in Range(content'["toClient"][t])
      BY <2>2
    <3> QED
      BY <2>2, <3>1
  <2>3. CASE /\ content'["toClient"] = content["toClient"] /\ heard' = heard
             /\ \A t \in Servers :
                  content["toServer"][t] # << >> \/ t = handle[p]["toServer"] =>
                      content'["toServer"][t] # << >>
    BY <2>3
  <2> QED
    BY <2>1, <2>2, <2>3, ClientTexts
<1>6. \A s, t \in Servers : s \in Range(content'["toClient"][t]) =>
        at'[s] >= Skip + 4 /\ handle'[s]["toClient"] = t
  BY <1>2, <1>3, <1>5
<1>7. ASSUME NEW c \in Clients, NEW s \in Servers, heard'[c] = s PROVE Greeted(c, s)'
  <2>1. CASE c # p
    <3>1. Greeted(c, s) /\ c \in Procs
      BY <1>1, <1>2, <1>7, <2>1
    <3> QED
      BY <1>1, <1>3, <2>1, <3>1 DEF Greeted
  <2>2. CASE c = p /\ heard'[p] = heard[p]
    BY <1>1, <1>2, <1>3, <1>4, <1>7, <2>2 DEF Greeted
  <2>3. CASE c = p /\ heard'[p] # heard[p]
    <3>1. at[p] = 3 /\ at'[p] = 4 /\ s \in Range(content["toClient"][handle[p]["toClient"]])
      BY <1>5, <1>7, <2>3
    <3>2. handle[p]["toClient"] \in Servers
      BY <3>1 DEF QueueInv, ClientOpens
    <3>3. at[s] >= Skip + 4 /\ handle[s]["toClient"] = handle[p]["toClient"]
      BY <1>2, <3>1, <3>2
    <3> QED
      BY <1>1, <1>3, <2>3, <3>1, <3>3 DEF Greeted
  <2> QED
    BY <2>1, <2>2, <2>3
<1>8. ASSUME NEW s \in Servers, at[s] >= Skip + 4
      PROVE  s \in Range(content'["toClient"][handle[s]["toClient"]]) \/ \E c \in Clients : heard'[c] = s
  <2>1. handle[s]["toClient"] \in Servers
    <3>1. at[s] \in Nat /\ Skip \in {0, 2}
      BY DEF CommonInv, HandshakeTypes, Skip
    <3> QED
      BY <1>8, <3>1 DEF QueueInv, ServerOpens
  <2>2. CASE s \in Range(content["toClient"][handle[s]["toClient"]])
    BY <1>5, <2>1, <2>2
  <2>3. ASSUME NEW c \in Clients, heard[c] = s PROVE heard'[c] = s
    BY <1>1, <1>4, <1>5, <2>3
  <2> QED
    BY <1>2, <1>8, <2>2, <2>3
<1>9. ASSUME NEW c \in Clients, NEW s \in Servers, status[s] = "running", at[s] = Skip + 4, heard'[c] = s
      PROVE  /\ status'[c] # "failed"
             /\ status'[c] = "done" => content'["toServer"][handle[s]["toServer"]] # << >>
  <2>1. handle[s]["toServer"] \in Servers /\ PipesServer(s)
    <3>1. at[s] > Skip + 2
      BY <1>9 DEF Skip
    <3> QED
      BY <1>9, <3>1 DEF QueueInv, ServerOpens, PipesInv, Running
  <2>2. CASE c # p
    BY <1>1, <1>2, <1>5, <1>9, <2>1, <2>2
  <2>3. CASE c = p /\ heard'[p] = heard[p]
    <3>1. Greeted(p, s) /\ at[p] = 4
      BY <1>2, <1>9, <2>3 DEF Greeted
    <3>2. handle[p]["toServer"] \in Servers /\ handle[p]["toServer"] # Nobody /\ PipesClient(p)
      BY <3>1 DEF QueueInv, ClientOpens, PipesInv
    <3>3. /\ bound["toClient"] = handle[s]["toClient"] /\ bound["toServer"] = handle[s]["toServer"]
      <4>1. at[s] \in Skip + 2 .. Skip + 5 /\ at[s] \in Skip + 3 .. Skip + 6
        BY <1>9 DEF Skip
      <4> QED
        BY <2>1, <4>1 DEF PipesServer
    <3>4. handle[p]["toServer"] = handle[s]["toServer"] /\ handle[p]["toServer"] = bound["toServer"]
      BY <3>1, <3>2, <3>3 DEF Greeted, PipesClient
    <3>5. <<"toServer", handle[p]["toServer"]>> \notin removed
      BY <3>2, <3>4 DEF PipesInv
    <3>6. /\ status'[p] = "done"
          /\ \A t \in Servers : content["toServer"][t] # << >> \/ t = handle[p]["toServer"] =>
                                    content'["toServer"][t] # << >>
      BY <3>1, <3>5, ClientTexts
    <3> QED
      BY <2>1, <2>3, <3>4, <3>6
  <2>4. CASE c = p /\ heard'[p] # heard[p]
    BY <1>5, <2>4
  <2> QED
    BY <2>2, <2>3, <2>4
<1>10. crashes' = 0 => \A q \in Procs : status'[q] # "dead"
  <2>1. status'[p] # "dead"
    BY ClientTexts
  <2> QED
    BY <1>1, <1>2, <2>1
<1> QED
  BY <1>1, <1>3, <1>6, <1>7, <1>8, <1>9, <1>10 DEF GreetInv, Running

QueueWaits == PipesInv /\ GreetInv

LEMMA QueueWaitsInitial == HandshakesInit => QueueWaits
<1> SUFFICES ASSUME HandshakesInit PROVE QueueWaits
  OBVIOUS
<1>1. /\ \A p \in Procs : status[p] = "unborn" /\ at[p] = 1 /\ heard[p] = Nobody
      /\ \A p \in Procs, o \in Objects : handle[p][o] = Nobody
      /\ \A o \in Objects : bound[o] = Nobody
      /\ \A o \in Objects, s \in Servers : content[o][s] = << >>
      /\ removed = {} /\ Skip \in {0, 2}
  BY Roles DEF HandshakesInit, Skip
<1>2. /\ \A s \in Servers : s \in Procs /\ s # Nobody
      /\ \A c \in Clients : c \in Procs
  BY Roles
<1>3. PipesInv
  BY <1>1, <1>2, Roles DEF PipesInv, PipesClient, Unmade, Running
<1>4. GreetInv
  <2>1. \A t \in Servers : Range(content["toClient"][t]) = {}
    BY <1>1, Roles DEF Range
  <2>2. \A s \in Servers : ~ (at[s] >= Skip + 4)
    <3>1. ~ (1 >= Skip + 4)
      BY DEF Skip
    <3>2. \A s \in Servers : at[s] = 1
      BY <1>1, <1>2
    <3> QED
      BY <3>1, <3>2
  <2> QED
    BY <1>1, <1>2, <2>1, <2>2 DEF GreetInv, Running
<1> QED
  BY <1>3, <1>4 DEF QueueWaits

LEMMA QueueWaitsStep ==
    ASSUME CommonInv, UnbornInv, QueueInv, QueueWaits, [HandshakesNext]_handshakeVars
    PROVE  QueueWaits'
<1>1. ASSUME NEW p \in Procs, Step(p) PROVE QueueWaits'
  <2>1. CASE OverQueues
    <3>1. CASE p \in Servers
      BY <1>1, <2>1, <3>1, PipesServerStep, GreetServerStep DEF QueueWaits
    <3>2. CASE p \in Clients
      BY <1>1, <2>1, <3>2, PipesClientStep, GreetClientStep DEF QueueWaits
    <3> QED
      BY <3>1, <3>2 DEF Procs
  <2>2. CASE ~ OverQueues
    <3>1. pair' = pair
      BY <1>1, OthersStay
    <3> QED
      BY <2>2, <3>1 DEF QueueWaits, PipesInv, GreetInv, OverQueues
  <2> QED
    BY <2>1, <2>2
<1>2. CASE Rests
  <2>1. /\ UNCHANGED <<pair, at, bound, handle, content, removed, heard>>
        /\ Skip' = Skip /\ OverQueues' = OverQueues /\ Skip \in {0, 2}
    BY <1>2 DEF Rests, Skip, OverQueues
  <2>2. /\ \A p \in Procs : status'[p] = "running" => status[p] = "running" \/ at[p] = 1
        /\ \A p \in Procs : status'[p] \in {"done", "failed"} => status'[p] = status[p]
        /\ crashes' = 0 => \A p \in Procs : status'[p] = "dead" => status[p] = "dead" /\ crashes = 0
        /\ \A s \in Servers : s \in Procs /\ \A c \in Clients : c \in Procs
    BY <1>2, Roles DEF Rests, UnbornInv
  <2>3. PipesInv'
    <3>1. \A s, o : Unmade(s, o)' <=> Unmade(s, o)
      BY <2>1 DEF Unmade
    <3>2. \A s \in Servers : PipesServer(s)' <=> PipesServer(s)
      BY <2>1 DEF PipesServer
    <3>3. \A c \in Clients : PipesClient(c)' <=> PipesClient(c)
      BY <2>1 DEF PipesClient
    <3>4. ASSUME NEW s \in Servers, OverQueues, status'[s] = "running" PROVE PipesServer(s)
      <4>1. CASE status[s] = "running"
        BY <3>4, <4>1 DEF QueueWaits, PipesInv, Running
      <4>2. CASE at[s] = 1
        BY <2>1, <4>2 DEF PipesServer
      <4> QED
        BY <2>2, <3>4, <4>1, <4>2
    <3> QED
      BY <2>1, <3>1, <3>2, <3>3, <3>4 DEF QueueWaits, PipesInv, Running
  <2>4. GreetInv'
    <3> SUFFICES ASSUME OverQueues PROVE GreetInv'
      BY <2>1 DEF GreetInv
    <3>1. \A c \in Clients, s \in Servers : Greeted(c, s)' <=> Greeted(c, s)
      BY <2>1 DEF Greeted
    <3>2. ASSUME NEW c \in Clients, NEW s \in Servers, status'[s] = "running", at[s] = Skip + 4, heard[c] = s
          PROVE  /\ status'[c] # "failed"
                 /\ status'[c] = "done" => content["toServer"][handle[s]["toServer"]] # << >>
      <4>1. status[s] = "running"
        BY <2>1, <2>2, <3>2
      <4>2. /\ status[c] # "failed"
            /\ status[c] = "done" => content["toServer"][handle[s]["toServer"]] # << >>
        BY <3>2, <4>1 DEF QueueWaits, GreetInv, Running
      <4> QED
        BY <2>2, <4>2
    <3>3. crashes' = 0 => \A p \in Procs : status'[p] # "dead"
      BY <2>2 DEF QueueWaits, GreetInv
    <3> QED
      BY <2>1, <3>1, <3>2, <3>3 DEF QueueWaits, GreetInv, Running
  <2> QED
    BY <2>3, <2>4 DEF QueueWaits
<1> QED
  BY <1>1, <1>2, StepOrRests

LEMMA QueueWaitsMeaning ==
    ASSUME CommonInv, UnbornInv, QueuesInv, QueueWaits, OverQueues, Quiet
    PROVE  /\ \A s \in Servers, c \in Clients : Running(s) =>
                /\ ~ (heard[c] = s /\ status[c] = "done")
                /\ WaitsOnObjectOf(c, s) => \E d \in Clients : heard[d] = s /\ status[d] = "dead"
           /\ crashes = 0 => \A c \in Clients : Running(c) =>
                /\ status[Instance(c)] = "done"
                /\ \E d \in Clients \ {c} : heard[d] = Instance(c)
                /\ pair # "sysvQueue"
<1> USE Roles
<1>0. Skip \in {0, 2} /\ \A p \in Procs : at[p] \in 1 .. Len(Program(p)) /\ status[p] \in Statuses
  BY DEF Skip, CommonInv, HandshakeTypes
<1>1. ASSUME NEW s \in Servers, Running(s)
      PROVE  at[s] = Skip + 4 /\ content["toServer"][handle[s]["toServer"]] = << >>
  <2>1. at[s] \in 1 .. Skip + 6 /\ Blocked(s)
    BY <1>0, <1>1, QueueCalls DEF Quiet
  <2>2. at[s] # Skip + 4 => Program(s)[at[s]][1] \notin {"meet", "receive", "read", "poll", "wait"}
    <3>1. CASE pair = "posixQueue"
      BY <2>1, <3>1 DEF Program, PosixQueueServer, Skip
    <3>2. CASE pair = "sysvQueue"
      BY <2>1, <3>2 DEF Program, SysvQueueServer, Skip
    <3> QED
      BY <3>1, <3>2 DEF OverQueues
  <2>3. at[s] = Skip + 4
    BY <2>1, <2>2 DEF Blocked, Calls
  <2>4. Program(s)[at[s]] = <<"receive", "toServer">>
    BY <2>3, QueueCalls
  <2>5. Name(s) = "toServer" /\ Calls(s, "receive") /\ \A x : Calls(s, x) => x = "receive"
    BY <1>1, <2>4, CallsAt
  <2> QED
    BY <2>1, <2>3, <2>5 DEF Blocked, Content, Instance
<1>2. ASSUME NEW c \in Clients, Running(c)
      PROVE  /\ at[c] = 3 /\ Name(c) = "toClient" /\ Instance(c) = handle[c]["toClient"]
             /\ content["toClient"][handle[c]["toClient"]] = << >>
             /\ <<"toClient", handle[c]["toClient"]>> \notin removed
  <2>1. at[c] \in 1 .. 4 /\ Blocked(c)
    BY <1>0, <1>2, QueueCalls DEF Quiet
  <2>2. at[c] # 3 => Program(c)[at[c]][1] \notin {"meet", "receive", "read", "poll", "wait"}
    <3>1. at[c] # 3 => Program(c)[at[c]][1] \in {"open", "send"}
      BY <2>1, QueueCalls
    <3> QED
      BY <3>1
  <2>3. at[c] = 3
    BY <2>1, <2>2 DEF Blocked, Calls
  <2>4. Program(c)[at[c]] = <<"receive", "toClient">>
    BY <2>3, QueueCalls
  <2>5. Name(c) = "toClient" /\ Calls(c, "receive") /\ \A x : Calls(c, x) => x = "receive"
    BY <1>2, <2>4, CallsAt
  <2> QED
    BY <2>1, <2>3, <2>5 DEF Blocked, Content, Instance, IsRemoved
<1>3. /\ \A c \in Clients, s \in Servers : heard[c] = s => Greeted(c, s)
      /\ \A s \in Servers : at[s] >= Skip + 4 =>
           s \in Range(content["toClient"][handle[s]["toClient"]]) \/ \E c \in Clients : heard[c] = s
      /\ \A c \in Clients, s \in Servers : Running(s) /\ at[s] = Skip + 4 /\ heard[c] = s =>
           /\ status[c] # "failed"
           /\ status[c] = "done" => content["toServer"][handle[s]["toServer"]] # << >>
      /\ crashes = 0 => \A p \in Procs : status[p] # "dead"
  BY DEF QueueWaits, GreetInv
<1>4. ASSUME NEW s \in Servers, NEW c \in Clients, Running(s), heard[c] = s, status[c] = "done"
      PROVE  FALSE
  BY <1>1, <1>3, <1>4
\* The text a client waits for in vain has been taken by another one.
<1>5. ASSUME NEW s \in Servers, at[s] >= Skip + 4, content["toClient"][handle[s]["toClient"]] = << >>
      PROVE  \E d \in Clients : heard[d] = s /\ at[d] = 4
  <2>1. Range(<< >>) = {}
    BY DEF Range
  <2> QED
    BY <1>3, <1>5, <2>1 DEF Greeted
<1>6. ASSUME NEW s \in Servers, NEW c \in Clients, Running(s), WaitsOnObjectOf(c, s)
      PROVE  \E d \in Clients : heard[d] = s /\ status[d] = "dead"
  <2>1. Running(c) /\ handle[s]["toClient"] = handle[c]["toClient"]
    BY <1>2, <1>6 DEF WaitsOnObjectOf
  <2>2. at[s] = Skip + 4
    BY <1>1, <1>6
  <2>3. at[s] >= Skip + 4 /\ content["toClient"][handle[s]["toClient"]] = << >>
    <3>1. content["toClient"][handle[c]["toClient"]] = << >>
      BY <1>2, <2>1
    <3>2. Skip + 4 >= Skip + 4
      BY <1>0
    <3> QED
      BY <2>1, <2>2, <3>1, <3>2
  <2>4. PICK d \in Clients : heard[d] = s /\ at[d] = 4
    BY <1>5, <2>3
  <2>5. status[d] # "running" /\ status[d] # "unborn" /\ status[d] # "failed" /\ status[d] # "done"
    <3>1. status[d] # "running"
      <4>1. Running(d) => at[d] = 3
        BY <1>2
      <4> QED
        BY <2>4, <4>1 DEF Running
    <3>2. status[d] # "unborn"
      BY <2>4 DEF UnbornInv
    <3>3. status[d] # "failed" /\ status[d] # "done"
      BY <1>3, <1>4, <1>6, <2>2, <2>4
    <3> QED
      BY <3>1, <3>2, <3>3
  <2>6. status[d] = "dead"
    BY <1>0, <2>5 DEF Statuses
  <2> QED
    BY <2>4, <2>6
<1>7. ASSUME crashes = 0, NEW c \in Clients, Running(c)
      PROVE  /\ status[Instance(c)] = "done"
             /\ \E d \in Clients \ {c} : heard[d] = Instance(c)
             /\ pair # "sysvQueue"
  <2> DEFINE inst == handle[c]["toClient"]
  <2>1. /\ at[c] = 3 /\ Name(c) = "toClient" /\ Instance(c) = inst
        /\ content["toClient"][inst] = << >> /\ <<"toClient", inst>> \notin removed
    BY <1>2, <1>7
  <2>2. inst \in Servers
    BY <2>1 DEF QueuesInv, QueueInv, ClientOpens
  <2>3. CalmNames(inst) /\ inst \in Procs /\ at[inst] \in Nat
    BY <1>7, <2>2 DEF QueuesInv, CalmInv, CommonInv, HandshakeTypes
  <2>4. status[inst] # "unborn"
    <3>1. "toClient" \in Objects /\ c \in Procs
      OBVIOUS
    <3> QED
      BY <2>2, <3>1 DEF CommonInv, LivesInv
  <2>5. status[inst] # "running"
    <3> SUFFICES ASSUME Running(inst) PROVE FALSE
      BY DEF Running
    <3>1. at[inst] = Skip + 4
      BY <1>1, <2>2
    <3>2. handle[inst]["toClient"] = inst
      BY <1>0, <2>3, <3>1 DEF CalmNames
    <3>3. WaitsOnObjectOf(c, inst)
      BY <1>7, <2>1, <3>2 DEF WaitsOnObjectOf
    <3>4. \E d \in Clients : status[d] = "dead"
      BY <1>6, <2>2, <3>3
    <3> QED
      BY <1>3, <1>7, <3>4
  <2>6. status[inst] = "done"
    BY <1>0, <2>3, <2>4, <2>5 DEF CalmNames, Statuses
  <2>7. at[inst] = Skip + 6
    BY <2>2, <2>3, <2>6, QueueCalls DEF CommonInv, LivesInv
  <2>8. at[inst] >= Skip + 4 /\ at[inst] > Skip + 1
    BY <1>0, <2>7
  <2>9. handle[inst]["toClient"] = inst
    BY <2>3, <2>8 DEF CalmNames
  <2>10. PICK d \in Clients : heard[d] = inst /\ at[d] = 4
    BY <1>5, <2>1, <2>2, <2>8, <2>9
  <2>11. d # c
    BY <2>1, <2>10
  <2>12. pair # "sysvQueue"
    <3> SUFFICES ASSUME pair = "sysvQueue" PROVE FALSE
      OBVIOUS
    <3>1. at[inst] = 6
      BY <2>7 DEF Skip
    <3> QED
      BY <2>1, <2>2, <2>9, <3>1 DEF QueueWaits, PipesInv
  <2> QED
    BY <2>1, <2>6, <2>10, <2>11, <2>12
<1> QED
  BY <1>4, <1>6, <1>7
-----------------------------------------------------------------------------
(* Handshakes, FIFO: two ends that are open at the same time have met, and a  *)
(* text in the FIFO has somebody who reads it.                                *)

EndServer(s) ==
    /\ handle[s]["fifo"] = IF at[s] \in 4 .. 6 THEN s ELSE Nobody
    /\ Running(s) /\ at[s] = 2 => bound["fifo"] = Nobody
    /\ Running(s) /\ at[s] \in 3 .. 7 => bound["fifo"] = s
    /\ at[s] < 4 => s \notin met
    /\ at[s] < 3 => bound["fifo"] # s /\ \A c \in Clients : handle[c]["fifo"] # s

EndText(s) ==
    /\ content["fifo"][s] # << >> => content["fifo"][s] = <<s>> /\ at[s] > 5
    /\ at[s] > 5 => content["fifo"][s] = <<s>> \/ \E c \in Clients : heard[c] = s

EndClient(c) ==
    /\ IF at[c] > 1 THEN handle[c]["fifo"] \in Servers ELSE handle[c]["fifo"] = Nobody
    /\ at[c] = 3 => c \in met
    /\ status[c] \in {"unborn", "running"} => heard[c] = Nobody
    /\ \A s \in Servers : heard[c] = s => at[s] > 5

EndsMeet(s, c) ==
    Running(s) /\ at[s] \in 4 .. 6 /\ Running(c) /\ at[c] > 1 /\ handle[c]["fifo"] = s =>
        s \in met /\ c \in met

EndsInv == pair = "fifo" =>
    /\ \A s \in Servers : EndServer(s) /\ EndText(s)
    /\ \A c \in Clients : EndClient(c)
    /\ \A s \in Servers, c \in Clients : EndsMeet(s, c)
    /\ removed = {}

Reader(s) == \E c \in Clients : Running(c) /\ at[c] > 1 /\ c \in met /\ handle[c]["fifo"] = s

EndCalm(s) ==
    /\ status[s] \notin {"failed", "dead"}
    /\ content["fifo"][s] # << >> => Reader(s)
    /\ s \in met /\ Running(s) /\ at[s] \in 4 .. 5 => Reader(s)
    /\ at[s] = 5 => s \in met

EndsCalm == pair = "fifo" /\ crashes = 0 => \A s \in Servers : EndCalm(s)

FifoWaits == EndsInv /\ EndsCalm

LEMMA FifoCalls ==
    ASSUME CommonInv, pair = "fifo", NEW p \in Procs
    PROVE  /\ Program(p) = IF p \in Servers THEN FifoServer ELSE FifoClient
           /\ at[p] \in 1 .. (IF p \in Servers THEN 7 ELSE 3) /\ Name(p) = "fifo"
           /\ Len(Program(p)) = IF p \in Servers THEN 7 ELSE 3
           /\ p \in Servers =>
                /\ at[p] = 1 => Program(p)[at[p]] = <<"unlink", "fifo">>
                /\ at[p] = 2 => Program(p)[at[p]] = <<"mkfifo", "fifo">>
                /\ at[p] = 3 => Program(p)[at[p]] = <<"openEnd", "fifo">>
                /\ at[p] = 4 => Program(p)[at[p]] = <<"meet", "fifo">>
                /\ at[p] = 5 => Program(p)[at[p]] = <<"send", "fifo">>
                /\ at[p] = 6 => Program(p)[at[p]] = <<"close", "fifo">>
                /\ at[p] = 7 => Program(p)[at[p]] = <<"unlink", "fifo">>
           /\ p \in Clients =>
                /\ at[p] = 1 => Program(p)[at[p]] = <<"openEnd", "fifo">>
                /\ at[p] = 2 => Program(p)[at[p]] = <<"meet", "fifo">>
                /\ at[p] = 3 => Program(p)[at[p]] = <<"read", "fifo">>
<1>1. Program(p) = IF p \in Servers THEN FifoServer ELSE FifoClient
  BY DEF Program
<1>2. at[p] \in 1 .. Len(Program(p))
  BY DEF CommonInv, HandshakeTypes
<1>3. CASE p \in Servers
  <2>1. /\ Program(p) = FifoServer /\ Len(FifoServer) = 7
        /\ p \notin Clients
    BY <1>1, <1>3, Roles DEF FifoServer
  <2>2. at[p] \in {1, 2, 3, 4, 5, 6, 7}
    BY <1>2, <2>1
  <2>3. /\ at[p] = 1 => Program(p)[at[p]] = <<"unlink", "fifo">>
        /\ at[p] = 2 => Program(p)[at[p]] = <<"mkfifo", "fifo">>
        /\ at[p] = 3 => Program(p)[at[p]] = <<"openEnd", "fifo">>
        /\ at[p] = 4 => Program(p)[at[p]] = <<"meet", "fifo">>
        /\ at[p] = 5 => Program(p)[at[p]] = <<"send", "fifo">>
        /\ at[p] = 6 => Program(p)[at[p]] = <<"close", "fifo">>
        /\ at[p] = 7 => Program(p)[at[p]] = <<"unlink", "fifo">>
    BY <2>1 DEF FifoServer
  <2>4. Name(p) = "fifo"
    BY <2>2, <2>3 DEF Name
  <2> QED
    BY <1>1, <1>3, <2>1, <2>2, <2>3, <2>4
<1>4. CASE p \in Clients
  <2>1. /\ Program(p) = FifoClient /\ Len(FifoClient) = 3
        /\ p \notin Servers
    BY <1>1, <1>4, Roles DEF FifoClient
  <2>2. at[p] \in {1, 2, 3}
    BY <1>2, <2>1
  <2>3. /\ at[p] = 1 => Program(p)[at[p]] = <<"openEnd", "fifo">>
        /\ at[p] = 2 => Program(p)[at[p]] = <<"meet", "fifo">>
        /\ at[p] = 3 => Program(p)[at[p]] = <<"read", "fifo">>
    BY <2>1 DEF FifoClient
  <2>4. Name(p) = "fifo"
    BY <2>2, <2>3 DEF Name
  <2> QED
    BY <1>1, <1>4, <2>1, <2>2, <2>3, <2>4
<1> QED
  BY <1>3, <1>4 DEF Procs

LEMMA FifoFunctions ==
    ASSUME CommonInv
    PROVE  /\ bound \in [Objects -> Instances] /\ handle \in [Procs -> [Objects -> Instances]]
           /\ at \in [Procs -> Nat] /\ status \in [Procs -> Statuses]
           /\ \E V : content \in [Objects -> [Servers -> V]]
           /\ \E V : heard \in [Procs -> V]
           /\ "fifo" \in Objects
  BY DEF CommonInv, HandshakeTypes, Objects

\* What the one call of a server is and does.
LEMMA FifoServerCalls ==
    ASSUME CommonInv, EndsInv, pair = "fifo", NEW p \in Servers, Step(p)
    PROVE  /\ removed' = removed
           /\ \/ /\ at[p] = 1 /\ at'[p] = 2 /\ status'[p] = "running" /\ bound'["fifo"] = Nobody
                 /\ UNCHANGED <<handle, content, met>>
              \/ /\ at[p] = 2 /\ at'[p] = 3 /\ status'[p] = "running" /\ bound'["fifo"] = p
                 /\ UNCHANGED <<handle, content, met>>
              \/ /\ at[p] = 3 /\ at'[p] = 4 /\ status'[p] = "running" /\ handle'[p]["fifo"] = p
                 /\ met' = met \cup Partners(p, p) \cup (IF Partners(p, p) = {} THEN {} ELSE {p})
                 /\ UNCHANGED <<bound, content>>
              \/ /\ at[p] = 4 /\ at'[p] = 5 /\ status'[p] = "running" /\ p \in met
                 /\ UNCHANGED <<bound, handle, content, met>>
              \/ /\ at[p] = 5 /\ at'[p] = 5 /\ status'[p] = "dead" /\ Partners(p, p) = {}
                 /\ UNCHANGED <<bound, handle, content, met>>
              \/ /\ at[p] = 5 /\ at'[p] = 6 /\ status'[p] = "running"
                 /\ content' = [content EXCEPT !["fifo"][p] = <<p>>]
                 /\ UNCHANGED <<bound, handle, met>>
              \/ /\ at[p] = 6 /\ at'[p] = 7 /\ status'[p] = "running" /\ handle'[p]["fifo"] = Nobody
                 /\ UNCHANGED <<bound, content, met>>
              \/ /\ at[p] = 7 /\ at'[p] = 7 /\ status'[p] = "done" /\ bound'["fifo"] = Nobody
                 /\ UNCHANGED <<handle, content, met>>
<1> USE Roles
<1>1. /\ p \in Procs /\ at[p] \in 1 .. 7 /\ Name(p) = "fifo" /\ Len(Program(p)) = 7
      /\ Running(p) /\ status[p] = "running"
      /\ at[p] = 1 => UnlinkName(p)
      /\ at[p] = 2 => Mkfifo(p)
      /\ at[p] = 3 => OpenEnd(p)
      /\ at[p] = 4 => Meet(p)
      /\ at[p] = 5 => Send(p)
      /\ at[p] = 6 => Close(p)
      /\ at[p] = 7 => UnlinkName(p)
  <2>1. p \in Procs /\ at[p] \in 1 .. 7 /\ Name(p) = "fifo" /\ Len(Program(p)) = 7
    BY FifoCalls
  <2>2. Running(p)
    BY <2>1, OthersStay DEF Running
  <2> QED
    BY <2>1, <2>2, FifoCalls, OneCall DEF Running
<1>2. /\ at[p] < 7 /\ Return(p) => at'[p] = at[p] + 1 /\ status'[p] = "running"
      /\ at[p] = 7 /\ Return(p) => at'[p] = 7 /\ status'[p] = "done"
      /\ Fail(p, "dead") => at' = at /\ status'[p] = "dead"
  <2>1. ASSUME at[p] < 7, Return(p) PROVE at'[p] = at[p] + 1 /\ status'[p] = "running"
    BY <1>1, <2>1, FifoFunctions DEF Return
  <2>2. ASSUME at[p] = 7, Return(p) PROVE at'[p] = 7 /\ status'[p] = "done"
    BY <1>1, <2>2, FifoFunctions DEF Return
  <2>3. Fail(p, "dead") => at' = at /\ status'[p] = "dead"
    BY <1>1, FifoFunctions DEF Fail
  <2> QED
    BY <2>1, <2>2, <2>3
<1>3. EndServer(p) /\ EndText(p) /\ removed = {}
  BY DEF EndsInv
<1>4. CASE at[p] = 1
  <2>1. bound'["fifo"] = Nobody
    BY <1>1, <1>4, FifoFunctions DEF UnlinkName
  <2> QED
    BY <1>1, <1>2, <1>4, <2>1 DEF UnlinkName
<1>5. CASE at[p] = 2
  <2>1. bound' = [bound EXCEPT !["fifo"] = p] /\ Return(p)
    BY <1>1, <1>3, <1>5 DEF Mkfifo, EndServer
  <2>2. bound'["fifo"] = p
    BY <2>1, FifoFunctions
  <2> QED
    BY <1>1, <1>2, <1>5, <2>1, <2>2 DEF Mkfifo
<1>6. CASE at[p] = 3
  <2>1. bound["fifo"] = p /\ p # Nobody
    BY <1>1, <1>3, <1>6 DEF EndServer
  <2>2. /\ handle' = [handle EXCEPT ![p]["fifo"] = p] /\ Return(p)
        /\ met' = met \cup Partners(p, p) \cup (IF Partners(p, p) = {} THEN {} ELSE {p})
    BY <1>1, <1>6, <2>1 DEF OpenEnd
  <2>3. handle'[p]["fifo"] = p
    BY <1>1, <2>2, FifoFunctions
  <2> QED
    BY <1>1, <1>2, <1>6, <2>2, <2>3 DEF OpenEnd
<1>7. CASE at[p] = 4
  BY <1>1, <1>2, <1>7 DEF Meet
<1>8. CASE at[p] = 5
  <2>1. /\ Instance(p) = p /\ ~ IsRemoved(p) /\ Content(p) = << >>
        /\ content["fifo"][p] = << >>
    BY <1>1, <1>3, <1>8 DEF EndServer, EndText, Instance, IsRemoved, Content
  <2>2. Append(Content(p), p) = <<p>>
    BY <2>1
  <2>3. \/ Fail(p, "dead") /\ content' = content /\ Partners(p, p) = {}
        \/ content' = [content EXCEPT !["fifo"][p] = <<p>>] /\ Return(p)
    BY <1>1, <1>8, <2>1, <2>2 DEF Send, Put
  <2>4. CASE Fail(p, "dead") /\ content' = content /\ Partners(p, p) = {}
    BY <1>1, <1>2, <1>8, <2>4 DEF Send
  <2>5. CASE content' = [content EXCEPT !["fifo"][p] = <<p>>] /\ Return(p)
    BY <1>1, <1>2, <1>8, <2>5 DEF Send
  <2> QED
    BY <2>3, <2>4, <2>5
<1>9. CASE at[p] = 6
  <2>1. handle'[p]["fifo"] = Nobody
    BY <1>1, <1>9, FifoFunctions DEF Close
  <2> QED
    BY <1>1, <1>2, <1>9, <2>1 DEF Close
<1>10. CASE at[p] = 7
  <2>1. bound'["fifo"] = Nobody
    BY <1>1, <1>10, FifoFunctions DEF UnlinkName
  <2> QED
    BY <1>1, <1>2, <1>10, <2>1 DEF UnlinkName
<1> QED
  BY <1>1, <1>4, <1>5, <1>6, <1>7, <1>8, <1>9, <1>10

\* And of a client.
LEMMA FifoClientCalls ==
    ASSUME CommonInv, EndsInv, pair = "fifo", NEW p \in Clients, Step(p)
    PROVE  /\ removed' = removed /\ bound' = bound
           /\ \/ /\ at[p] = 1 /\ at'[p] = 1 /\ status'[p] = "failed"
                 /\ UNCHANGED <<handle, content, met, heard>>
              \/ /\ at[p] = 1 /\ at'[p] = 2 /\ status'[p] = "running" /\ bound["fifo"] \in Servers
                 /\ handle'[p]["fifo"] = bound["fifo"]
                 /\ met' = met \cup Partners(p, bound["fifo"])
                               \cup (IF Partners(p, bound["fifo"]) = {} THEN {} ELSE {p})
                 /\ UNCHANGED <<content, heard>>
              \/ /\ at[p] = 2 /\ at'[p] = 3 /\ status'[p] = "running" /\ p \in met
                 /\ UNCHANGED <<handle, content, met, heard>>
              \/ /\ at[p] = 3 /\ at'[p] = 3 /\ status'[p] = "done"
                 /\ content["fifo"][handle[p]["fifo"]] # << >> /\ heard'[p] = handle[p]["fifo"]
                 /\ content' = [content EXCEPT !["fifo"][handle[p]["fifo"]] = << >>]
                 /\ UNCHANGED <<handle, met>>
              \/ /\ at[p] = 3 /\ at'[p] = 3 /\ status'[p] = "done"
                 /\ content["fifo"][handle[p]["fifo"]] = << >> /\ heard'[p] = "mixed"
                 /\ Partners(p, handle[p]["fifo"]) = {}
                 /\ UNCHANGED <<handle, content, met>>
<1> USE Roles
<1>1. /\ p \in Procs /\ at[p] \in 1 .. 3 /\ Name(p) = "fifo" /\ Len(Program(p)) = 3
      /\ Running(p) /\ status[p] = "running"
      /\ at[p] = 1 => OpenEnd(p)
      /\ at[p] = 2 => Meet(p)
      /\ at[p] = 3 => Read(p)
  <2>1. p \in Procs /\ at[p] \in 1 .. 3 /\ Name(p) = "fifo" /\ Len(Program(p)) = 3
    BY FifoCalls
  <2>2. Running(p)
    BY <2>1, OthersStay DEF Running
  <2> QED
    BY <2>1, <2>2, FifoCalls, OneCall DEF Running
<1>2. /\ at[p] < 3 /\ Return(p) => at'[p] = at[p] + 1 /\ status'[p] = "running"
      /\ at[p] = 3 /\ Return(p) => at'[p] = 3 /\ status'[p] = "done"
      /\ Fail(p, "failed") => at' = at /\ status'[p] = "failed"
  <2>1. ASSUME at[p] < 3, Return(p) PROVE at'[p] = at[p] + 1 /\ status'[p] = "running"
    BY <1>1, <2>1, FifoFunctions DEF Return
  <2>2. ASSUME at[p] = 3, Return(p) PROVE at'[p] = 3 /\ status'[p] = "done"
    BY <1>1, <2>2, FifoFunctions DEF Return
  <2>3. Fail(p, "failed") => at' = at /\ status'[p] = "failed"
    BY <1>1, FifoFunctions DEF Fail
  <2> QED
    BY <2>1, <2>2, <2>3
<1>3. CASE at[p] = 1
  <2>1. CASE bound["fifo"] = Nobody
    BY <1>1, <1>2, <1>3, <2>1 DEF OpenEnd
  <2>2. CASE bound["fifo"] # Nobody
    <3>1. bound["fifo"] \in Servers
      BY <2>2, FifoFunctions DEF Instances
    <3>2. /\ handle' = [handle EXCEPT ![p]["fifo"] = bound["fifo"]] /\ Return(p)
          /\ met' = met \cup Partners(p, bound["fifo"])
                        \cup (IF Partners(p, bound["fifo"]) = {} THEN {} ELSE {p})
      BY <1>1, <1>3, <2>2 DEF OpenEnd
    <3>3. handle'[p]["fifo"] = bound["fifo"]
      BY <1>1, <3>2, FifoFunctions
    <3> QED
      BY <1>1, <1>2, <1>3, <3>1, <3>2, <3>3 DEF OpenEnd
  <2> QED
    BY <2>1, <2>2
<1>4. CASE at[p] = 2
  BY <1>1, <1>2, <1>4 DEF Meet
<1>5. CASE at[p] = 3
  <2> DEFINE h == handle[p]["fifo"]
  <2>1. h \in Servers /\ Content(p) = content["fifo"][h] /\ Instance(p) = h
    BY <1>1, <1>5 DEF EndsInv, EndClient, Content, Instance
  <2>2. content["fifo"][h] # << >> => content["fifo"][h] = <<h>>
    BY <2>1 DEF EndsInv, EndText
  <2>3. CASE content["fifo"][h] # << >>
    <3>1. /\ heard' = [heard EXCEPT ![p] = Head(content["fifo"][h])] /\ Return(p)
          /\ content' = [content EXCEPT !["fifo"][h] = Tail(content["fifo"][h])]
          /\ UNCHANGED <<removed, bound, handle, met>>
      BY <1>1, <1>5, <2>1, <2>3 DEF Read, Put
    <3>2. Head(content["fifo"][h]) = h /\ Tail(content["fifo"][h]) = << >>
      <4>1. ASSUME NEW x \in Servers PROVE Head(<<x>>) = x /\ Tail(<<x>>) = << >>
        OBVIOUS
      <4>2. Head(<<h>>) = h /\ Tail(<<h>>) = << >>
        BY <2>1, <4>1
      <4>3. content["fifo"][h] = <<h>>
        BY <2>2, <2>3
      <4> HIDE DEF h
      <4> QED
        BY <4>2, <4>3
    <3>3. heard'[p] = h
      BY <1>1, <3>1, <3>2, FifoFunctions
    <3>4. content' = [content EXCEPT !["fifo"][h] = << >>]
      BY <3>1, <3>2
    <3> QED
      BY <1>2, <1>5, <2>3, <3>1, <3>3, <3>4
  <2>4. CASE content["fifo"][h] = << >>
    <3>1. /\ heard' = [heard EXCEPT ![p] = "mixed"] /\ Return(p) /\ Partners(p, h) = {}
          /\ UNCHANGED <<removed, bound, handle, met, content>>
      BY <1>1, <1>5, <2>1, <2>4 DEF Read
    <3>2. heard'[p] = "mixed"
      BY <1>1, <3>1, FifoFunctions
    <3> QED
      BY <1>2, <1>5, <2>4, <3>1, <3>2
  <2> QED
    BY <2>3, <2>4
<1> QED
  BY <1>1, <1>3, <1>4, <1>5

LEMMA FifoServerStep ==
    ASSUME CommonInv, FifoWaits, pair = "fifo", NEW p \in Servers, Step(p)
    PROVE  FifoWaits'
<1> USE Roles
<1>1. /\ \A q \in Procs : q # p => /\ at'[q] = at[q] /\ status'[q] = status[q]
                                   /\ handle'[q] = handle[q] /\ heard'[q] = heard[q]
      /\ p \in Procs /\ p # Nobody /\ status[p] = "running" /\ pair' = pair /\ crashes' = crashes
      /\ \A s \in Servers : s # p => status'[s] # "running"
      /\ \A c \in Clients : c # p /\ c \in Procs
  <2>1. \A s \in Servers : s # p => status[s] # "running"
    BY OthersStay DEF CommonInv, LivesInv, Running
  <2> QED
    BY <2>1, OthersStay
<1>2. /\ \A s \in Servers : EndServer(s) /\ EndText(s)
      /\ \A c \in Clients : EndClient(c)
      /\ \A s \in Servers, c \in Clients : EndsMeet(s, c)
      /\ removed = {}
      /\ crashes = 0 => \A s \in Servers : EndCalm(s)
  BY DEF FifoWaits, EndsInv, EndsCalm
<1>3. EndsInv
  BY DEF FifoWaits
<1>4. Partners(p, p) = {c \in Clients : status[c] = "running" /\ handle[c]["fifo"] = p}
  BY DEF Partners, Running
<1>5. \A c \in Clients : /\ at'[c] = at[c] /\ status'[c] = status[c]
                         /\ handle'[c] = handle[c] /\ heard'[c] = heard[c]
  BY <1>1
<1>6. /\ removed' = removed /\ at[p] \in 1 .. 7 /\ at'[p] >= at[p]
      /\ bound'["fifo"] \in {bound["fifo"], Nobody, p}
      /\ met \subseteq met' /\ \A s \in Servers : s # p /\ s \notin met => s \notin met'
      /\ \A s \in Servers : s # p => content'["fifo"][s] = content["fifo"][s]
  <2>1. \A s \in Servers : s \notin Partners(p, p)
    BY <1>4
  <2>2. ASSUME content' = [content EXCEPT !["fifo"][p] = <<p>>], NEW s \in Servers, s # p
        PROVE  content'["fifo"][s] = content["fifo"][s]
    BY <2>2, FifoFunctions
  <2> QED
    BY <1>3, <2>1, <2>2, FifoServerCalls
<1>7. ASSUME NEW s \in Servers, s # p PROVE EndServer(s)' /\ EndText(s)'
  <2>1. at'[s] = at[s] /\ handle'[s] = handle[s] /\ status'[s] # "running" /\ s \in Procs
    BY <1>1, <1>7
  <2>2. EndServer(s)'
    BY <1>2, <1>5, <1>6, <1>7, <2>1 DEF EndServer, Running
  <2>3. EndText(s)'
    BY <1>2, <1>5, <1>6, <1>7, <2>1 DEF EndText
  <2> QED
    BY <2>2, <2>3
<1>8. EndServer(p)'
  <2>1. EndServer(p) /\ \A c \in Clients : handle'[c]["fifo"] = handle[c]["fifo"]
    BY <1>2, <1>5
  <2>2. CASE at[p] = 1
    BY <1>1, <1>3, <2>1, <2>2, FifoServerCalls DEF EndServer, Running
  <2>3. CASE at[p] = 2
    BY <1>1, <1>3, <2>1, <2>3, FifoServerCalls DEF EndServer, Running
  <2>4. CASE at[p] = 3
    BY <1>1, <1>3, <2>1, <2>4, FifoServerCalls DEF EndServer, Running
  <2>5. CASE at[p] = 4
    BY <1>1, <1>3, <2>1, <2>5, FifoServerCalls DEF EndServer, Running
  <2>6. CASE at[p] = 5
    BY <1>1, <1>3, <2>1, <2>6, FifoServerCalls DEF EndServer, Running
  <2>7. CASE at[p] = 6
    BY <1>1, <1>3, <2>1, <2>7, FifoServerCalls DEF EndServer, Running
  <2>8. CASE at[p] = 7
    BY <1>1, <1>3, <2>1, <2>8, FifoServerCalls DEF EndServer, Running
  <2> QED
    BY <1>6, <2>2, <2>3, <2>4, <2>5, <2>6, <2>7, <2>8
<1>9. EndText(p)'
  <2>1. EndText(p)
    BY <1>2
  <2>2. CASE content' = content /\ (at[p] > 5 <=> at'[p] > 5)
    BY <1>5, <2>1, <2>2 DEF EndText
  <2>3. CASE at'[p] = 6 /\ content' = [content EXCEPT !["fifo"][p] = <<p>>]
    <3>1. content'["fifo"][p] = <<p>>
      BY <2>3, FifoFunctions
    <3> QED
      BY <2>3, <3>1 DEF EndText
  <2> QED
    BY <1>3, <1>6, <2>2, <2>3, FifoServerCalls
<1>10. ASSUME NEW c \in Clients PROVE EndClient(c)'
  <2>1. \A s \in Servers : at[s] > 5 => at'[s] > 5
    <3>1. at'[p] \in Nat /\ \A s \in Servers : s # p => at'[s] = at[s]
      BY <1>1, <1>3, FifoServerCalls
    <3> QED
      BY <1>6, <3>1
  <2> QED
    BY <1>2, <1>5, <1>6, <2>1 DEF EndClient
<1>11. ASSUME NEW s \in Servers, NEW c \in Clients PROVE EndsMeet(s, c)'
  <2>1. CASE s # p
    BY <1>1, <2>1 DEF EndsMeet, Running
  <2>2. CASE s = p /\ at[p] = 3
    <3>1. c \in Partners(p, p) => s \in met' /\ c \in met'
      BY <1>3, <2>2, FifoServerCalls
    <3> QED
      BY <1>4, <1>5, <2>2, <3>1 DEF EndsMeet, Running
  <2>3. CASE s = p /\ at[p] \in 4 .. 6
    <3>1. EndsMeet(p, c)
      BY <1>2
    <3> QED
      BY <1>1, <1>5, <1>6, <2>3, <3>1 DEF EndsMeet, Running
  <2>4. CASE s = p /\ at[p] \in {1, 2, 7}
    <3>1. at'[p] \notin 4 .. 6
      BY <1>3, <2>4, FifoServerCalls
    <3> QED
      BY <2>4, <3>1 DEF EndsMeet
  <2> QED
    BY <1>6, <2>1, <2>2, <2>3, <2>4
<1>12. ASSUME crashes' = 0, NEW s \in Servers PROVE EndCalm(s)'
  <2>1. EndCalm(s) /\ EndCalm(p) /\ EndServer(p)
    BY <1>1, <1>2, <1>12
  <2>2. Reader(s) => Reader(s)'
    BY <1>5, <1>6 DEF Reader, Running
  <2>3. CASE s # p
    BY <1>1, <1>6, <2>1, <2>2, <2>3 DEF EndCalm, Running
  <2>4. CASE s = p
    <3>1. \A c \in Clients : c \in Partners(p, p) => at[c] > 1
      <4>1. \A c \in Clients : handle[c]["fifo"] = p => at[c] > 1
        BY <1>1, <1>2 DEF EndClient
      <4> QED
        BY <1>4, <4>1
    <3>2. Reader(p) => Partners(p, p) # {}
      BY <1>4 DEF Reader, Running
    <3>3. CASE at[p] \in {1, 2}
      <4>1. content' = content /\ at'[p] \in {2, 3} /\ status'[p] = "running"
        BY <1>3, <3>3, FifoServerCalls
      <4> QED
        BY <2>1, <2>2, <2>4, <4>1 DEF EndCalm
    <3>4. CASE at[p] = 3
      <4>1. /\ content' = content /\ at'[p] = 4 /\ status'[p] = "running"
            /\ met' = met \cup Partners(p, p) \cup (IF Partners(p, p) = {} THEN {} ELSE {p})
        BY <1>3, <3>4, FifoServerCalls
      <4>2. p \notin met /\ p \notin Partners(p, p)
        BY <1>4, <2>1, <3>4 DEF EndServer
      <4>3. p \in met' => Reader(p)'
        <5> SUFFICES ASSUME p \in met' PROVE Reader(p)'
          OBVIOUS
        <5>1. PICK c \in Partners(p, p) : TRUE
          BY <4>1, <4>2
        <5>2. /\ c \in Clients /\ status'[c] = "running" /\ at'[c] > 1 /\ c \in met'
              /\ handle'[c]["fifo"] = p
          BY <1>4, <1>5, <3>1, <4>1, <5>1
        <5> QED
          BY <5>2 DEF Reader, Running
      <4> QED
        BY <2>1, <2>2, <2>4, <4>1, <4>3 DEF EndCalm
    <3>5. CASE at[p] = 4
      BY <1>1, <1>3, <2>1, <2>2, <2>4, <3>5, FifoServerCalls DEF EndCalm, Running
    <3>6. CASE at[p] = 5
      <4>1. Reader(p)
        BY <1>1, <2>1, <3>6 DEF EndCalm, Running
      <4>2. at'[p] = 6 /\ status'[p] = "running"
        BY <1>3, <3>2, <3>6, <4>1, FifoServerCalls
      <4> QED
        BY <2>2, <2>4, <4>1, <4>2 DEF EndCalm
    <3>7. CASE at[p] \in {6, 7}
      <4>1. content' = content /\ at'[p] = 7 /\ status'[p] \in {"running", "done"}
        BY <1>3, <3>7, FifoServerCalls
      <4> QED
        BY <2>1, <2>2, <2>4, <4>1 DEF EndCalm
    <3> QED
      BY <1>6, <3>3, <3>4, <3>5, <3>6, <3>7
  <2> QED
    BY <2>3, <2>4
<1>13. \A s \in Servers : EndServer(s)' /\ EndText(s)'
  BY <1>7, <1>8, <1>9
<1>14. EndsInv'
  BY <1>2, <1>6, <1>10, <1>11, <1>13 DEF EndsInv
<1> QED
  BY <1>12, <1>14 DEF FifoWaits, EndsCalm

LEMMA FifoClientStep ==
    ASSUME CommonInv, FifoWaits, pair = "fifo", NEW p \in Clients, Step(p)
    PROVE  FifoWaits'
<1> USE Roles
<1> DEFINE b == bound["fifo"]
           h == handle[p]["fifo"]
<1>1. /\ \A q \in Procs : q # p => /\ at'[q] = at[q] /\ status'[q] = status[q]
                                   /\ handle'[q] = handle[q] /\ heard'[q] = heard[q]
      /\ p \in Procs /\ status[p] = "running" /\ pair' = pair /\ crashes' = crashes
  BY OthersStay
<1>2. /\ \A s \in Servers : EndServer(s) /\ EndText(s)
      /\ \A c \in Clients : EndClient(c)
      /\ \A s \in Servers, c \in Clients : EndsMeet(s, c)
      /\ removed = {}
      /\ crashes = 0 => \A s \in Servers : EndCalm(s)
  BY DEF FifoWaits, EndsInv, EndsCalm
<1>3. EndsInv
  BY DEF FifoWaits
<1>4. /\ \A s \in Servers : /\ at'[s] = at[s] /\ status'[s] = status[s] /\ handle'[s] = handle[s]
                            /\ s # p /\ s # Nobody /\ s # "mixed"
      /\ \A inst : Partners(p, inst) = {s \in Servers : status[s] = "running" /\ handle[s]["fifo"] = inst}
  <2>1. \A s \in Servers : s # p /\ s # Nobody /\ s # "mixed" /\ s \in Procs
    BY ProcsAssumption
  <2>2. \A inst : Partners(p, inst) = {s \in Servers : status[s] = "running" /\ handle[s]["fifo"] = inst}
    BY <2>1 DEF Partners, Running
  <2> QED
    BY <1>1, <2>1, <2>2
<1>5. heard[p] = Nobody
  BY <1>1, <1>2 DEF EndClient
\* The one call of five.
<1>6. /\ removed' = removed /\ bound' = bound
      /\ \/ /\ at[p] = 1 /\ at'[p] = 1 /\ status'[p] = "failed"
            /\ UNCHANGED <<handle, content, met, heard>>
         \/ /\ at[p] = 1 /\ at'[p] = 2 /\ status'[p] = "running" /\ b \in Servers
            /\ handle'[p]["fifo"] = b
            /\ met' = met \cup Partners(p, b) \cup (IF Partners(p, b) = {} THEN {} ELSE {p})
            /\ UNCHANGED <<content, heard>>
         \/ /\ at[p] = 2 /\ at'[p] = 3 /\ status'[p] = "running" /\ p \in met
            /\ UNCHANGED <<handle, content, met, heard>>
         \/ /\ at[p] = 3 /\ at'[p] = 3 /\ status'[p] = "done" /\ h \in Servers
            /\ content["fifo"][h] # << >> /\ heard'[p] = h
            /\ content' = [content EXCEPT !["fifo"][h] = << >>]
            /\ UNCHANGED <<handle, met>>
         \/ /\ at[p] = 3 /\ at'[p] = 3 /\ status'[p] = "done" /\ h \in Servers
            /\ content["fifo"][h] = << >> /\ heard'[p] = "mixed"
            /\ Partners(p, h) = {}
            /\ UNCHANGED <<handle, content, met>>
  <2>1. at[p] = 3 => h \in Servers
    BY <1>2 DEF EndClient
  <2> QED
    BY <1>3, <2>1, FifoClientCalls
<1> HIDE DEF b, h
<1>7. /\ met \subseteq met'
      /\ \A s \in Servers : s \in met' => s \in met \/ (at[s] \in 4 .. 6 /\ s = b /\ at[p] = 1)
      /\ handle'[p] = handle[p] \/ (at[p] = 1 /\ at'[p] = 2 /\ handle'[p]["fifo"] = b)
  <2>1. \A s \in Servers : b \in Servers /\ s \in Partners(p, b) => at[s] \in 4 .. 6 /\ s = b
    BY <1>2, <1>4 DEF EndServer
  <2> QED
    BY <1>4, <1>6, <2>1
<1>8. ASSUME NEW s \in Servers PROVE EndServer(s)'
  <2>1. EndServer(s) /\ bound'["fifo"] = bound["fifo"] /\ at[s] \in Nat
    BY <1>2, <1>4, <1>6, FifoFunctions
  <2>2. at[s] < 4 => s \notin met'
    BY <1>7, <2>1 DEF EndServer
  <2>3. at[s] < 3 => \A c \in Clients : handle'[c]["fifo"] # s
    BY <1>1, <1>7, <2>1 DEF EndServer, b
  <2> QED
    BY <1>4, <2>1, <2>2, <2>3 DEF EndServer, Running
<1>9. ASSUME NEW s \in Servers PROVE EndText(s)'
  <2>1. EndText(s) /\ at'[s] = at[s]
    BY <1>2, <1>4
  <2>2. \A c \in Clients : heard[c] = s => heard'[c] = s
    BY <1>1, <1>4, <1>5
  <2>3. CASE content' = content
    BY <2>1, <2>2, <2>3 DEF EndText
  <2>4. CASE /\ h \in Servers /\ content["fifo"][h] # << >> /\ heard'[p] = h
             /\ content' = [content EXCEPT !["fifo"][h] = << >>]
    <3>1. content'["fifo"][s] = IF s = h THEN << >> ELSE content["fifo"][s]
      BY <2>4, FifoFunctions
    <3> QED
      BY <2>1, <2>2, <2>4, <3>1 DEF EndText
  <2> QED
    BY <1>6, <2>3, <2>4
<1>10. ASSUME NEW c \in Clients PROVE EndClient(c)'
  <2>1. CASE c # p
    <3>1. EndClient(c) /\ at'[c] = at[c] /\ status'[c] = status[c] /\ handle'[c] = handle[c]
          /\ heard'[c] = heard[c]
      BY <1>1, <1>2, <2>1
    <3> QED
      BY <1>4, <1>7, <3>1 DEF EndClient
  <2>2. EndClient(p)
    BY <1>2
  <2>3. CASE c = p /\ at[p] < 3
    BY <1>4, <1>5, <1>6, <2>2, <2>3 DEF EndClient
  <2>4. CASE c = p /\ at[p] = 3 /\ h \in Servers /\ content["fifo"][h] # << >> /\ heard'[p] = h
                   /\ at'[p] = 3 /\ status'[p] = "done" /\ UNCHANGED <<handle, met>>
    <3>1. at[h] > 5
      BY <1>2, <2>4 DEF EndText
    <3> QED
      BY <1>4, <2>2, <2>4, <3>1 DEF EndClient, h
  <2>5. CASE c = p /\ at[p] = 3 /\ heard'[p] = "mixed"
                   /\ at'[p] = 3 /\ status'[p] = "done" /\ UNCHANGED <<handle, met>>
    BY <1>4, <2>2, <2>5 DEF EndClient
  <2> QED
    BY <1>6, <2>1, <2>3, <2>4, <2>5
<1>11. ASSUME NEW s \in Servers, NEW c \in Clients PROVE EndsMeet(s, c)'
  <2>1. EndsMeet(s, c) /\ at'[s] = at[s] /\ status'[s] = status[s] /\ handle[s]["fifo"] = (IF at[s] \in 4 .. 6 THEN s ELSE Nobody)
    BY <1>2, <1>4 DEF EndServer
  <2>2. CASE c # p
    BY <1>1, <1>7, <2>1, <2>2 DEF EndsMeet, Running
  <2>3. CASE c = p /\ at'[p] = 2 /\ b \in Servers /\ handle'[p]["fifo"] = b
                   /\ met' = met \cup Partners(p, b) \cup (IF Partners(p, b) = {} THEN {} ELSE {p})
    BY <1>4, <2>1, <2>3 DEF EndsMeet, Running
  <2>4. CASE c = p /\ at[p] = 2 /\ UNCHANGED <<handle, met>>
    BY <1>1, <2>1, <2>4 DEF EndsMeet, Running
  <2>5. CASE c = p /\ status'[p] # "running"
    BY <2>5 DEF EndsMeet, Running
  <2> QED
    BY <1>6, <2>2, <2>3, <2>4, <2>5
<1>12. ASSUME crashes' = 0, NEW s \in Servers PROVE EndCalm(s)'
  <2>1. /\ EndCalm(s) /\ EndServer(s) /\ at'[s] = at[s] /\ status'[s] = status[s]
        /\ \A c \in Clients : c # p => /\ at'[c] = at[c] /\ status'[c] = status[c]
                                       /\ handle'[c] = handle[c]
    BY <1>1, <1>2, <1>4, <1>12
  <2>2. Reader(s) => Reader(s)' \/ (at[p] = 3 /\ h = s)
    <3> SUFFICES ASSUME NEW c \in Clients, Running(c), at[c] > 1, c \in met, handle[c]["fifo"] = s,
                        ~ (at[p] = 3 /\ h = s)
                 PROVE  Reader(s)'
      BY DEF Reader
    <3>1. CASE c # p
      BY <1>7, <2>1, <3>1 DEF Reader, Running
    <3>2. CASE c = p
      <4>1. at[p] = 2 /\ at'[p] = 3 /\ status'[p] = "running" /\ p \in met' /\ handle'[p] = handle[p]
        BY <1>6, <3>2 DEF h
      <4> QED
        BY <3>2, <4>1 DEF Reader, Running
    <3> QED
      BY <3>1, <3>2
  <2>3. CASE at[p] \in {1, 2}
    <3>1. Reader(s) => Reader(s)'
      BY <2>2, <2>3
    <3>2. content' = content
      BY <1>6, <2>3
    <3>3. s \in met' => s \in met \/ Reader(s)'
      <4> SUFFICES ASSUME s \in met', s \notin met PROVE Reader(s)'
        OBVIOUS
      <4>1. /\ at[p] = 1 /\ at'[p] = 2 /\ status'[p] = "running" /\ handle'[p]["fifo"] = b /\ s = b
            /\ p \in met'
        BY <1>4, <1>6, <1>7
      <4> QED
        BY <4>1 DEF Reader, Running
    <3> QED
      BY <1>7, <2>1, <3>1, <3>2, <3>3 DEF EndCalm, Running
  <2>4. CASE at[p] = 3 /\ content' = [content EXCEPT !["fifo"][h] = << >>] /\ content["fifo"][h] # << >>
    <3>1. /\ met' = met /\ h \in Servers /\ at[h] > 5
          /\ content'["fifo"][s] = IF s = h THEN << >> ELSE content["fifo"][s]
      <4>1. h \in Servers /\ met' = met
        BY <1>6, <2>4
      <4> QED
        <5>1. at[h] > 5
          BY <1>2, <2>4, <4>1 DEF EndText
        <5>2. content'["fifo"][s] = IF s = h THEN << >> ELSE content["fifo"][s]
          BY <2>4, <4>1, FifoFunctions
        <5> QED
          BY <4>1, <5>1, <5>2
    <3> QED
      BY <2>1, <2>2, <2>4, <3>1 DEF EndCalm, Running
  <2>5. CASE at[p] = 3 /\ content' = content /\ content["fifo"][h] = << >> /\ Partners(p, h) = {}
    <3>1. met' = met
      BY <1>6, <2>5
    <3>2. s = h /\ status[s] = "running" => at[s] \notin 4 .. 6
      <4>1. s = h /\ status[s] = "running" => s \in Partners(p, h) \/ handle[s]["fifo"] # h
        BY <1>4
      <4>2. at[s] \in 4 .. 6 => handle[s]["fifo"] = s
        BY <2>1 DEF EndServer
      <4> QED
        BY <2>5, <4>1, <4>2
    <3> QED
      BY <2>1, <2>2, <2>5, <3>1, <3>2 DEF EndCalm, Running
  <2> QED
    BY <1>6, <2>3, <2>4, <2>5
<1>13. EndsInv'
  BY <1>2, <1>6, <1>8, <1>9, <1>10, <1>11 DEF EndsInv
<1> QED
  BY <1>12, <1>13 DEF FifoWaits, EndsCalm

LEMMA FifoWaitsInitial == HandshakesInit => FifoWaits
<1> SUFFICES ASSUME HandshakesInit PROVE FifoWaits
  OBVIOUS
<1>1. /\ \A p \in Procs : status[p] = "unborn" /\ at[p] = 1 /\ heard[p] = Nobody
                          /\ handle[p]["fifo"] = Nobody
      /\ bound["fifo"] = Nobody
      /\ \A s \in Servers : content["fifo"][s] = << >>
      /\ removed = {} /\ met = {}
  BY DEF HandshakesInit, Objects
<1>2. /\ \A s \in Servers : s \in Procs /\ s # Nobody
      /\ \A c \in Clients : c \in Procs
  BY Roles
<1> QED
  BY <1>1, <1>2
     DEF FifoWaits, EndsInv, EndsCalm, EndServer, EndText, EndClient, EndsMeet, EndCalm, Running

LEMMA FifoWaitsStep ==
    ASSUME CommonInv, UnbornInv, FifoWaits, [HandshakesNext]_handshakeVars
    PROVE  FifoWaits'
<1>1. ASSUME NEW p \in Procs, Step(p) PROVE FifoWaits'
  <2>1. pair' = pair
    BY <1>1, OthersStay
  <2>2. CASE pair = "fifo"
    BY <1>1, <2>2, FifoServerStep, FifoClientStep DEF Procs
  <2>3. CASE pair # "fifo"
    BY <2>1, <2>3 DEF FifoWaits, EndsInv, EndsCalm
  <2> QED
    BY <2>2, <2>3
<1>2. CASE Rests
  <2>1. UNCHANGED <<pair, at, bound, handle, content, removed, met, heard>>
    BY <1>2 DEF Rests
  <2>2. /\ \A p \in Procs : status'[p] = "running" => status[p] = "running" \/ at[p] = 1
        /\ \A p \in Procs : status'[p] \in {"unborn", "running"} => status[p] \in {"unborn", "running"}
        /\ crashes' = 0 => /\ crashes = 0
                           /\ \A p \in Procs : /\ status[p] = "running" => status'[p] = "running"
                                               /\ status'[p] \in {"failed", "dead"} => status'[p] = status[p]
        /\ \A s \in Servers : s \in Procs
        /\ \A c \in Clients : c \in Procs
    BY <1>2, Roles DEF Rests, UnbornInv
  <2> SUFFICES ASSUME pair = "fifo" PROVE FifoWaits'
    BY <2>1 DEF FifoWaits, EndsInv, EndsCalm
  <2>3. ASSUME NEW s \in Servers PROVE EndServer(s)' /\ EndText(s)'
    <3>1. EndServer(s) /\ EndText(s)
      BY DEF FifoWaits, EndsInv
    <3> QED
      BY <2>1, <2>2, <3>1 DEF EndServer, EndText, Running
  <2>4. ASSUME NEW c \in Clients PROVE EndClient(c)'
    <3>1. EndClient(c)
      BY DEF FifoWaits, EndsInv
    <3> QED
      BY <2>1, <2>2, <3>1 DEF EndClient
  <2>5. ASSUME NEW s \in Servers, NEW c \in Clients PROVE EndsMeet(s, c)'
    <3>1. EndsMeet(s, c)
      BY DEF FifoWaits, EndsInv
    <3> QED
      BY <2>1, <2>2, <3>1 DEF EndsMeet, Running
  <2>6. ASSUME crashes' = 0, NEW s \in Servers PROVE EndCalm(s)'
    <3>1. EndCalm(s)
      BY <2>2, <2>6 DEF FifoWaits, EndsCalm
    <3>2. Reader(s) => Reader(s)'
      BY <2>1, <2>2, <2>6 DEF Reader, Running
    <3> QED
      BY <2>1, <2>2, <2>6, <3>1, <3>2 DEF EndCalm, Running
  <2>7. removed' = {}
    BY <2>1 DEF FifoWaits, EndsInv
  <2> QED
    BY <2>3, <2>4, <2>5, <2>6, <2>7 DEF FifoWaits, EndsInv, EndsCalm
<1> QED
  BY <1>1, <1>2, StepOrRests

LEMMA FifoWaitsMeaning ==
    ASSUME CommonInv, FifoWaits, pair = "fifo", Quiet
    PROVE  /\ \A s \in Servers, c \in Clients : Running(s) =>
                /\ ~ (heard[c] = s /\ status[c] = "done")
                /\ ~ WaitsOnObjectOf(c, s)
           /\ crashes = 0 => \A c \in Clients : Running(c) =>
                /\ status[Instance(c)] = "done"
                /\ \E d \in Clients \ {c} : heard[d] = Instance(c)
<1> USE Roles
<1>1. /\ \A s \in Servers : EndServer(s) /\ EndText(s)
      /\ \A c \in Clients : EndClient(c)
      /\ \A s \in Servers, c \in Clients : EndsMeet(s, c)
      /\ crashes = 0 => \A s \in Servers : EndCalm(s)
  BY DEF FifoWaits, EndsInv, EndsCalm
<1>2. ASSUME NEW s \in Servers, Running(s) PROVE at[s] = 4 /\ s \notin met
  <2>1. Blocked(s) /\ s \in Procs
    BY <1>2 DEF Quiet
  <2>2. at[s] \in 1 .. 7 /\ Name(s) = "fifo"
    BY FifoCalls
  <2>3. at[s] # 4 => Program(s)[at[s]][1] \notin {"meet", "receive", "read", "poll", "wait"}
    <3>1. at[s] # 4 => Program(s)[at[s]][1] \in {"unlink", "mkfifo", "openEnd", "send", "close"}
      BY <2>1, <2>2, FifoCalls
    <3> QED
      BY <3>1
  <2>4. at[s] = 4
    BY <2>1, <2>3 DEF Blocked, Calls
  <2>5. Program(s)[at[s]] = <<"meet", "fifo">>
    BY <2>1, <2>4, FifoCalls
  <2>6. \A x : Calls(s, x) => x = "meet"
    BY <2>5, CallsAt
  <2> QED
    BY <2>1, <2>4, <2>6 DEF Blocked
<1>3. ASSUME NEW c \in Clients, Running(c)
      PROVE  /\ Name(c) = "fifo" /\ Instance(c) = handle[c]["fifo"] /\ at[c] > 1
             /\ \/ at[c] = 2 /\ c \notin met
                \/ /\ at[c] = 3 /\ content["fifo"][handle[c]["fifo"]] = << >>
                   /\ Partners(c, handle[c]["fifo"]) # {}
  <2>1. Blocked(c) /\ c \in Procs
    BY <1>3 DEF Quiet
  <2>2. at[c] \in 1 .. 3 /\ Name(c) = "fifo"
    BY <2>1, FifoCalls
  <2>3. /\ at[c] = 1 => Program(c)[at[c]] = <<"openEnd", "fifo">>
        /\ at[c] = 2 => Program(c)[at[c]] = <<"meet", "fifo">>
        /\ at[c] = 3 => Program(c)[at[c]] = <<"read", "fifo">>
    BY <2>1, FifoCalls
  <2>4. /\ at[c] = 1 => \A x : Calls(c, x) => x = "openEnd"
        /\ at[c] = 2 => \A x : Calls(c, x) => x = "meet"
        /\ at[c] = 3 => \A x : Calls(c, x) => x = "read"
    BY <2>3, CallsAt
  <2>5. Instance(c) = handle[c]["fifo"] /\ Content(c) = content["fifo"][handle[c]["fifo"]]
    BY <2>2 DEF Instance, Content
  <2>6. CASE at[c] = 1
    BY <2>1, <2>4, <2>6 DEF Blocked
  <2>7. CASE at[c] = 2
    BY <2>1, <2>2, <2>4, <2>5, <2>7 DEF Blocked
  <2>8. CASE at[c] = 3
    BY <2>1, <2>2, <2>4, <2>5, <2>8 DEF Blocked
  <2> QED
    BY <2>2, <2>6, <2>7, <2>8
<1>4. ASSUME NEW s \in Servers, NEW c \in Clients, Running(s), Running(c), handle[c]["fifo"] = s
      PROVE  FALSE
  <2>1. at[s] = 4 /\ s \notin met /\ at[c] > 1
    BY <1>2, <1>3, <1>4
  <2> QED
    BY <1>1, <1>4, <2>1 DEF EndsMeet
<1>5. ASSUME NEW s \in Servers, NEW c \in Clients, Running(s)
      PROVE  ~ (heard[c] = s /\ status[c] = "done") /\ ~ WaitsOnObjectOf(c, s)
  <2>1. at[s] = 4
    BY <1>2, <1>5
  <2>2. heard[c] # s
    BY <1>1, <2>1 DEF EndClient
  <2>3. ~ WaitsOnObjectOf(c, s)
    <3> SUFFICES ASSUME WaitsOnObjectOf(c, s) PROVE FALSE
      OBVIOUS
    <3>1. Running(c) /\ handle[s]["fifo"] = handle[c]["fifo"]
      BY <1>3 DEF WaitsOnObjectOf
    <3>2. handle[s]["fifo"] = s
      BY <1>1, <2>1 DEF EndServer
    <3> QED
      BY <1>4, <1>5, <3>1, <3>2
  <2> QED
    BY <2>2, <2>3
<1>6. ASSUME crashes = 0, NEW c \in Clients, Running(c)
      PROVE  /\ status[Instance(c)] = "done"
             /\ \E d \in Clients \ {c} : heard[d] = Instance(c)
  <2> DEFINE inst == handle[c]["fifo"]
  <2>1. inst \in Servers /\ Instance(c) = inst /\ inst \in Procs /\ c \in Procs /\ inst # Nobody
    <3>1. Instance(c) = inst /\ at[c] > 1
      BY <1>3, <1>6
    <3> QED
      BY <1>1, <3>1 DEF EndClient
  <2>2. ~ Running(inst)
    BY <1>4, <1>6, <2>1
  <2>3. status[inst] # "unborn"
    BY <2>1, FifoFunctions DEF CommonInv, LivesInv
  <2>4. status[inst] = "done"
    <3>1. status[inst] \notin {"failed", "dead"} /\ status[inst] \in Statuses
      BY <1>1, <1>6, <2>1, FifoFunctions DEF EndCalm
    <3> QED
      BY <2>2, <2>3, <3>1 DEF Running, Statuses
  <2>5. at[inst] = 7
    BY <2>1, <2>4, FifoCalls DEF CommonInv, LivesInv
  <2>6. content["fifo"][inst] = << >>
    <3> SUFFICES ASSUME content["fifo"][inst] # << >> PROVE FALSE
      OBVIOUS
    <3>1. PICK d \in Clients : Running(d) /\ at[d] > 1 /\ d \in met /\ handle[d]["fifo"] = inst
      BY <1>1, <1>6, <2>1 DEF EndCalm, Reader
    <3> QED
      BY <1>3, <3>1
  <2>7. PICK d \in Clients : heard[d] = inst
    <3>1. EndText(inst) /\ at[inst] > 5
      BY <1>1, <2>1, <2>5
    <3> HIDE DEF inst
    <3> QED
      BY <2>6, <3>1 DEF EndText
  <2>8. d # c
    BY <1>1, <1>6, <2>1, <2>7 DEF EndClient, Running
  <2> QED
    BY <2>1, <2>4, <2>7, <2>8
<1> QED
  BY <1>5, <1>6

-----------------------------------------------------------------------------

WaitsInv == UnbornInv /\ SharedWaits /\ QueueWaits /\ FifoWaits

LEMMA WaitsMeaning == CommonInv /\ QueuesInv /\ WaitsInv => NobodyWaitsInVain
<1> SUFFICES ASSUME CommonInv, QueuesInv, WaitsInv, Quiet
             PROVE  /\ \A s \in Servers, c \in Clients : Running(s) =>
                         /\ ~ (heard[c] = s /\ status[c] = "done")
                         /\ WaitsOnObjectOf(c, s) =>
                                \E d \in Clients : heard[d] = s /\ status[d] = "dead"
                    /\ crashes = 0 => \A c \in Clients : Running(c) =>
                         /\ status[Instance(c)] = "done"
                         /\ \E d \in Clients \ {c} : heard[d] = Instance(c)
                         /\ pair # "sysvQueue"
  BY DEF NobodyWaitsInVain
<1>1. UnbornInv /\ SharedWaits /\ QueueWaits /\ FifoWaits
  BY DEF WaitsInv
<1>2. CASE pair = "fifo"
  BY <1>1, <1>2, FifoWaitsMeaning
<1>3. CASE OverQueues
  BY <1>1, <1>3, QueueWaitsMeaning
<1>4. CASE SharedText
  <2>1. /\ \A c \in Clients : ~ Running(c)
        /\ \A s \in Servers, c \in Clients : Running(s) => ~ (heard[c] = s /\ status[c] = "done")
    BY <1>1, <1>4, SharedWaitsMeaning
  <2>2. \A s \in Servers, c \in Clients : ~ WaitsOnObjectOf(c, s)
    BY <2>1 DEF WaitsOnObjectOf
  <2> QED
    BY <2>1, <2>2
<1>5. pair \in Pairs
  BY DEF CommonInv, HandshakeTypes
<1> QED
  BY <1>2, <1>3, <1>4, <1>5 DEF Pairs, OverQueues, SharedText

LEMMA UnbornInitial == HandshakesInit => UnbornInv
  BY DEF HandshakesInit, UnbornInv

\* When nothing moves any more in lab12, lab13 and lab14, a server that still waits has
\* been heard by no client that has done its part, and who waits has lost its text to
\* another client or to the crash of one: for any servers, clients and crashes.
THEOREM NobodyWaitsInVainTheorem == HandshakesSpec => []NobodyWaitsInVain
<1>1. HandshakesInit => CommonInv /\ QueuesInv /\ WaitsInv
  BY CommonInitial, QueuesInitial, UnbornInitial, SharedWaitsInitial, QueueWaitsInitial,
     FifoWaitsInitial DEF WaitsInv
<1>2. CommonInv /\ QueuesInv /\ WaitsInv /\ [HandshakesNext]_handshakeVars =>
        CommonInv' /\ QueuesInv' /\ WaitsInv'
  <2> SUFFICES ASSUME CommonInv, QueuesInv, WaitsInv, [HandshakesNext]_handshakeVars
               PROVE  CommonInv' /\ QueuesInv' /\ WaitsInv'
    OBVIOUS
  <2>1. UnbornInv /\ SharedWaits /\ QueueWaits /\ FifoWaits /\ QueueInv
    BY DEF WaitsInv, QueuesInv
  <2>2. CommonInv' /\ QueuesInv'
    BY CommonStep, QueuesStep
  <2>3. UnbornInv' /\ SharedWaits'
    BY <2>1, UnbornStep, SharedWaitsStep
  <2>4. QueueWaits' /\ FifoWaits'
    BY <2>1, QueueWaitsStep, FifoWaitsStep
  <2> QED
    BY <2>2, <2>3, <2>4 DEF WaitsInv
<1> QED
  BY <1>1, <1>2, WaitsMeaning, PTL DEF HandshakesSpec
=============================================================================
