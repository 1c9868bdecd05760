---------------------------- MODULE MqChatProofs ----------------------------
(***************************************************************************)
(* Proofs about MqChat for any number of clients, slots and lines and any    *)
(* size of the queues: an id leads to nobody but the client it was given to,  *)
(* no member misses a text of the server, and nobody gets another's.          *)
(***************************************************************************)
EXTENDS MqChat, TLAPS, SequenceTheorems, FiniteSetTheorems, WellFoundedInduction

Texts == [kind : {"none", "ok", "join", "say", "leave", "list", "down"},
          of : SUBSET Clients, n : Int]
Requests == [verb : {"REG", "MSG", "QUIT"}, from : Clients, id : Int, n : Nat]
Jobs == [who : Clients \cup {Nobody}, slot : Slots, sender : Int, text : Texts, users : BOOLEAN]
Rows == [who : Clients \cup {Nobody}, id : Int, queue : Int, active : BOOLEAN]

NumberTypes ==
    /\ IsFiniteSet(DOMAIN numbers) /\ DOMAIN numbers \subseteq Nat
    /\ numbers \in [DOMAIN numbers -> Clients \cup {Nobody}]
    /\ held \in [Threads -> Clients \cup {Nobody}]

Types ==
    /\ clients \in [Slots -> Rows] /\ next_id \in Nat
    /\ handler \in {"receive", "open", "ok", "all", "list", "off"} /\ job \in Jobs /\ at \in Nat
    /\ stopping \in Int /\ NumberTypes
    /\ server_q \in Seq(Requests) /\ client_q \in [Clients -> Seq(Texts)]
    /\ pc \in [Clients -> {"out", "joining", "waiting", "typing", "saying", "quitting",
                           "sleeping", "failing", "failed", "gone"}]
    /\ reading \in [Clients -> BOOLEAN] /\ running \in [Clients -> BOOLEAN]
    /\ client_id \in [Clients -> Int]
    /\ lines \in Nat
    /\ due \in [Clients -> Seq(Texts)] /\ heard \in [Clients -> Seq(Texts)]

\* No two slots belong to one client.
TableInv ==
    /\ \A s \in Active : clients[s].who \in Clients
    /\ \A s, t \in Active : clients[s].who = clients[t].who => s = t

\* What the handler's job says of the table while it serves it.
JobInv ==
    /\ job.text.kind # "ok"
    /\ handler \in {"receive", "off"} => job = NoJob /\ at = 0
    /\ handler \in {"open", "ok"} =>
         /\ at = 0 /\ job.users = TRUE
         /\ job.slot \in Active
         /\ clients[job.slot].who = job.who /\ clients[job.slot].id = job.sender
    /\ handler \in {"open", "ok", "all"} =>
         \A s \in Active : (clients[s].id = job.sender) <=> (job.text.of = {clients[s].who})

\* Active slots whose queue has been opened.
Opened == {s \in Active : ~(handler = "open" /\ s = job.slot)}

\* The server's numbers against its table.  A queue has one number at most, and none
\* once it was closed under a thread that still sends to it.  Until the handler takes
\* its last request a number leads to its slot's client or nowhere.
NumbersInv ==
    /\ \A d, e \in DOMAIN numbers : numbers[d] = numbers[e] /\ numbers[d] # Nobody => d = e
    /\ \A t \in Threads : held[t] # Nobody => \A d \in DOMAIN numbers : numbers[d] # held[t]
    /\ stopping = -1 => \A s \in Opened : LeadsHome(s)
    /\ handler \in {"receive", "open"} =>
         \A s \in Opened : clients[s].queue \in DOMAIN numbers => LeadsHome(s)
    /\ held["handler"] # Nobody =>
         \/ handler = "ok" /\ held["handler"] = job.who
         \/ handler \in {"all", "list"} /\ Targets(handler, at) # {}
    /\ handler = "ok" /\ clients[job.slot].queue \in DOMAIN numbers => LeadsHome(job.slot)
    /\ held["handler"] # Nobody =>
         \A s \in SendsTo("handler") : clients[s].queue \notin DOMAIN numbers

HasReg(c) == \E k \in DOMAIN server_q : server_q[k].verb = "REG" /\ server_q[k].from = c

\* A client whose REG the handler has not taken yet.
Fresh(c) == pc[c] \in {"out", "joining"} \/ HasReg(c)

\* Nothing has reached it, and nothing can.
Quiet(c) ==
    /\ client_q[c] = <<>> /\ heard[c] = <<>> /\ client_id[c] = -1
    /\ \A d \in DOMAIN numbers : numbers[d] # c
    /\ \A t \in Threads : held[t] # c

Unknown(c) == c \notin Members /\ job.who # c /\ Quiet(c) /\ due[c] = <<>>

\* It sends REG once, and until that is taken nobody knows it; nothing can reach it
\* before its queue is opened.
FreshInv ==
    /\ \A c \in Clients : Fresh(c) => Unknown(c)
    /\ \A c \in Clients : pc[c] \in {"out", "joining"} => ~HasReg(c)
    /\ \A j, k \in DOMAIN server_q :
         /\ server_q[j].verb = "REG" /\ server_q[k].verb = "REG"
         /\ server_q[j].from = server_q[k].from
         => j = k
    /\ handler = "open" => Quiet(job.who) /\ due[job.who] = <<>>

\* The id n is c's: in its slot, in its memory or on the way to or from it.
Holds(c, n) ==
    \/ \E s \in Active : clients[s].who = c /\ clients[s].id = n
    \/ client_id[c] = n /\ n # -1
    \/ \E k \in DOMAIN client_q[c] : client_q[c][k].kind = "ok" /\ client_q[c][k].n = n
    \/ handler = "ok" /\ job.who = c /\ job.sender = n
    \/ \E k \in DOMAIN server_q : server_q[k].from = c /\ server_q[k].id = n /\ n # -1

\* An id is given out once, to one client.
IdInv ==
    /\ \A c \in Clients : \A n : Holds(c, n) => n \in Nat /\ n < next_id
    /\ \A c, d \in Clients : \A n : Holds(c, n) /\ Holds(d, n) => c = d

IInv == Types /\ TableInv /\ JobInv /\ NumbersInv /\ FreshInv /\ IdInv

-----------------------------------------------------------------------------
(* Sequences and sets.                                                      *)

LEMMA TailFacts ==
    ASSUME NEW S, NEW q \in Seq(S), q # << >>
    PROVE  /\ 1 \in DOMAIN q /\ Head(q) = q[1] /\ Head(q) \in S
           /\ Tail(q) \in Seq(S)
           /\ DOMAIN Tail(q) = 1 .. Len(q) - 1
           /\ \A m \in DOMAIN Tail(q) : m + 1 \in DOMAIN q /\ m + 1 # 1 /\ Tail(q)[m] = q[m + 1]
           /\ q = << Head(q) >> \o Tail(q)
<1>1. Len(q) \in Nat \ {0} /\ DOMAIN q = 1 .. Len(q) /\ Head(q) = q[1]
  BY EmptySeq, LenProperties
<1>2. /\ Head(q) \in S /\ Tail(q) \in Seq(S) /\ Len(Tail(q)) = Len(q) - 1
      /\ \A i \in 1 .. Len(Tail(q)) : Tail(q)[i] = q[i + 1]
  BY HeadTailProperties
<1>3. DOMAIN Tail(q) = 1 .. Len(q) - 1
  BY <1>2, LenProperties
<1>4. \A m \in DOMAIN Tail(q) : m + 1 \in DOMAIN q /\ m + 1 # 1 /\ Tail(q)[m] = q[m + 1]
  BY <1>1, <1>2, <1>3
<1>5. q = << Head(q) >> \o Tail(q)
  <2> DEFINE o == << Head(q) >>
             r == o \o Tail(q)
  <2>1. o \in Seq(S) /\ Len(o) = 1 /\ o[1] = Head(q)
    BY <1>2
  <2>2. /\ r \in Seq(S) /\ Len(r) = Len(o) + Len(Tail(q))
        /\ \A i \in 1 .. Len(o) + Len(Tail(q)) : r[i] = IF i <= Len(o) THEN o[i] ELSE Tail(q)[i - Len(o)]
    BY <1>2, <2>1, ConcatProperties
  <2>3. Len(r) = Len(q)
    BY <1>1, <1>2, <2>1, <2>2
  <2>4. \A i \in 1 .. Len(r) : r[i] = q[i]
    <3> SUFFICES ASSUME NEW i \in 1 .. Len(r) PROVE r[i] = q[i]
      OBVIOUS
    <3>1. r[i] = IF i <= 1 THEN o[i] ELSE Tail(q)[i - 1]
      BY <2>1, <2>2
    <3>2. CASE i = 1
      BY <1>1, <2>1, <3>1, <3>2
    <3>3. CASE i # 1
      <4>1. i - 1 \in 1 .. Len(Tail(q)) /\ (i - 1) + 1 = i /\ ~(i <= 1)
        BY <1>1, <1>2, <2>3, <3>3
      <4> QED
        BY <1>2, <3>1, <4>1
    <3> QED
      BY <3>2, <3>3
  <2> HIDE DEF o, r
  <2>5. r = q
    BY <2>2, <2>3, <2>4, SeqEqual
  <2> QED
    BY <2>5 DEF r, o
<1> QED
  BY <1>1, <1>2, <1>3, <1>4, <1>5

LEMMA AppendFacts ==
    ASSUME NEW S, NEW q \in Seq(S), NEW e \in S
    PROVE  /\ Append(q, e) \in Seq(S)
           /\ Len(q) \in Nat /\ DOMAIN q = 1 .. Len(q) /\ Len(q) + 1 \notin DOMAIN q
           /\ DOMAIN Append(q, e) = DOMAIN q \cup {Len(q) + 1}
           /\ \A m \in DOMAIN q : Append(q, e)[m] = q[m]
           /\ Append(q, e)[Len(q) + 1] = e
           /\ Append(q, e) = q \o << e >>
<1>1. Len(q) \in Nat /\ DOMAIN q = 1 .. Len(q)
  BY LenProperties
<1>2. /\ Append(q, e) \in Seq(S) /\ Len(Append(q, e)) = Len(q) + 1
      /\ \A i \in 1 .. Len(q) : Append(q, e)[i] = q[i]
      /\ Append(q, e)[Len(q) + 1] = e
  BY AppendProperties
<1>3. DOMAIN Append(q, e) = 1 .. Len(q) + 1
  BY <1>2, LenProperties
<1>4. Append(q, e) = q \o << e >>
  BY AppendIsConcat
<1> QED
  BY <1>1, <1>2, <1>3, <1>4

\* A non-empty finite set of numbers has a smallest: of the sets of the members below
\* each of its members, take a minimal one.
LEMMA Smallest ==
    ASSUME NEW S \in SUBSET Int, IsFiniteSet(S), S # {}
    PROVE  Min(S) \in S /\ \A y \in S : Min(S) <= y
<1> DEFINE Below(x) == {y \in S : y < x}
           Sets == {Below(x) : x \in S}
<1>1. Sets \subseteq FiniteSubsetsOf(S) /\ Sets # {}
  <2>1. FiniteSubsetsOf(S) = SUBSET S
    BY FS_FiniteSubsetsOfFinite
  <2>2. \A x \in S : Below(x) \in SUBSET S
    OBVIOUS
  <2>3. \A B \in Sets : B \in SUBSET S
    BY <2>2
  <2>4. PICK e \in S : TRUE
    OBVIOUS
  <2>5. Below(e) \in Sets
    OBVIOUS
  <2> HIDE DEF Sets
  <2> QED
    BY <2>1, <2>3, <2>5
<1>2. PICK B \in Sets : \A C \in Sets : ~(<<C, B>> \in StrictSubsetOrdering(S))
  BY <1>1, FS_StrictSubsetOrderingWellFounded, WFMin
<1>3. PICK x \in S : B = Below(x)
  OBVIOUS
<1>4. ASSUME NEW y \in S, y < x PROVE FALSE
  <2>1. Below(y) \subseteq Below(x) /\ y \in Below(x) /\ y \notin Below(y)
    <3>1. \A z \in S : z \in Int /\ (z < y => z < x) /\ ~(y < y)
      <4>1. x \in Int /\ y \in Int /\ \A z \in S : z \in Int
        OBVIOUS
      <4> QED
        BY <4>1, <1>4
    <3> QED
      BY <3>1, <1>4
  <2>2. Below(y) # Below(x)
    BY <2>1
  <2>3. Below(y) \in SUBSET S /\ Below(x) \in SUBSET S
    OBVIOUS
  <2>4. <<Below(y), Below(x)>> \in StrictSubsetOrdering(S)
    BY <2>1, <2>2, <2>3 DEF StrictSubsetOrdering
  <2>5. Below(y) \in Sets
    OBVIOUS
  <2> QED
    BY <1>2, <1>3, <2>4, <2>5
<1>5. \A y \in S : x <= y
  <2>1. x \in Int /\ \A y \in S : y \in Int
    OBVIOUS
  <2> QED
    BY <1>4, <2>1
<1> QED
  BY <1>5 DEF Min

LEMMA SmallestSlot ==
    ASSUME NEW S \in SUBSET Slots, S # {}
    PROVE  Min(S) \in S /\ \A y \in S : Min(S) <= y
<1>1. IsFiniteSet(Slots)
  BY FS_Interval, SizesAssumption DEF Slots
<1>2. IsFiniteSet(S)
  BY <1>1, FS_Subset
<1>3. S \in SUBSET Int
  <2>1. \A s \in Slots : s \in Int
    BY SizesAssumption DEF Slots
  <2> QED
    BY <2>1
<1> QED
  BY <1>2, <1>3, Smallest

\* Of so many numbers that not all can be open one is free.
LEMMA FreeNumber ==
    ASSUME NumberTypes
    PROVE  LowestFree \in Nat /\ LowestFree \notin DOMAIN numbers
<1> DEFINE D == DOMAIN numbers
           n == Cardinality(D)
           Candidates == 0 .. n
<1>1. IsFiniteSet(D) /\ n \in Nat
  BY FS_CardinalityType DEF NumberTypes
<1>2. IsFiniteSet(Candidates) /\ Cardinality(Candidates) = n + 1
  BY <1>1, FS_Interval
<1>3. ~(Candidates \subseteq D)
  <2> HIDE DEF D, Candidates
  <2>1. Candidates \subseteq D => Cardinality(Candidates) <= Cardinality(D)
    BY <1>1, FS_Subset
  <2> QED
    BY <1>1, <1>2, <2>1
<1>4. Candidates \ D # {} /\ Candidates \ D \in SUBSET Int /\ Candidates \ D \in SUBSET Nat
  <2>1. Candidates \subseteq Nat
    BY <1>1
  <2> HIDE DEF Candidates, D
  <2>2. Candidates \ D # {}
    BY <1>3
  <2>3. Candidates \ D \in SUBSET Nat
    BY <2>1
  <2>4. Candidates \ D \in SUBSET Int
    BY <2>3
  <2> QED
    BY <2>2, <2>3, <2>4
<1>5. IsFiniteSet(Candidates \ D)
  <2> HIDE DEF Candidates, D
  <2> QED
    BY <1>2, FS_Subset
<1>6. Min(Candidates \ D) \in Candidates \ D
  <2> HIDE DEF Candidates, D
  <2> QED
    BY <1>4, <1>5, Smallest
<1>7. LowestFree = Min(Candidates \ D)
  BY DEF LowestFree
<1> HIDE DEF Candidates, D
<1>8. LowestFree \in Nat /\ LowestFree \notin D
  BY <1>4, <1>6, <1>7
<1> QED
  BY <1>8 DEF D

LEMMA SlotFacts ==
    /\ \A s \in Slots : s \in Nat /\ s + 1 \in Nat
    /\ Active \subseteq Slots
    /\ Active # Slots => Min(Slots \ Active) \in Slots \ Active
    /\ \A id : FindById(id) # {} => Min(FindById(id)) \in FindById(id)
    /\ \A place, from : Targets(place, from) # {} =>
         /\ Min(Targets(place, from)) \in Targets(place, from)
         /\ \A s \in Targets(place, from) : Min(Targets(place, from)) <= s
<1>1. \A s \in Slots : s \in Nat /\ s + 1 \in Nat
  BY SizesAssumption DEF Slots
<1>2. Active \subseteq Slots
  BY DEF Active
<1>3. Active # Slots => Min(Slots \ Active) \in Slots \ Active
  BY <1>2, SmallestSlot
<1>4. \A id : FindById(id) \subseteq Slots
  BY <1>2 DEF FindById
<1>5. \A place, from : Targets(place, from) \subseteq Slots
  BY <1>2 DEF Targets
<1> QED
  BY <1>1, <1>2, <1>3, <1>4, <1>5, SmallestSlot

\* What the handler takes is a request; the rest of the queue stays in order.
LEMMA ReceivedFacts ==
    ASSUME Types, NEW verb, Received(verb)
    PROVE  /\ 1 \in DOMAIN server_q /\ Head(server_q) = server_q[1]
           /\ Head(server_q) \in Requests /\ Head(server_q).verb = verb
           /\ server_q' \in Seq(Requests)
           /\ \A m \in DOMAIN server_q' :
                m + 1 \in DOMAIN server_q /\ m + 1 # 1 /\ server_q'[m] = server_q[m + 1]
<1>1. server_q \in Seq(Requests) /\ server_q # <<>> /\ server_q' = Tail(server_q)
  BY DEF Types, Received
<1> HIDE DEF Requests
<1> QED
  BY <1>1, TailFacts DEF Received

LEMMA NoJobTypes == NoJob \in Jobs
<1>1. 0 \in Slots
  BY SizesAssumption DEF Slots
<1> QED
  BY <1>1 DEF NoJob, Jobs, Text, Texts

LEMMA BeginTypes ==
    ASSUME NEW place, NEW c \in Clients, NEW slot \in Slots, NEW n \in Int,
           NEW text \in Texts, NEW users \in BOOLEAN, Begin(place, c, slot, n, text, users)
    PROVE  job' \in Jobs /\ handler' = place /\ at' = 0 /\ at' \in Nat
<1> HIDE DEF Texts
<1> QED
  BY DEF Begin, Jobs

LEMMA TextTypes ==
    /\ \A n \in Int : Text("ok", {}, n) \in Texts
    /\ \A c \in Clients : \A n \in Int : Text("say", {c}, n) \in Texts
    /\ \A c \in Clients : Text("join", {c}, 0) \in Texts /\ Text("leave", {c}, 0) \in Texts
    /\ Text("down", {}, 0) \in Texts
  BY DEF Text, Texts

LEMMA ListTypes ==
    ASSUME NEW t, \A s \in Slots : t[s].active => t[s].who \in Clients
    PROVE  UserList(t) \in Texts
  BY DEF UserList, Text, Texts

\* What goes to a client beside what it has got already.
LEMMA HearsTypes ==
    ASSUME NEW t, \A s \in Slots : t[s].active => t[s].who \in Clients,
           NEW c \in Clients, NEW text \in Texts, NEW users \in BOOLEAN
    PROVE  Hears(c, text, users, t) \in Seq(Texts)
<1>1. UserList(t) \in Texts
  BY ListTypes
<1> DEFINE u == UserList(t)
           a == IF text.of = {c} THEN <<>> ELSE <<text>>
           b == IF users THEN <<u>> ELSE <<>>
<1> HIDE DEF u, Texts
<1>2. a \in Seq(Texts) /\ b \in Seq(Texts)
  <2>1. <<text>> \in Seq(Texts) /\ <<u>> \in Seq(Texts) /\ <<>> \in Seq(Texts)
    BY <1>1 DEF u
  <2> QED
    BY <2>1
<1>3. Hears(c, text, users, t) = a \o b
  BY DEF Hears, u
<1> HIDE DEF a, b
<1> QED
  BY <1>2, <1>3, ConcatProperties

LEMMA OwedTypes ==
    ASSUME NEW t, \A s \in Slots : t[s].active => t[s].who \in Clients,
           NEW text \in Texts, NEW users \in BOOLEAN, due \in [Clients -> Seq(Texts)]
    PROVE  Owed(text, users, t) \in [Clients -> Seq(Texts)]
<1>1. \A c \in Clients : due[c] \in Seq(Texts) /\ Hears(c, text, users, t) \in Seq(Texts)
  BY HearsTypes
<1> HIDE DEF Texts
<1>2. \A c \in Clients : due[c] \o Hears(c, text, users, t) \in Seq(Texts)
  BY <1>1, ConcatProperties
<1> QED
  BY <1>1, <1>2 DEF Owed

-----------------------------------------------------------------------------
(* Types.                                                                   *)

LEMMA RequestTypes ==
    ASSUME Types, NEW c \in Clients, NEW n \in Nat, NEW v \in {"REG", "MSG", "QUIT"}
    PROVE  Request(v, c, n) \in Requests
  BY DEF Types, Request, Requests

LEMMA ToServerTypes ==
    ASSUME Types, NEW r \in Requests, ToServer(r)
    PROVE  server_q' \in Seq(Requests)
<1> HIDE DEF Requests
<1> QED
  BY AppendProperties DEF Types, ToServer

\* A send reaches one client's queue or none, and lets go of what held its thread.
LEMMA DeliverFacts ==
    ASSUME Types, NEW t \in Threads, NEW d, NEW text \in Texts, Deliver(t, d, text)
    PROVE  /\ client_q' \in [Clients -> Seq(Texts)]
           /\ held' \in [Threads -> Clients \cup {Nobody}] /\ held'[t] = Nobody
           /\ \A u \in Threads : u # t => held'[u] = held[u]
           /\ \/ Reaches(t, d) = Nobody /\ client_q' = client_q
              \/ /\ Reaches(t, d) \in Clients
                 /\ client_q' = [client_q EXCEPT ![Reaches(t, d)] = Append(@, text)]
                 /\ \/ Reaches(t, d) = held[t]
                    \/ held[t] = Nobody /\ d \in DOMAIN numbers /\ Reaches(t, d) = numbers[d]
<1> DEFINE c == Reaches(t, d)
<1>1. /\ IF c = Nobody THEN client_q' = client_q
         ELSE client_q' = [client_q EXCEPT ![c] = Append(@, text)]
      /\ held' = [held EXCEPT ![t] = Nobody]
  BY DEF Deliver
<1>2. /\ c \in Clients \cup {Nobody}
      /\ c # Nobody => \/ c = held[t]
                       \/ held[t] = Nobody /\ d \in DOMAIN numbers /\ c = numbers[d]
  BY DEF Reaches, Types, NumberTypes
<1>3. /\ held' \in [Threads -> Clients \cup {Nobody}] /\ held'[t] = Nobody
      /\ \A u \in Threads : u # t => held'[u] = held[u]
  BY <1>1 DEF Types, NumberTypes
<1>4. client_q \in [Clients -> Seq(Texts)]
  BY DEF Types
<1>5. client_q' \in [Clients -> Seq(Texts)]
  <2> HIDE DEF Texts, c
  <2>1. c \in Clients => Append(client_q[c], text) \in Seq(Texts)
    BY <1>4, AppendProperties
  <2> QED
    BY <1>1, <1>2, <1>4, <2>1
<1> HIDE DEF c, Texts
<1>6. \/ c = Nobody /\ client_q' = client_q
      \/ /\ c \in Clients
         /\ client_q' = [client_q EXCEPT ![c] = Append(@, text)]
         /\ c = held[t] \/ (held[t] = Nobody /\ d \in DOMAIN numbers /\ c = numbers[d])
  BY <1>1, <1>2
<1> QED
  BY <1>3, <1>5, <1>6 DEF c

LEMMA CloseFacts ==
    ASSUME NumberTypes, NEW d, NEW t \in Threads, Close(d, t)
    PROVE  /\ NumberTypes'
           /\ DOMAIN numbers' = DOMAIN numbers \ {d}
           /\ \A e \in DOMAIN numbers' : numbers'[e] = numbers[e]
           /\ \A u \in Threads : u # t => held'[u] = held[u]
           /\ \/ held'[t] = held[t]
              \/ /\ d \in DOMAIN numbers /\ held'[t] = numbers[d] /\ held[t] = Nobody
                 /\ \E s \in SendsTo(t) : clients[s].queue = d
<1>1. numbers' = [e \in DOMAIN numbers \ {d} |-> numbers[e]]
  BY DEF Close
<1>2. /\ DOMAIN numbers' = DOMAIN numbers \ {d}
      /\ \A e \in DOMAIN numbers' : numbers'[e] = numbers[e]
  BY <1>1
<1>3. IsFiniteSet(DOMAIN numbers') /\ DOMAIN numbers' \subseteq Nat
  BY <1>2, FS_Subset DEF NumberTypes
<1>4. numbers' \in [DOMAIN numbers' -> Clients \cup {Nobody}]
  BY <1>1 DEF NumberTypes
<1>5. \/ held' = held
      \/ /\ d \in DOMAIN numbers /\ held[t] = Nobody
         /\ \E s \in SendsTo(t) : clients[s].queue = d
         /\ held' = [held EXCEPT ![t] = numbers[d]]
  BY DEF Close
<1>6. held \in [Threads -> Clients \cup {Nobody}]
  BY DEF NumberTypes
<1>7. /\ held' \in [Threads -> Clients \cup {Nobody}]
      /\ \A u \in Threads : u # t => held'[u] = held[u]
      /\ \/ held'[t] = held[t]
         \/ /\ d \in DOMAIN numbers /\ held'[t] = numbers[d] /\ held[t] = Nobody
            /\ \E s \in SendsTo(t) : clients[s].queue = d
  <2>1. d \in DOMAIN numbers => numbers[d] \in Clients \cup {Nobody}
    BY DEF NumberTypes
  <2>2. CASE held' = held
    BY <1>6, <2>2
  <2>3. CASE /\ d \in DOMAIN numbers /\ held[t] = Nobody
             /\ \E s \in SendsTo(t) : clients[s].queue = d
             /\ held' = [held EXCEPT ![t] = numbers[d]]
    BY <1>6, <2>1, <2>3
  <2> QED
    BY <1>5, <2>2, <2>3
<1> QED
  BY <1>2, <1>3, <1>4, <1>7 DEF NumberTypes

LEMMA OpenFacts ==
    ASSUME NumberTypes, NEW c \in Clients, Open(LowestFree, c), held' = held
    PROVE  /\ NumberTypes'
           /\ LowestFree \in Int /\ LowestFree \notin DOMAIN numbers
           /\ DOMAIN numbers' = DOMAIN numbers \cup {LowestFree}
           /\ numbers'[LowestFree] = c
           /\ \A e \in DOMAIN numbers : numbers'[e] = numbers[e]
<1> DEFINE d == LowestFree
<1>1. d \in Nat /\ d \in Int /\ d \notin DOMAIN numbers
  BY FreeNumber
<1>2. numbers' = [e \in DOMAIN numbers \cup {d} |-> IF e = d THEN c ELSE numbers[e]]
  BY DEF Open
<1> HIDE DEF d
<1>3. /\ DOMAIN numbers' = DOMAIN numbers \cup {d} /\ numbers'[d] = c
      /\ \A e \in DOMAIN numbers : numbers'[e] = numbers[e]
  BY <1>1, <1>2
<1>4. IsFiniteSet(DOMAIN numbers')
  BY <1>3, FS_AddElement DEF NumberTypes
<1>5. numbers' \in [DOMAIN numbers' -> Clients \cup {Nobody}]
  BY <1>2, <1>3 DEF NumberTypes
<1>6. DOMAIN numbers' \subseteq Nat
  BY <1>1, <1>3 DEF NumberTypes
<1> QED
  BY <1>1, <1>3, <1>4, <1>5, <1>6 DEF NumberTypes, d

LEMMA RestTypes ==
    ASSUME Rest
    PROVE  /\ handler' \in {"receive", "off"}
           /\ job' = NoJob /\ job' \in Jobs /\ at' = 0 /\ at' \in Nat
  BY NoJobTypes DEF Rest

-----------------------------------------------------------------------------
(* What the handler's steps do to the table.                                 *)

\* The members of a table are clients.
LEMMA MembersFacts ==
    ASSUME Types, TableInv
    PROVE  \A s \in Slots : clients[s].active => clients[s].who \in Clients
  BY DEF TableInv, Active

\* A REG that finds a slot.
Takes(c, slot) ==
    /\ server_q[1].verb = "REG" /\ server_q[1].from = c
    /\ clients' \in [Slots -> Rows]
    /\ Active' = Active \cup {slot}
    /\ clients'[slot].who = c /\ clients'[slot].id = next_id
    /\ \A s \in Active : clients'[s] = clients[s]
    /\ next_id' = next_id + 1 /\ next_id' \in Nat
    /\ handler' = "open" /\ at' = 0 /\ job' \in Jobs
    /\ job' = [who |-> c, slot |-> slot, sender |-> next_id, text |-> Text("join", {c}, 0),
               users |-> TRUE]

LEMMA TakeFacts ==
    ASSUME Types, TableInv, TakeSlot, Active # Slots
    PROVE  \E c \in Clients, slot \in Slots \ Active : Takes(c, slot)
<1> DEFINE c == Head(server_q).from
           slot == Min(Slots \ Active)
           t == [clients EXCEPT ![slot].who = c, ![slot].id = next_id, ![slot].active = TRUE]
           join == Text("join", {c}, 0)
<1>1. /\ clients' = t /\ next_id' = NextId
      /\ Begin("open", c, slot, next_id, join, TRUE)
  BY DEF TakeSlot
<1>2. server_q[1] = Head(server_q) /\ Head(server_q) \in Requests /\ Head(server_q).verb = "REG"
  BY ReceivedFacts DEF TakeSlot
<1>3. c \in Clients /\ server_q[1].from = c /\ server_q[1].verb = "REG"
  BY <1>2 DEF Requests
<1>4. slot \in Slots \ Active /\ next_id \in Int /\ next_id \in Nat
  BY SlotFacts DEF Types
<1>5. next_id' = next_id + 1 /\ next_id' \in Nat
  BY <1>1, <1>4 DEF NextId
<1>6. /\ t \in [Slots -> Rows]
      /\ t[slot].who = c /\ t[slot].id = next_id /\ t[slot].active = TRUE
      /\ \A s \in Slots : s # slot => t[s] = clients[s]
  <2>1. clients \in [Slots -> Rows]
    BY DEF Types
  <2>2. PICK k \in Slots : k = slot
    BY <1>4
  <2>3. PICK e \in Clients : e = c
    BY <1>3
  <2> HIDE DEF slot, c
  <2> QED
    BY <1>4, <2>1, <2>2, <2>3 DEF Rows
<1>7. Active' = Active \cup {slot}
  <2> HIDE DEF t, slot
  <2> QED
    BY <1>1, <1>4, <1>6 DEF Active
<1>8. join \in Texts
  BY <1>3, TextTypes
<1>9. job' \in Jobs /\ handler' = "open" /\ at' = 0
  BY <1>1, <1>3, <1>4, <1>8, BeginTypes
<1>10. job' = [who |-> c, slot |-> slot, sender |-> next_id, text |-> join, users |-> TRUE]
  BY <1>1 DEF Begin
<1>11. \A s \in Active : clients'[s] = clients[s]
  <2> HIDE DEF t, slot
  <2> QED
    BY <1>1, <1>4, <1>6, SlotFacts
<1>12. clients'[slot].who = c /\ clients'[slot].id = next_id
  BY <1>1, <1>6
<1>13. clients' \in [Slots -> Rows]
  BY <1>1, <1>6
<1> HIDE DEF c, slot, t
<1> QED
  BY <1>3, <1>4, <1>5, <1>7, <1>9, <1>10, <1>11, <1>12, <1>13 DEF Takes

\* The queue of the newcomer c is opened.
Opens(c, slot) ==
    /\ c = job.who /\ slot = job.slot /\ slot \in Active
    /\ clients' \in [Slots -> Rows] /\ Active' = Active
    /\ clients'[slot].queue = LowestFree
    /\ clients'[slot].who = c /\ clients'[slot].id = clients[slot].id
    /\ \A s \in Active : s # slot => clients'[s] = clients[s]
    /\ \A s \in Active : clients'[s].who = clients[s].who /\ clients'[s].id = clients[s].id
    /\ Open(LowestFree, c) /\ held' = held
    /\ UserList(clients') \in Texts /\ Text("ok", {}, job.sender) \in Texts
    /\ due' \in [Clients -> Seq(Texts)]
    /\ due'[c] = <<Text("ok", {}, job.sender), UserList(clients')>>
    /\ \A e \in Clients : e # c => due'[e] = Owed(job.text, TRUE, clients')[e]

LEMMA OpensFacts ==
    ASSUME Types, TableInv, JobInv, OpenQueue
    PROVE  \E c \in Clients, slot \in Active : Opens(c, slot)
<1>1. job.slot \in Active /\ clients[job.slot].who = job.who
  BY DEF OpenQueue, JobInv
<1>2. PICK slot \in Active : slot = job.slot
  BY <1>1
<1>3. PICK c \in Clients : c = job.who
  BY <1>1 DEF TableInv
<1>4. slot \in Slots /\ clients \in [Slots -> Rows] /\ LowestFree \in Int
  BY FreeNumber DEF Types, Active
<1> DEFINE t == [clients EXCEPT ![slot].queue = LowestFree]
           ok == Text("ok", {}, job.sender)
           owed == Owed(job.text, TRUE, t)
<1>5. /\ clients' = t
      /\ due' = [owed EXCEPT ![c] = <<ok, UserList(t)>>]
  BY <1>2, <1>3 DEF OpenQueue
<1>6. Open(LowestFree, c) /\ held' = held
  BY <1>3 DEF OpenQueue
<1>7. /\ t \in [Slots -> Rows] /\ t[slot].queue = LowestFree
      /\ t[slot].who = clients[slot].who /\ t[slot].id = clients[slot].id
      /\ t[slot].active = clients[slot].active
      /\ \A s \in Slots : s # slot => t[s] = clients[s]
  <2> HIDE DEF LowestFree
  <2> QED
    BY <1>4 DEF Rows
<1> HIDE DEF t
<1>8. /\ \A s \in Slots : /\ t[s].active = clients[s].active
                          /\ t[s].who = clients[s].who /\ t[s].id = clients[s].id
      /\ \A s \in Slots : t[s].active => t[s].who \in Clients
  BY <1>7, MembersFacts
<1>9. Active' = Active
  BY <1>5, <1>8 DEF Active
<1>10. job.sender \in Int /\ job.text \in Texts /\ TRUE \in BOOLEAN
  BY DEF Types, Jobs
<1>11. ok \in Texts /\ UserList(t) \in Texts
  BY <1>8, <1>10, TextTypes, ListTypes
<1>12. owed \in [Clients -> Seq(Texts)]
  <2>1. due \in [Clients -> Seq(Texts)]
    BY DEF Types
  <2> QED
    BY <1>8, <1>10, <2>1, OwedTypes
<1> HIDE DEF ok, owed, Texts
<1>13. <<ok, UserList(t)>> \in Seq(Texts)
  BY <1>11
<1>14. /\ due' \in [Clients -> Seq(Texts)] /\ due'[c] = <<ok, UserList(t)>>
       /\ \A e \in Clients : e # c => due'[e] = owed[e]
  BY <1>5, <1>12, <1>13
<1>15. \A s \in Active : s # slot => clients'[s] = clients[s]
  BY <1>5, <1>7 DEF Active
<1>16. \A s \in Active : clients'[s].who = clients[s].who /\ clients'[s].id = clients[s].id
  BY <1>5, <1>8 DEF Active
<1>17. clients'[slot].who = c
  BY <1>1, <1>2, <1>3, <1>16
<1> QED
  BY <1>2, <1>3, <1>5, <1>6, <1>7, <1>9, <1>11, <1>14, <1>15, <1>16, <1>17 DEF Opens, ok, owed

\* It is gone: the slot is free again.
LEMMA FailsFacts ==
    ASSUME Types, JobInv, OpenFails
    PROVE  /\ clients' \in [Slots -> Rows] /\ job.slot \in Active
           /\ Active' = Active \ {job.slot}
           /\ \A s \in Active' : clients'[s] = clients[s]
           /\ Rest
<1>1. PICK slot \in Active : slot = job.slot
  BY DEF OpenFails, JobInv
<1>2. slot \in Slots /\ clients \in [Slots -> Rows]
  BY DEF Types, Active
<1> DEFINE t == [clients EXCEPT ![slot].queue = -1, ![slot].active = FALSE]
           row == [clients[slot] EXCEPT !.queue = -1, !.active = FALSE]
<1>3. t \in [Slots -> Rows] /\ t[slot].active = FALSE /\ \A s \in Slots : s # slot => t[s] = clients[s]
  <2>1. -1 \in Int /\ clients[slot] \in Rows
    BY <1>2
  <2>2. row \in Rows /\ row.active = FALSE
    BY <2>1 DEF Rows
  <2>3. t = [clients EXCEPT ![slot] = row]
    OBVIOUS
  <2> HIDE DEF Rows, row
  <2> QED
    BY <1>2, <2>2, <2>3
<1>4. clients' = t
  BY <1>1 DEF OpenFails
<1> HIDE DEF t
<1>5. Active' = Active \ {slot}
  BY <1>2, <1>3, <1>4 DEF Active
<1>6. \A s \in Active' : clients'[s] = clients[s]
  BY <1>3, <1>4, <1>5 DEF Active
<1> QED
  BY <1>1, <1>3, <1>4, <1>5, <1>6 DEF OpenFails

\* A line whose id some slot has.
Speaks(slot, n, c) ==
    /\ c = clients[slot].who /\ clients[slot].id = server_q[1].id
    /\ handler' = "all" /\ at' = 0 /\ job' \in Jobs
    /\ job' = [who |-> c, slot |-> slot, sender |-> clients[slot].id, text |-> Text("say", {c}, n),
               users |-> FALSE]
    /\ due' = Owed(Text("say", {c}, n), FALSE, clients) /\ due' \in [Clients -> Seq(Texts)]
    /\ UNCHANGED <<clients, next_id, numbers, held>>

LEMMA MsgFacts ==
    ASSUME Types, TableInv, HandleMsg, FindById(Head(server_q).id) # {}
    PROVE  \E slot \in Active, n \in Nat, c \in Clients : Speaks(slot, n, c)
<1> DEFINE m == Head(server_q)
           slot == Min(FindById(m.id))
           c == clients[slot].who
           say == Text("say", {c}, m.n)
<1>1. /\ Begin("all", c, slot, m.id, say, FALSE)
      /\ due' = Owed(say, FALSE, clients)
      /\ UNCHANGED <<clients, next_id, numbers, held>>
  BY DEF HandleMsg
<1>2. server_q[1] = m /\ m \in Requests
  BY ReceivedFacts DEF HandleMsg
<1>3. m.id \in Int /\ m.n \in Nat /\ m.n \in Int
  BY <1>2 DEF Requests
<1>4. slot \in Active /\ clients[slot].id = m.id /\ slot \in Slots
  BY SlotFacts DEF FindById, Active
<1>5. c \in Clients
  BY <1>4 DEF TableInv
<1>6. say \in Texts
  BY <1>3, <1>5, TextTypes
<1>7. job' \in Jobs /\ handler' = "all" /\ at' = 0
  BY <1>1, <1>3, <1>4, <1>5, <1>6, BeginTypes
<1>8. job' = [who |-> c, slot |-> slot, sender |-> clients[slot].id, text |-> say, users |-> FALSE]
  BY <1>1, <1>4 DEF Begin
<1>9. due' \in [Clients -> Seq(Texts)]
  <2>1. due \in [Clients -> Seq(Texts)] /\ FALSE \in BOOLEAN
    BY DEF Types
  <2> HIDE DEF slot, m, say
  <2> QED
    BY <1>1, <1>6, <2>1, MembersFacts, OwedTypes
<1> HIDE DEF slot, m
<1> QED
  BY <1>1, <1>2, <1>3, <1>4, <1>5, <1>7, <1>8, <1>9 DEF Speaks

\* A QUIT whose id some slot has.
Leaves(slot, c) ==
    /\ c = clients[slot].who /\ clients[slot].id = server_q[1].id
    /\ clients' \in [Slots -> Rows]
    /\ Active' = Active \ {slot}
    /\ \A s \in Active' : clients'[s] = clients[s]
    /\ next_id' = next_id
    /\ Close(clients[slot].queue, "main")
    /\ handler' = "all" /\ at' = 0 /\ job' \in Jobs
    /\ job' = [who |-> c, slot |-> slot, sender |-> clients[slot].id,
               text |-> Text("leave", {c}, 0), users |-> TRUE]
    /\ due' = Owed(Text("leave", {c}, 0), TRUE, clients') /\ due' \in [Clients -> Seq(Texts)]

LEMMA QuitFacts ==
    ASSUME Types, TableInv, HandleQuit, FindById(Head(server_q).id) # {}
    PROVE  \E slot \in Active, c \in Clients : Leaves(slot, c)
<1>1. /\ server_q[1] = Head(server_q) /\ Head(server_q) \in Requests
  BY ReceivedFacts DEF HandleQuit
<1>2. PICK m \in Requests : m = Head(server_q)
  BY <1>1
<1>3. PICK slot \in Active : slot = Min(FindById(m.id)) /\ clients[slot].id = m.id
  BY <1>2, SlotFacts DEF FindById
<1>4. PICK c \in Clients : c = clients[slot].who
  BY DEF TableInv
<1> DEFINE t == [clients EXCEPT ![slot].active = FALSE]
           leave == Text("leave", {c}, 0)
<1>5. /\ clients' = t /\ next_id' = next_id
      /\ Close(clients[slot].queue, "main")
      /\ Begin("all", c, slot, m.id, leave, TRUE)
      /\ due' = Owed(leave, TRUE, t)
  BY <1>2, <1>3, <1>4 DEF HandleQuit
<1>6. slot \in Slots /\ clients \in [Slots -> Rows] /\ m.id \in Int
  BY SlotFacts DEF Types, Requests
<1>7. t \in [Slots -> Rows] /\ t[slot].active = FALSE
      /\ \A s \in Slots : s # slot => t[s] = clients[s]
  BY <1>6 DEF Rows
<1>8. Active' = Active \ {slot}
  BY <1>5, <1>6, <1>7 DEF Active
<1>9. \A s \in Active' : clients'[s] = clients[s]
  BY <1>5, <1>7, <1>8, SlotFacts
<1>10. \A s \in Slots : t[s].active => t[s].who \in Clients
  BY <1>6, <1>7, MembersFacts
<1>11. leave \in Texts
  BY TextTypes
<1>12. job' \in Jobs /\ handler' = "all" /\ at' = 0
  BY <1>5, <1>6, <1>11, BeginTypes
<1>13. job' = [who |-> c, slot |-> slot, sender |-> clients[slot].id, text |-> leave, users |-> TRUE]
  BY <1>3, <1>5 DEF Begin
<1>14. Owed(leave, TRUE, t) \in [Clients -> Seq(Texts)]
  <2>1. due \in [Clients -> Seq(Texts)] /\ TRUE \in BOOLEAN
    BY DEF Types
  <2> HIDE DEF t, leave
  <2> QED
    BY <1>10, <1>11, <2>1, OwedTypes
<1> HIDE DEF t, leave
<1>15. clients[slot].id = server_q[1].id
  BY <1>1, <1>2, <1>3
<1>16. /\ clients' \in [Slots -> Rows] /\ due' \in [Clients -> Seq(Texts)]
       /\ due' = Owed(leave, TRUE, clients')
  BY <1>5, <1>7, <1>14
<1> QED
  BY <1>4, <1>5, <1>8, <1>9, <1>12, <1>13, <1>15, <1>16 DEF leave, Leaves

\* Requests that the handler answers with nothing.
LEMMA IgnoredFacts ==
    ASSUME Types, TakeSlot \/ HandleMsg \/ HandleQuit,
           ~(TakeSlot /\ Active # Slots),
           ~((HandleMsg \/ HandleQuit) /\ FindById(Head(server_q).id) # {})
    PROVE  Rest /\ UNCHANGED <<clients, next_id, numbers, held, due>>
  BY DEF TakeSlot, HandleMsg, HandleQuit

-----------------------------------------------------------------------------
(* Types.                                                                   *)

LEMMA TakingTypes ==
    ASSUME Types, TableInv, TakeSlot \/ HandleMsg \/ HandleQuit
    PROVE  Types'
<1>1. UNCHANGED <<stopping, pc, reading, client_id, running, heard, client_q, lines>>
  BY DEF TakeSlot, HandleMsg, HandleQuit, clientVars, cleanupVars, bounds
<1>2. server_q' \in Seq(Requests)
  BY ReceivedFacts DEF TakeSlot, HandleMsg, HandleQuit
<1>3. /\ clients' \in [Slots -> Rows] /\ next_id' \in Nat /\ due' \in [Clients -> Seq(Texts)]
      /\ handler' \in {"receive", "open", "ok", "all", "list", "off"}
      /\ job' \in Jobs /\ at' \in Nat /\ NumberTypes'
  <2>1. CASE TakeSlot /\ Active # Slots
    <3>1. PICK c \in Clients, slot \in Slots \ Active : Takes(c, slot)
      BY <2>1, TakeFacts
    <3>2. due' = due /\ numbers' = numbers /\ held' = held
      BY <2>1 DEF TakeSlot
    <3> QED
      BY <3>1, <3>2 DEF Takes, Types, NumberTypes
  <2>2. CASE HandleMsg /\ FindById(Head(server_q).id) # {}
    <3>1. PICK slot \in Active, n \in Nat, c \in Clients : Speaks(slot, n, c)
      BY <2>2, MsgFacts
    <3> QED
      BY <3>1 DEF Types, NumberTypes, Speaks
  <2>3. CASE HandleQuit /\ FindById(Head(server_q).id) # {}
    <3>1. PICK slot \in Active, c \in Clients : Leaves(slot, c)
      BY <2>3, QuitFacts
    <3>2. NumberTypes'
      BY <3>1, CloseFacts DEF Types, Leaves, Threads
    <3> QED
      BY <3>1, <3>2 DEF Leaves, Types
  <2>4. CASE Rest /\ UNCHANGED <<clients, next_id, numbers, held, due>>
    BY <2>4, RestTypes DEF Types, NumberTypes
  <2> QED
    BY <2>1, <2>2, <2>3, <2>4, IgnoredFacts
<1> QED
  BY <1>1, <1>2, <1>3 DEF Types

LEMMA OpeningTypes ==
    ASSUME Types, TableInv, JobInv, OpenQueue \/ OpenFails
    PROVE  Types'
<1>1. CASE OpenQueue
  <2>1. PICK c \in Clients, slot \in Active : Opens(c, slot)
    BY <1>1, OpensFacts
  <2>2. NumberTypes'
    BY <2>1, OpenFacts DEF Types, Opens
  <2>3. clients' \in [Slots -> Rows] /\ due' \in [Clients -> Seq(Texts)]
    BY <2>1 DEF Opens
  <2> HIDE DEF Texts, Requests, Jobs, Rows
  <2> QED
    BY <1>1, <2>2, <2>3 DEF OpenQueue, Types, clientVars, cleanupVars, bounds
<1>2. CASE OpenFails
  <2>1. clients' \in [Slots -> Rows] /\ Rest
    BY <1>2, FailsFacts
  <2>2. /\ handler' \in {"receive", "off"} /\ job' \in Jobs /\ at' \in Nat
    BY <2>1, RestTypes
  <2> HIDE DEF Texts, Requests, Jobs, Rows
  <2> QED
    BY <1>2, <2>1, <2>2 DEF OpenFails, Types, NumberTypes, clientVars, cleanupVars, bounds
<1> QED
  BY <1>1, <1>2

\* The handler's sends: OK goes to the slot that was taken, one of a loop to the next
\* slot in turn.
LEMMA SendOkFacts ==
    ASSUME Types, TableInv, JobInv, SendOk
    PROVE  \E slot \in Active, c \in Clients, text \in Texts :
             /\ slot = job.slot /\ c = job.who /\ c = clients[slot].who
             /\ text = Text("ok", {}, job.sender)
             /\ Deliver("handler", clients[slot].queue, text)
<1>1. /\ handler = "ok"
      /\ Deliver("handler", clients[job.slot].queue, Text("ok", {}, job.sender))
  BY DEF SendOk
<1>2. job.slot \in Active /\ job.who \in Clients /\ clients[job.slot].who = job.who
  BY <1>1 DEF JobInv, TableInv
<1>3. job.sender \in Int
  BY DEF Types, Jobs
<1> QED
  BY <1>1, <1>2, <1>3, TextTypes

Sends(slot, c, text) ==
    /\ slot = Min(Targets(handler, at)) /\ \A s \in Targets(handler, at) : slot <= s
    /\ c = clients[slot].who
    /\ text = (IF handler = "all" THEN job.text ELSE UserList(clients))
    /\ text.kind # "ok"
    /\ Deliver("handler", clients[slot].queue, text) /\ at' = slot + 1 /\ at' \in Nat

LEMMA SendNextFacts ==
    ASSUME Types, TableInv, JobInv, SendNext
    PROVE  \E slot \in Targets(handler, at), c \in Clients, text \in Texts : Sends(slot, c, text)
<1>1. PICK slot \in Targets(handler, at) : slot = Min(Targets(handler, at))
  BY SlotFacts DEF SendNext
<1>2. \A s \in Targets(handler, at) : slot <= s
  BY <1>1, SlotFacts DEF SendNext
<1>3. slot \in Active
  BY DEF Targets
<1>4. PICK c \in Clients : c = clients[slot].who
  BY <1>3 DEF TableInv
<1>5. UserList(clients) \in Texts /\ UserList(clients).kind # "ok"
  BY MembersFacts, ListTypes DEF UserList, Text
<1>6. job.text \in Texts /\ job.text.kind # "ok"
  BY DEF Types, Jobs, JobInv
<1>7. PICK text \in Texts : /\ text = (IF handler = "all" THEN job.text ELSE UserList(clients))
                            /\ text.kind # "ok"
  BY <1>5, <1>6
<1>8. Deliver("handler", clients[slot].queue, text) /\ at' = slot + 1
  BY <1>1, <1>7 DEF SendNext
<1>9. at' \in Nat
  BY <1>3, <1>8, SlotFacts
<1> QED
  BY <1>1, <1>2, <1>4, <1>7, <1>8, <1>9 DEF Sends

\* The texts that a client takes, whatever they are.
LEMMA ReceiveFacts ==
    ASSUME Types, NEW c \in Clients, Receive(c)
    PROVE  \E text \in Texts :
             /\ client_q[c] # <<>> /\ text = Head(client_q[c])
             /\ client_q' = [client_q EXCEPT ![c] = Tail(@)]
             /\ heard' = [heard EXCEPT ![c] = Append(@, text)]
             /\ client_id' = [client_id EXCEPT ![c] = IF text.kind = "ok" THEN text.n ELSE @]
             /\ Tail(client_q[c]) \in Seq(Texts) /\ Append(heard[c], text) \in Seq(Texts)
<1>1. client_q[c] \in Seq(Texts) /\ client_q[c] # <<>> /\ heard[c] \in Seq(Texts)
  BY DEF Types, Receive
<1> HIDE DEF Texts
<1>2. Head(client_q[c]) \in Texts /\ Tail(client_q[c]) \in Seq(Texts)
  BY <1>1, TailFacts
<1>3. Append(heard[c], Head(client_q[c])) \in Seq(Texts)
  BY <1>1, <1>2, AppendProperties
<1> QED
  BY <1>1, <1>2, <1>3 DEF Receive

LEMMA SendingTypes ==
    ASSUME Types, TableInv, JobInv, SendOk \/ SendNext \/ EndLoop
    PROVE  Types'
<1>1. "handler" \in Threads
  BY DEF Threads
<1>2. CASE SendOk
  <2>1. PICK d : \E text \in Texts : Deliver("handler", d, text)
    BY <1>2, SendOkFacts
  <2>2. client_q' \in [Clients -> Seq(Texts)] /\ held' \in [Threads -> Clients \cup {Nobody}]
    BY <1>1, <2>1, DeliverFacts
  <2> HIDE DEF Texts, Requests, Jobs, Rows
  <2> QED
    BY <1>2, <2>2 DEF SendOk, Types, NumberTypes, clientVars, cleanupVars, bounds
<1>3. CASE SendNext
  <2>1. PICK slot, c : \E text \in Texts : Sends(slot, c, text)
    BY <1>3, SendNextFacts
  <2>2. client_q' \in [Clients -> Seq(Texts)] /\ held' \in [Threads -> Clients \cup {Nobody}]
    BY <1>1, <2>1, DeliverFacts DEF Sends
  <2>3. at' \in Nat
    BY <2>1 DEF Sends
  <2> HIDE DEF Texts, Requests, Jobs, Rows
  <2> QED
    BY <1>3, <2>2, <2>3 DEF SendNext, Types, NumberTypes, clientVars, cleanupVars, bounds
<1>4. CASE EndLoop
  BY <1>4, RestTypes DEF EndLoop, Types, NumberTypes, clientVars, cleanupVars, bounds
<1> QED
  BY <1>2, <1>3, <1>4

\* What the steps of cleanup and the end of the handler leave alone.
LEMMA EndingSame ==
    ASSUME Interrupt \/ Cleanup \/ HandlerEnds \/ LastCleanup
    PROVE  /\ UNCHANGED <<clients, next_id, job, at, due, clientVars, server_q, lines>>
           /\ HandlerEnds \/ UNCHANGED handler
           /\ SendDown \/ UNCHANGED client_q
           /\ SendDown \/ CloseSlot \/ CloseServer \/ UNCHANGED held
           /\ CloseSlot \/ CloseServer \/ UNCHANGED numbers
  BY DEF Interrupt, Cleanup, TestSlot, SendDown, CloseSlot, UnlinkSlot, CloseServer, HandlerEnds,
         LastCleanup, cleanupVars, bounds

\* One of them may send, others close a number that the handler may be sending to.
LEMMA EndingFacts ==
    ASSUME Types, Interrupt \/ Cleanup \/ HandlerEnds \/ LastCleanup
    PROVE  /\ SendDown => \E d : \E text \in Texts : text = Down /\ Deliver("main", d, text)
           /\ CloseSlot \/ CloseServer => \E d : Close(d, "handler")
           /\ stopping' = -1 => stopping = -1
<1>1. SendDown => \E d : \E text \in Texts : text = Down /\ Deliver("main", d, text)
  BY TextTypes DEF SendDown, Down
<1>2. stopping' = -1 => stopping = -1
  <2>1. MAX_CLIENTS \in Nat /\ \A s \in Slots : s + 1 \in Nat
    BY SlotFacts, SizesAssumption
  <2> QED
    BY <2>1 DEF Interrupt, Cleanup, TestSlot, SendDown, CloseSlot, UnlinkSlot, CloseServer,
       HandlerEnds, LastCleanup, ToNextSlot, cleanupVars
<1> QED
  BY <1>1, <1>2 DEF CloseSlot, CloseServer

LEMMA EndingTypes ==
    ASSUME Types, TableInv, Interrupt \/ Cleanup \/ HandlerEnds \/ LastCleanup
    PROVE  Types'
<1>1. "handler" \in Threads /\ "main" \in Threads
  BY DEF Threads
<1>2. stopping' \in Int
  <2>1. stopping \in Int /\ MAX_CLIENTS \in Int
    BY SizesAssumption DEF Types
  <2>2. stopping' \in {0, stopping, stopping + 1}
    BY DEF Interrupt, Cleanup, TestSlot, SendDown, CloseSlot, UnlinkSlot, CloseServer,
       HandlerEnds, LastCleanup, ToNextSlot, cleanupVars
  <2> QED
    BY <2>1, <2>2
<1>3. client_q' \in [Clients -> Seq(Texts)] /\ (SendDown => held' \in [Threads -> Clients \cup {Nobody}])
  <2>1. CASE SendDown
    <3>1. PICK d : \E text \in Texts : Deliver("main", d, text)
      BY <2>1, EndingFacts
    <3> QED
      BY <1>1, <3>1, DeliverFacts
  <2>2. CASE ~SendDown
    BY <2>2, EndingSame DEF Types
  <2> QED
    BY <2>1, <2>2
<1>4. NumberTypes'
  <2>1. CASE CloseSlot \/ CloseServer
    BY <1>1, <2>1, EndingFacts, CloseFacts DEF Types
  <2>2. CASE ~(CloseSlot \/ CloseServer)
    <3>1. numbers' = numbers /\ (SendDown \/ held' = held)
      BY <2>2, EndingSame
    <3>2. held' \in [Threads -> Clients \cup {Nobody}]
      BY <1>3, <3>1 DEF Types, NumberTypes
    <3> QED
      BY <3>1, <3>2 DEF Types, NumberTypes
  <2> QED
    BY <2>1, <2>2
<1>5. handler' \in {"receive", "open", "ok", "all", "list", "off"}
  BY EndingSame DEF HandlerEnds, Types
<1> HIDE DEF Texts, Requests, Jobs, Rows
<1> QED
  BY <1>2, <1>3, <1>4, <1>5, EndingSame DEF Types, clientVars

\* What the clients' steps leave alone, all but taking a text.
ClientStep(c) ==
    \/ Start(c) \/ SendReg(c) \/ LoggedIn(c) \/ TimeOut(c) \/ Fail(c)
    \/ Type(c) \/ Say(c) \/ PressEsc(c) \/ SendQuit(c) \/ Exit(c) \/ Kill(c)

LEMMA ClientSame ==
    ASSUME NEW c, ClientStep(c) \/ Receive(c)
    PROVE  UNCHANGED <<clients, next_id, handler, job, at, stopping, numbers, held, due>>
  BY DEF ClientStep, Start, SendReg, LoggedIn, TimeOut, Fail, Type, Say, PressEsc, SendQuit,
         Exit, Kill, Receive, ServerOnly, serverVars, cleanupVars

LEMMA ClientTypes ==
    ASSUME Types, NEW c \in Clients, ClientStep(c) \/ Receive(c)
    PROVE  Types'
<1>1. CASE ClientStep(c)
  <2>1. /\ UNCHANGED <<clients, next_id, handler, job, at, stopping, numbers, held, due>>
        /\ UNCHANGED <<client_id, heard, client_q>>
    BY <1>1, ClientSame DEF ClientStep, Start, SendReg, LoggedIn, TimeOut, Fail, Type, Say,
       PressEsc, SendQuit, Exit, Kill
  <2>2. server_q' \in Seq(Requests)
    <3>1. lines \in Nat /\ server_q \in Seq(Requests)
      BY DEF Types
    <3>2. server_q' = server_q \/ \E v \in {"REG", "MSG", "QUIT"}, n \in Nat :
                                      ToServer(Request(v, c, n))
      BY <1>1, <3>1 DEF ClientStep, Start, SendReg, LoggedIn, TimeOut, Fail, Type, Say, PressEsc,
                        SendQuit, Exit, Kill, bounds
    <3> QED
      BY <3>1, <3>2, RequestTypes, ToServerTypes
  <2>3. pc' \in [Clients -> {"out", "joining", "waiting", "typing", "saying", "quitting",
                             "sleeping", "failing", "failed", "gone"}]
    BY <1>1 DEF Types, ClientStep, Start, SendReg, LoggedIn, TimeOut, Fail, Type, Say, PressEsc,
                SendQuit, Exit, Kill, Goto
  <2>4. reading' \in [Clients -> BOOLEAN]
    BY <1>1 DEF Types, ClientStep, Start, SendReg, LoggedIn, TimeOut, Fail, Type, Say, PressEsc,
                SendQuit, Exit, Kill
  <2>5. running' \in [Clients -> BOOLEAN]
    BY <1>1 DEF Types, ClientStep, Start, SendReg, LoggedIn, TimeOut, Fail, Type, Say, PressEsc,
                SendQuit, Exit, Kill
  <2>6. lines' \in Nat
    <3>1. lines \in Nat
      BY DEF Types
    <3>2. lines' = lines \/ lines' = lines + 1
      BY <1>1 DEF ClientStep, Start, SendReg, LoggedIn, TimeOut, Fail, Type, Say, PressEsc,
                  SendQuit, Exit, Kill, bounds
    <3> QED
      BY <3>1, <3>2
  <2> HIDE DEF Texts, Requests, Jobs, Rows
  <2> QED
    BY <2>1, <2>2, <2>3, <2>4, <2>5, <2>6 DEF Types, NumberTypes
<1>2. CASE Receive(c)
  <2>1. PICK text \in Texts :
             /\ client_q' = [client_q EXCEPT ![c] = Tail(@)]
             /\ heard' = [heard EXCEPT ![c] = Append(@, text)]
             /\ client_id' = [client_id EXCEPT ![c] = IF text.kind = "ok" THEN text.n ELSE @]
             /\ Tail(client_q[c]) \in Seq(Texts) /\ Append(heard[c], text) \in Seq(Texts)
    BY <1>2, ReceiveFacts
  <2>2. text.n \in Int
    BY DEF Texts
  <2> HIDE DEF Texts, Requests, Jobs, Rows
  <2>3. /\ client_q' \in [Clients -> Seq(Texts)] /\ heard' \in [Clients -> Seq(Texts)]
        /\ client_id' \in [Clients -> Int]
    BY <2>1, <2>2 DEF Types
  <2>4. reading' \in [Clients -> BOOLEAN]
    BY <1>2 DEF Receive, Types
  <2> QED
    BY <1>2, <2>3, <2>4, ClientSame DEF Receive, Types, NumberTypes, bounds
<1> QED
  BY <1>1, <1>2

\* The steps of Next, in the groups that the proofs go by.
LEMMA StepCases ==
    ASSUME [Next]_vars
    PROVE  \/ TakeSlot \/ HandleMsg \/ HandleQuit
           \/ OpenQueue \/ OpenFails
           \/ SendOk \/ SendNext \/ EndLoop
           \/ Interrupt \/ Cleanup \/ HandlerEnds \/ LastCleanup
           \/ \E c \in Clients : ClientStep(c) \/ Receive(c)
           \/ UNCHANGED vars
  BY DEF Next, Handler, ClientStep

LEMMA StutterSame ==
    ASSUME UNCHANGED vars
    PROVE  /\ UNCHANGED <<clients, next_id, handler, job, at, stopping, numbers, held, due>>
           /\ UNCHANGED <<pc, reading, client_id, running, heard, server_q, client_q, lines>>
  BY DEF vars, serverVars, clientVars, cleanupVars, bounds

LEMMA TypesStep ==
    ASSUME Types, TableInv, JobInv, [Next]_vars
    PROVE  Types'
<1>1. CASE UNCHANGED vars
  <2> HIDE DEF Texts, Requests, Jobs, Rows
  <2> QED
    BY <1>1, StutterSame DEF Types, NumberTypes
<1> QED
  BY <1>1, StepCases, TakingTypes, OpeningTypes, SendingTypes, EndingTypes, ClientTypes

-----------------------------------------------------------------------------
(* The table and the job.                                                   *)

LEMMA HolderInv ==
    ASSUME Types, TableInv, IdInv, NEW s \in Active
    PROVE  /\ clients[s].who \in Clients
           /\ Holds(clients[s].who, clients[s].id)
           /\ clients[s].id \in Nat /\ clients[s].id < next_id
<1>1. clients[s].who \in Clients
  BY DEF TableInv
<1>2. Holds(clients[s].who, clients[s].id)
  BY DEF Holds
<1> QED
  BY <1>1, <1>2 DEF IdInv

\* The client that registers is not in the table yet.
LEMMA RegIsNew ==
    ASSUME Types, FreshInv, NEW c \in Clients, TakeSlot, server_q[1].verb = "REG",
           server_q[1].from = c
    PROVE  Unknown(c) /\ 1 \in DOMAIN server_q
<1>1. 1 \in DOMAIN server_q
  BY ReceivedFacts DEF TakeSlot
<1>2. Fresh(c)
  BY <1>1 DEF Fresh, HasReg
<1> QED
  BY <1>1, <1>2 DEF FreshInv

\* The steps that change the table; OpenQueue only changes a number in it.
LEMMA TableCases ==
    ASSUME [Next]_vars
    PROVE  \/ TakeSlot /\ Active # Slots
           \/ HandleQuit /\ FindById(Head(server_q).id) # {}
           \/ OpenQueue \/ OpenFails
           \/ UNCHANGED clients
<1>1. CASE TakeSlot \/ HandleMsg \/ HandleQuit
  BY <1>1 DEF TakeSlot, HandleMsg, HandleQuit
<1>2. CASE SendOk \/ SendNext \/ EndLoop
  BY <1>2 DEF SendOk, SendNext, EndLoop
<1> QED
  BY <1>1, <1>2, StepCases, EndingSame, ClientSame, StutterSame

LEMMA TableStep ==
    ASSUME Types, TableInv, JobInv, FreshInv, [Next]_vars
    PROVE  TableInv'
<1>1. CASE TakeSlot /\ Active # Slots
  <2>1. PICK c \in Clients, slot \in Slots \ Active : Takes(c, slot)
    BY <1>1, TakeFacts
  <2>2. \A s \in Active : clients[s].who # c
    BY <1>1, <2>1, RegIsNew DEF Takes, Unknown, Members
  <2> QED
    BY <2>1, <2>2 DEF Takes, TableInv
<1>2. CASE HandleQuit /\ FindById(Head(server_q).id) # {}
  <2>1. PICK slot \in Active, c \in Clients : Leaves(slot, c)
    BY <1>2, QuitFacts
  <2> QED
    BY <2>1 DEF Leaves, TableInv
<1>3. CASE OpenQueue
  <2>1. PICK c \in Clients, slot \in Active : Opens(c, slot)
    BY <1>3, OpensFacts
  <2>2. Active' = Active /\ \A s \in Active : clients'[s].who = clients[s].who
    BY <2>1 DEF Opens
  <2> QED
    BY <2>2 DEF TableInv
<1>4. CASE OpenFails
  <2>1. Active' \subseteq Active /\ \A s \in Active' : clients'[s] = clients[s]
    BY <1>4, FailsFacts
  <2> QED
    BY <2>1 DEF TableInv
<1>5. CASE UNCHANGED clients
  BY <1>5 DEF TableInv, Active
<1> QED
  BY <1>1, <1>2, <1>3, <1>4, <1>5, TableCases

LEMMA KindFacts ==
    /\ NoJob.text.kind # "ok"
    /\ \A c, n : /\ Text("join", {c}, n).kind # "ok" /\ Text("join", {c}, n).of = {c}
                 /\ Text("say", {c}, n).kind # "ok" /\ Text("say", {c}, n).of = {c}
                 /\ Text("leave", {c}, n).kind # "ok" /\ Text("leave", {c}, n).of = {c}
  BY DEF NoJob, Text

LEMMA JobStep ==
    ASSUME Types, TableInv, JobInv, FreshInv, IdInv, [Next]_vars
    PROVE  JobInv'
<1>1. CASE TakeSlot /\ Active # Slots
  <2>1. PICK c \in Clients, slot \in Slots \ Active : Takes(c, slot)
    BY <1>1, TakeFacts
  <2>2. \A s \in Active : clients[s].who # c
    BY <1>1, <2>1, RegIsNew DEF Takes, Unknown, Members
  <2>3. \A s \in Active : clients[s].id # next_id
    BY HolderInv DEF Types
  <2>4. /\ job'.who = c /\ job'.slot = slot /\ job'.sender = next_id /\ job'.users = TRUE
        /\ job'.text = Text("join", {c}, 0)
        /\ job'.text.kind # "ok" /\ job'.text.of = {c}
    BY <2>1, KindFacts DEF Takes
  <2>5. ASSUME NEW s \in Active'
        PROVE  (clients'[s].id = job'.sender) <=> (job'.text.of = {clients'[s].who})
    <3>1. CASE s = slot
      BY <2>1, <2>4, <3>1 DEF Takes
    <3>2. CASE s # slot
      <4>1. s \in Active /\ clients'[s] = clients[s]
        BY <2>1, <2>5, <3>2 DEF Takes
      <4>2. clients'[s].who # c /\ clients'[s].id # next_id
        BY <2>2, <2>3, <4>1
      <4> QED
        BY <2>4, <4>2
    <3> QED
      BY <3>1, <3>2
  <2>6. /\ handler' = "open" /\ at' = 0 /\ slot \in Active'
        /\ clients'[slot].who = c /\ clients'[slot].id = next_id
    BY <2>1 DEF Takes
  <2> QED
    BY <2>4, <2>5, <2>6 DEF JobInv
<1>2. CASE HandleMsg /\ FindById(Head(server_q).id) # {}
  <2>1. PICK slot \in Active, n \in Nat, c \in Clients : Speaks(slot, n, c)
    BY <1>2, MsgFacts
  <2>2. \A s \in Active : (clients[s].id = clients[slot].id) <=> (clients[s].who = c)
    BY <2>1, HolderInv DEF Speaks, TableInv, IdInv
  <2>3. /\ job'.sender = clients[slot].id
        /\ job'.text.kind # "ok" /\ job'.text.of = {c}
    <3>1. job'.sender = clients[slot].id /\ job'.text = Text("say", {c}, n)
      BY <2>1 DEF Speaks
    <3> QED
      BY <3>1 DEF Text
  <2>4. Active' = Active /\ clients' = clients
    BY <2>1 DEF Speaks, Active
  <2>5. \A s \in Active' : (clients'[s].id = job'.sender) <=> (job'.text.of = {clients'[s].who})
    BY <2>2, <2>3, <2>4
  <2> QED
    BY <2>1, <2>3, <2>5 DEF Speaks, JobInv
<1>3. CASE HandleQuit /\ FindById(Head(server_q).id) # {}
  <2>1. PICK slot \in Active, c \in Clients : Leaves(slot, c)
    BY <1>3, QuitFacts
  <2>2. \A s \in Active : (clients[s].id = clients[slot].id) <=> (clients[s].who = c)
    BY <2>1, HolderInv DEF Leaves, TableInv, IdInv
  <2>3. /\ job'.sender = clients[slot].id /\ job'.text = Text("leave", {c}, 0)
        /\ job'.text.kind # "ok" /\ job'.text.of = {c}
    BY <2>1, KindFacts DEF Leaves
  <2>4. \A s \in Active' : s \in Active /\ s # slot /\ clients'[s] = clients[s]
    BY <2>1 DEF Leaves
  <2>5. \A s \in Active' : clients[s].id # clients[slot].id /\ clients[s].who # c
    <3>1. \A s \in Active : clients[s].who = c => s = slot
      BY <2>1 DEF Leaves, TableInv
    <3> QED
      BY <2>2, <2>4, <3>1
  <2>6. \A s \in Active' : (clients'[s].id = job'.sender) <=> (job'.text.of = {clients'[s].who})
    BY <2>3, <2>4, <2>5
  <2>7. handler' = "all"
    BY <2>1 DEF Leaves
  <2> QED
    BY <2>3, <2>6, <2>7 DEF JobInv
<1>4. CASE Rest
  BY <1>4, RestTypes, KindFacts DEF JobInv
<1>5. CASE OpenQueue
  <2>1. PICK c \in Clients, slot \in Active : Opens(c, slot)
    BY <1>5, OpensFacts
  <2>2. /\ Active' = Active /\ \A s \in Active : /\ clients'[s].who = clients[s].who
                                                /\ clients'[s].id = clients[s].id
    BY <2>1 DEF Opens
  <2>3. handler = "open" /\ handler' = "ok" /\ job' = job /\ at' = at
    BY <1>5 DEF OpenQueue
  <2>4. /\ job.slot \in Active /\ job.users = TRUE /\ at = 0
        /\ clients[job.slot].who = job.who /\ clients[job.slot].id = job.sender
        /\ job.text.kind # "ok"
        /\ \A s \in Active : (clients[s].id = job.sender) <=> (job.text.of = {clients[s].who})
    BY <2>3 DEF JobInv
  <2>5. \A s \in Active' : (clients'[s].id = job'.sender) <=> (job'.text.of = {clients'[s].who})
    BY <2>2, <2>3, <2>4
  <2>6. clients'[job'.slot].who = job'.who /\ clients'[job'.slot].id = job'.sender
    BY <2>2, <2>3, <2>4
  <2> QED
    BY <2>2, <2>3, <2>4, <2>5, <2>6 DEF JobInv
<1>6. CASE SendOk
  BY <1>6 DEF SendOk, JobInv, Active
<1>7. CASE SendNext
  BY <1>7 DEF SendNext, JobInv, Active
<1>8. CASE EndLoop
  <2>1. CASE Rest
    BY <1>4, <2>1
  <2>2. CASE ~Rest
    BY <1>8, <2>2 DEF EndLoop, JobInv
  <2> QED
    BY <2>1, <2>2
<1>9. CASE HandlerEnds
  BY <1>9 DEF HandlerEnds, JobInv
<1>10. CASE UNCHANGED <<clients, handler, job, at>>
  BY <1>10 DEF JobInv, Active
<1>11. \/ Interrupt \/ Cleanup \/ LastCleanup \/ UNCHANGED vars
       \/ \E c \in Clients : ClientStep(c) \/ Receive(c)
       => HandlerEnds \/ UNCHANGED <<clients, handler, job, at>>
  BY EndingSame, ClientSame, StutterSame
<1>12. OpenFails => Rest
  BY DEF OpenFails
<1> QED
  BY <1>1, <1>2, <1>3, <1>4, <1>5, <1>6, <1>7, <1>8, <1>9, <1>10, <1>11, <1>12, StepCases,
     IgnoredFacts

-----------------------------------------------------------------------------
(* The server's numbers.                                                    *)

OneNumber ==
    /\ \A d, e \in DOMAIN numbers : numbers[d] = numbers[e] /\ numbers[d] # Nobody => d = e
    /\ \A t \in Threads : held[t] # Nobody => \A d \in DOMAIN numbers : numbers[d] # held[t]

\* A number that is closed leaves the others as they are, and what it stood for has
\* no other.
LEMMA CloseOne ==
    ASSUME NumberTypes, OneNumber, NEW d, NEW t \in Threads, Close(d, t)
    PROVE  OneNumber'
<1>1. /\ DOMAIN numbers' = DOMAIN numbers \ {d}
      /\ \A e \in DOMAIN numbers' : numbers'[e] = numbers[e]
      /\ \A u \in Threads : u # t => held'[u] = held[u]
      /\ held'[t] = held[t] \/ (d \in DOMAIN numbers /\ held'[t] = numbers[d])
  BY CloseFacts
<1>2. \A e, f \in DOMAIN numbers' : numbers'[e] = numbers'[f] /\ numbers'[e] # Nobody => e = f
  BY <1>1 DEF OneNumber
<1>3. ASSUME NEW u \in Threads, held'[u] # Nobody, NEW e \in DOMAIN numbers',
             numbers'[e] = held'[u]
      PROVE  FALSE
  <2>1. e \in DOMAIN numbers /\ e # d /\ numbers[e] = held'[u]
    BY <1>1, <1>3
  <2>2. CASE held'[u] = held[u]
    BY <1>3, <2>1, <2>2 DEF OneNumber
  <2>3. CASE d \in DOMAIN numbers /\ held'[u] = numbers[d]
    BY <1>3, <2>1, <2>3 DEF OneNumber
  <2> QED
    BY <1>1, <2>2, <2>3
<1> QED
  BY <1>2, <1>3 DEF OneNumber

\* The newcomer had no number.
LEMMA OpenOne ==
    ASSUME NumberTypes, OneNumber, NEW c \in Clients, Open(LowestFree, c), held' = held, Quiet(c)
    PROVE  OneNumber'
<1>1. /\ LowestFree \notin DOMAIN numbers
      /\ DOMAIN numbers' = DOMAIN numbers \cup {LowestFree}
      /\ numbers'[LowestFree] = c
      /\ \A e \in DOMAIN numbers : numbers'[e] = numbers[e]
  BY OpenFacts
<1>2. /\ \A e \in DOMAIN numbers : numbers[e] # c
      /\ \A u \in Threads : held[u] # c
  BY DEF Quiet
<1> QED
  BY <1>1, <1>2 DEF OneNumber

LEMMA OneNumberFacts == NumbersInv => OneNumber
  BY DEF NumbersInv, OneNumber

\* The steps that change them.
LEMMA NumberCases ==
    ASSUME Types, TableInv, JobInv, [Next]_vars
    PROVE  \/ UNCHANGED <<numbers, held>>
           \/ OpenQueue
           \/ SendOk /\ numbers' = numbers
           \/ SendNext /\ numbers' = numbers
           \/ SendDown /\ numbers' = numbers
           \/ HandleQuit /\ FindById(Head(server_q).id) # {}
           \/ (CloseSlot \/ CloseServer) /\ \E d : Close(d, "handler")
<1>1. CASE TakeSlot \/ HandleMsg \/ OpenFails \/ EndLoop
  BY <1>1 DEF TakeSlot, HandleMsg, OpenFails, EndLoop
<1>2. CASE HandleQuit
  BY <1>2 DEF HandleQuit
<1>3. CASE SendOk \/ SendNext
  BY <1>3 DEF SendOk, SendNext
<1>4. CASE Interrupt \/ Cleanup \/ HandlerEnds \/ LastCleanup
  <2>1. CASE CloseSlot \/ CloseServer
    BY <1>4, <2>1, EndingFacts
  <2>2. CASE ~(CloseSlot \/ CloseServer)
    BY <1>4, <2>2, EndingSame
  <2> QED
    BY <2>1, <2>2
<1>5. CASE (\E c \in Clients : ClientStep(c) \/ Receive(c)) \/ UNCHANGED vars
  BY <1>5, ClientSame, StutterSame
<1> QED
  BY <1>1, <1>2, <1>3, <1>4, <1>5, StepCases

\* The queues keep one number each.
LEMMA OneNumberStep ==
    ASSUME Types, TableInv, JobInv, NumbersInv, FreshInv, [Next]_vars
    PROVE  OneNumber'
<1>1. NumberTypes /\ OneNumber /\ "handler" \in Threads /\ "main" \in Threads
  BY OneNumberFacts DEF Types, Threads
<1>2. CASE UNCHANGED <<numbers, held>>
  BY <1>1, <1>2 DEF OneNumber
<1>3. CASE OpenQueue
  <2>1. PICK c \in Clients, slot \in Active : Opens(c, slot)
    BY <1>3, OpensFacts
  <2>2. Quiet(c)
    BY <1>3, <2>1 DEF Opens, OpenQueue, FreshInv
  <2> QED
    BY <1>1, <2>1, <2>2, OpenOne DEF Opens
<1>4. ASSUME numbers' = numbers, NEW t \in Threads, NEW d, NEW text \in Texts, Deliver(t, d, text)
      PROVE  OneNumber'
  <2>1. held'[t] = Nobody /\ \A u \in Threads : u # t => held'[u] = held[u]
    BY <1>4, DeliverFacts
  <2> QED
    BY <1>1, <1>4, <2>1 DEF OneNumber
<1>5. CASE SendOk /\ numbers' = numbers
  <2>1. PICK d : \E text \in Texts : Deliver("handler", d, text)
    BY <1>5, SendOkFacts
  <2> QED
    BY <1>1, <1>4, <1>5, <2>1
<1>6. CASE SendNext /\ numbers' = numbers
  <2>1. PICK slot, c : \E text \in Texts : Sends(slot, c, text)
    BY <1>6, SendNextFacts
  <2> QED
    BY <1>1, <1>4, <1>6, <2>1 DEF Sends
<1>7. CASE SendDown /\ numbers' = numbers
  <2>1. PICK d : \E text \in Texts : Deliver("main", d, text)
    BY <1>7, EndingFacts DEF Cleanup
  <2> QED
    BY <1>1, <1>4, <1>7, <2>1
<1>8. CASE HandleQuit /\ FindById(Head(server_q).id) # {}
  <2>1. PICK slot \in Active, c \in Clients : Leaves(slot, c)
    BY <1>8, QuitFacts
  <2> QED
    BY <1>1, <2>1, CloseOne DEF Leaves
<1>9. CASE (CloseSlot \/ CloseServer) /\ \E d : Close(d, "handler")
  BY <1>1, <1>9, CloseOne
<1> QED
  BY <1>2, <1>3, <1>5, <1>6, <1>7, <1>8, <1>9, NumberCases

\* What the numbers say of the slots and of the handler's send.
SlotNumbers ==
    /\ stopping = -1 => \A s \in Opened : LeadsHome(s)
    /\ handler \in {"receive", "open"} =>
         \A s \in Opened : clients[s].queue \in DOMAIN numbers => LeadsHome(s)
    /\ held["handler"] # Nobody =>
         \/ handler = "ok" /\ held["handler"] = job.who
         \/ handler \in {"all", "list"} /\ Targets(handler, at) # {}
    /\ handler = "ok" /\ clients[job.slot].queue \in DOMAIN numbers => LeadsHome(job.slot)
    /\ held["handler"] # Nobody =>
         \A s \in SendsTo("handler") : clients[s].queue \notin DOMAIN numbers

LEMMA NumbersParts == NumbersInv <=> OneNumber /\ SlotNumbers
  BY DEF NumbersInv, OneNumber, SlotNumbers

\* A handler that rests has no open slot to wait for and holds nothing.
LEMMA RestNumbers ==
    ASSUME Rest, handler \notin {"open"} \/ job.slot \notin Active',
           held'["handler"] = Nobody, stopping' = stopping, numbers' = numbers,
           stopping = -1 => \A s \in Opened : LeadsHome(s),
           Active' \subseteq Active, \A s \in Active' : clients'[s] = clients[s]
    PROVE  SlotNumbers'
<1>1. handler' = (IF stopping = -1 THEN "receive" ELSE "off")
  BY DEF Rest
<1>2. \A s \in Active' : s \in Opened
  BY DEF Opened
<1>3. \A s \in Active' : LeadsHome(s) => LeadsHome(s)'
  BY DEF LeadsHome
<1>4. Opened' \subseteq Active'
  BY DEF Opened
<1>5. stopping = -1 => \A s \in Opened' : LeadsHome(s)'
  BY <1>2, <1>3, <1>4
<1> QED
  BY <1>1, <1>5 DEF SlotNumbers

LEMMA SlotNumbersTaking ==
    ASSUME Types, TableInv, JobInv, NumbersInv, FreshInv, TakeSlot \/ HandleMsg \/ HandleQuit
    PROVE  SlotNumbers'
<1>1. handler = "receive" /\ stopping' = stopping
  BY DEF TakeSlot, HandleMsg, HandleQuit, Received, cleanupVars
<1>2. /\ held["handler"] = Nobody /\ Opened = Active /\ Opened' \subseteq Active'
      /\ stopping = -1 => \A s \in Active : LeadsHome(s)
      /\ \A s \in Active : clients[s].queue \in DOMAIN numbers => LeadsHome(s)
  BY <1>1 DEF NumbersInv, Opened
<1>3. CASE TakeSlot /\ Active # Slots
  <2>1. PICK c \in Clients, slot \in Slots \ Active : Takes(c, slot)
    BY <1>3, TakeFacts
  <2>2. numbers' = numbers /\ held' = held
    BY <1>3 DEF TakeSlot
  <2>3. handler' = "open" /\ job'.slot = slot
    BY <2>1 DEF Takes
  <2>4. \A s \in Opened' : s \in Active /\ clients'[s] = clients[s]
    BY <2>1, <2>3 DEF Takes, Opened
  <2>5. \A s \in Opened' : LeadsHome(s)' <=> LeadsHome(s)
    BY <2>2, <2>4 DEF LeadsHome
  <2> QED
    BY <1>1, <1>2, <2>2, <2>3, <2>4, <2>5 DEF SlotNumbers
<1>4. CASE HandleMsg /\ FindById(Head(server_q).id) # {}
  <2>1. PICK slot \in Active, n \in Nat, c \in Clients : Speaks(slot, n, c)
    BY <1>4, MsgFacts
  <2>2. numbers' = numbers /\ held' = held /\ clients' = clients /\ handler' = "all"
    BY <2>1 DEF Speaks
  <2>3. Active' = Active /\ \A s \in Active' : LeadsHome(s)' <=> LeadsHome(s)
    BY <2>2 DEF LeadsHome, Active
  <2> QED
    BY <1>1, <1>2, <2>2, <2>3 DEF SlotNumbers
<1>5. CASE HandleQuit /\ FindById(Head(server_q).id) # {}
  <2>1. PICK slot \in Active, c \in Clients : Leaves(slot, c)
    BY <1>5, QuitFacts
  <2>2. /\ handler' = "all" /\ Active' = Active \ {slot} /\ \A s \in Active' : clients'[s] = clients[s]
        /\ Close(clients[slot].queue, "main")
    BY <2>1 DEF Leaves
  <2>3. /\ DOMAIN numbers' = DOMAIN numbers \ {clients[slot].queue}
        /\ \A e \in DOMAIN numbers' : numbers'[e] = numbers[e]
        /\ held'["handler"] = held["handler"]
    <3>1. NumberTypes /\ "handler" \in Threads /\ "main" \in Threads /\ "handler" # "main"
      BY DEF Types, Threads
    <3> QED
      BY <2>2, <3>1, CloseFacts
  <2>4. ASSUME stopping = -1, NEW s \in Opened' PROVE LeadsHome(s)'
    <3>1. s \in Active /\ s # slot /\ clients'[s] = clients[s] /\ LeadsHome(s) /\ LeadsHome(slot)
      BY <1>2, <2>2, <2>4
    <3>2. clients[s].queue # clients[slot].queue
      BY <3>1 DEF LeadsHome, TableInv
    <3> QED
      BY <2>3, <3>1, <3>2 DEF LeadsHome
  <2> QED
    BY <1>1, <1>2, <2>2, <2>3, <2>4 DEF SlotNumbers
<1>6. CASE Rest /\ UNCHANGED <<clients, next_id, numbers, held, due>>
  BY <1>1, <1>2, <1>6, RestNumbers DEF Active
<1> QED
  BY <1>3, <1>4, <1>5, <1>6, IgnoredFacts

LEMMA SlotNumbersOpening ==
    ASSUME Types, TableInv, JobInv, NumbersInv, FreshInv, OpenQueue \/ OpenFails
    PROVE  SlotNumbers'
<1>1. handler = "open" /\ stopping' = stopping
  BY DEF OpenQueue, OpenFails, cleanupVars
<1>2. /\ held["handler"] = Nobody /\ job.slot \in Active /\ Opened = Active \ {job.slot}
      /\ stopping = -1 => \A s \in Opened : LeadsHome(s)
  BY <1>1 DEF NumbersInv, JobInv, Opened
<1>3. CASE OpenQueue
  <2>1. PICK c \in Clients, slot \in Active : Opens(c, slot)
    BY <1>3, OpensFacts
  <2>2. /\ LowestFree \notin DOMAIN numbers
        /\ DOMAIN numbers' = DOMAIN numbers \cup {LowestFree}
        /\ numbers'[LowestFree] = c
        /\ \A e \in DOMAIN numbers : numbers'[e] = numbers[e]
        /\ held' = held
    BY <2>1, OpenFacts DEF Types, Opens
  <2>3. handler' = "ok" /\ job' = job
    BY <1>3 DEF OpenQueue
  <2>4. /\ slot = job.slot /\ Active' = Active
        /\ clients'[slot].queue = LowestFree /\ clients'[slot].who = c
        /\ \A s \in Active : s # slot => clients'[s] = clients[s]
    BY <2>1 DEF Opens
  <2>5. LeadsHome(slot)'
    BY <2>2, <2>4 DEF LeadsHome
  <2>6. \A s \in Active : s # slot /\ LeadsHome(s) => LeadsHome(s)'
    BY <2>2, <2>4 DEF LeadsHome
  <2>7. Opened' = Active
    BY <2>3, <2>4 DEF Opened
  <2> QED
    BY <1>1, <1>2, <2>2, <2>3, <2>4, <2>5, <2>6, <2>7 DEF SlotNumbers
<1>4. CASE OpenFails
  <2>1. /\ Active' = Active \ {job.slot} /\ Rest
        /\ \A s \in Active' : clients'[s] = clients[s]
    BY <1>4, FailsFacts
  <2>2. numbers' = numbers /\ held' = held
    BY <1>4 DEF OpenFails
  <2> QED
    BY <1>1, <1>2, <2>1, <2>2, RestNumbers
<1> QED
  BY <1>3, <1>4

LEMMA SlotNumbersSending ==
    ASSUME Types, TableInv, JobInv, NumbersInv, FreshInv, SendOk \/ SendNext \/ EndLoop
    PROVE  SlotNumbers'
<1>1. /\ handler \in {"ok", "all", "list"}
      /\ UNCHANGED <<clients, numbers, stopping>>
  BY DEF SendOk, SendNext, EndLoop, cleanupVars
<1>2. Active' = Active /\ Opened = Active /\ Opened' \subseteq Active
  BY <1>1 DEF Active, Opened
<1>3. \A s : LeadsHome(s)' <=> LeadsHome(s)
  BY <1>1 DEF LeadsHome
<1>4. stopping' = -1 => \A s \in Opened' : LeadsHome(s)'
  BY <1>1, <1>2, <1>3 DEF NumbersInv
<1>5. "handler" \in Threads
  BY DEF Threads
<1>6. CASE SendOk
  <2>1. PICK d : \E text \in Texts : Deliver("handler", d, text)
    BY <1>6, SendOkFacts
  <2>2. held'["handler"] = Nobody /\ handler' = "all"
    BY <1>5, <1>6, <2>1, DeliverFacts DEF SendOk
  <2> QED
    BY <1>4, <2>2 DEF SlotNumbers
<1>7. CASE SendNext
  <2>1. PICK slot, c : \E text \in Texts : Sends(slot, c, text)
    BY <1>7, SendNextFacts
  <2>2. held'["handler"] = Nobody /\ handler' \in {"all", "list"}
    BY <1>5, <1>7, <2>1, DeliverFacts DEF SendNext, Sends
  <2> QED
    BY <1>4, <2>2 DEF SlotNumbers
<1>8. CASE EndLoop
  <2>1. held["handler"] = Nobody /\ held' = held
    BY <1>8 DEF EndLoop, NumbersInv
  <2>2. CASE Rest
    BY <1>1, <1>2, <2>1, <2>2, RestNumbers DEF NumbersInv
  <2>3. CASE ~Rest
    <3>1. handler' = "list"
      BY <1>8, <2>3 DEF EndLoop
    <3> QED
      BY <1>4, <2>1, <3>1 DEF SlotNumbers
  <2> QED
    BY <2>2, <2>3
<1> QED
  BY <1>6, <1>7, <1>8

\* Cleanup closes a number, and the handler gets through with the send it was in.
LEMMA SlotNumbersEnding ==
    ASSUME Types, TableInv, JobInv, NumbersInv, Interrupt \/ Cleanup \/ HandlerEnds \/ LastCleanup
    PROVE  SlotNumbers'
<1>1. UNCHANGED <<clients, job, at>> /\ Active' = Active /\ (stopping' = -1 => stopping = -1)
  BY EndingSame, EndingFacts DEF Active
<1>2. "handler" \in Threads /\ "main" \in Threads /\ "handler" # "main"
  BY DEF Threads
<1>3. handler' = handler \/ (handler = "receive" /\ handler' = "off")
  BY EndingSame DEF HandlerEnds
<1>4. Opened' = Opened /\ Targets(handler, at)' = Targets(handler, at)
  <2>1. handler = "open" <=> handler' = "open"
    BY <1>3
  <2>2. Opened' = Opened
    BY <1>1, <2>1 DEF Opened
  <2>3. handler' = handler => Targets(handler, at)' = Targets(handler, at)
    BY <1>1 DEF Targets
  <2>4. handler = "receive" /\ handler' = "off" => Targets(handler, at)' = Targets(handler, at)
    BY <1>1 DEF Targets
  <2> QED
    BY <1>3, <2>2, <2>3, <2>4
<1>5. CASE CloseSlot \/ CloseServer
  <2>1. PICK d : Close(d, "handler")
    BY <1>5, EndingFacts
  <2>2. /\ DOMAIN numbers' = DOMAIN numbers \ {d}
        /\ \A e \in DOMAIN numbers' : numbers'[e] = numbers[e]
        /\ \/ held'["handler"] = held["handler"]
           \/ /\ d \in DOMAIN numbers /\ held'["handler"] = numbers[d]
              /\ \E s \in SendsTo("handler") : clients[s].queue = d
    BY <1>2, <2>1, CloseFacts DEF Types
  <2>3. handler' = handler /\ stopping' # -1
    <3>1. MAX_CLIENTS \in Nat /\ \A s \in Slots : s \in Nat
      BY SlotFacts, SizesAssumption
    <3> QED
      BY <1>5, <3>1 DEF CloseSlot, CloseServer, ToNextSlot
  <2>4. \A s : LeadsHome(s) /\ clients[s].queue \in DOMAIN numbers' => LeadsHome(s)'
    BY <1>1, <2>2 DEF LeadsHome
  <2>5. handler \in {"receive", "open"} =>
          \A s \in Opened' : clients'[s].queue \in DOMAIN numbers' => LeadsHome(s)'
    BY <1>1, <1>4, <2>2, <2>4 DEF NumbersInv
  <2>6. handler = "ok" /\ clients'[job'.slot].queue \in DOMAIN numbers' => LeadsHome(job.slot)'
    BY <1>1, <2>2, <2>4 DEF NumbersInv
  <2>8. held'["handler"] # Nobody =>
             \A s \in SendsTo("handler")' : clients'[s].queue \notin DOMAIN numbers'
    <3>1. SendsTo("handler")' = SendsTo("handler")
      BY <1>1, <1>4, <2>3 DEF SendsTo
    <3>2. CASE held'["handler"] = held["handler"]
      BY <1>1, <2>2, <3>1, <3>2 DEF NumbersInv
    <3>3. CASE \E s \in SendsTo("handler") : clients[s].queue = d
      <4>1. \A r, s \in SendsTo("handler") : r = s
        BY DEF SendsTo
      <4> QED
        BY <1>1, <2>2, <3>1, <3>3, <4>1
    <3> QED
      BY <2>2, <3>2, <3>3
  <2>7. held'["handler"] # Nobody =>
             \/ handler = "ok" /\ held'["handler"] = job.who
             \/ handler \in {"all", "list"} /\ Targets(handler, at) # {}
    <3>1. CASE held'["handler"] = held["handler"]
      BY <3>1 DEF NumbersInv
    <3>2. CASE /\ d \in DOMAIN numbers /\ held'["handler"] = numbers[d]
               /\ \E s \in SendsTo("handler") : clients[s].queue = d
      <4>1. PICK s \in SendsTo("handler") : clients[s].queue = d
        BY <3>2
      <4>2. CASE handler = "ok"
        <5>1. s = job.slot
          BY <4>1, <4>2 DEF SendsTo
        <5>2. numbers[d] = clients[s].who
          BY <3>2, <4>1, <4>2, <5>1 DEF NumbersInv, LeadsHome
        <5> QED
          BY <3>2, <4>2, <5>1, <5>2 DEF JobInv
      <4>3. CASE handler # "ok"
        BY <4>1, <4>3 DEF SendsTo
      <4> QED
        BY <4>2, <4>3
    <3> QED
      BY <2>2, <3>1, <3>2
  <2> QED
    BY <1>1, <1>4, <2>3, <2>5, <2>6, <2>7, <2>8 DEF SlotNumbers
<1>6. CASE ~(CloseSlot \/ CloseServer)
  <2>1. numbers' = numbers
    BY <1>6, EndingSame
  <2>2. held'["handler"] = held["handler"]
    <3>1. CASE SendDown
      <4>1. PICK d : \E text \in Texts : Deliver("main", d, text)
        BY <3>1, EndingFacts
      <4> QED
        BY <1>2, <4>1, DeliverFacts
    <3>2. CASE ~SendDown
      BY <1>6, <3>2, EndingSame
    <3> QED
      BY <3>1, <3>2
  <2>3. \A s : LeadsHome(s)' <=> LeadsHome(s)
    BY <1>1, <2>1 DEF LeadsHome
  <2>4. held["handler"] # Nobody => handler # "receive"
    BY DEF NumbersInv
  <2>5. handler' = handler => SendsTo("handler")' = SendsTo("handler")
    BY <1>1, <1>4 DEF SendsTo
  <2> QED
    BY <1>1, <1>3, <1>4, <2>1, <2>2, <2>3, <2>4, <2>5 DEF SlotNumbers, NumbersInv
<1> QED
  BY <1>5, <1>6

LEMMA NumbersStep ==
    ASSUME Types, TableInv, JobInv, NumbersInv, FreshInv, [Next]_vars
    PROVE  NumbersInv'
<1>1. CASE (\E c \in Clients : ClientStep(c) \/ Receive(c)) \/ UNCHANGED vars
  <2>1. UNCHANGED <<clients, handler, job, at, stopping, numbers, held>>
    BY <1>1, ClientSame, StutterSame
  <2> QED
    BY <2>1 DEF NumbersInv, Opened, Active, LeadsHome, Targets, SendsTo
<1>2. CASE ~((\E c \in Clients : ClientStep(c) \/ Receive(c)) \/ UNCHANGED vars)
  BY <1>2, StepCases, OneNumberStep, SlotNumbersTaking, SlotNumbersOpening, SlotNumbersSending,
     SlotNumbersEnding, NumbersParts, PTL
<1> QED
  BY <1>1, <1>2

-----------------------------------------------------------------------------
(* Clients that nobody knows yet.                                           *)

\* What a client's step does to the server's queue and to its own place.
LEMMA ClientStepFacts ==
    ASSUME Types, NEW c \in Clients, ClientStep(c)
    PROVE  /\ UNCHANGED <<clients, next_id, handler, job, at, stopping, numbers, held, due>>
           /\ UNCHANGED <<client_id, heard, client_q>>
           /\ \A d \in Clients : d # c => pc'[d] = pc[d]
           /\ pc'[c] \in {"out", "joining"} => pc[c] \in {"out", "joining"} /\ server_q' = server_q
           /\ \/ server_q' = server_q
              \/ \E r \in Requests : /\ r.from = c /\ r.id = client_id[c]
                                     /\ server_q' = Append(server_q, r)
                                     /\ r.verb = "REG" => pc[c] = "joining"
<1>1. /\ UNCHANGED <<clients, next_id, handler, job, at, stopping, numbers, held, due>>
      /\ UNCHANGED <<client_id, heard, client_q>>
  BY ClientSame DEF ClientStep, Start, SendReg, LoggedIn, TimeOut, Fail, Type, Say, PressEsc,
                    SendQuit, Exit, Kill
<1>2. \A d \in Clients : d # c => pc'[d] = pc[d]
  BY DEF ClientStep, Start, SendReg, LoggedIn, TimeOut, Fail, Type, Say, PressEsc, SendQuit, Exit,
         Kill, Types, Goto
<1>3. pc'[c] \in {"out", "joining"} => pc[c] \in {"out", "joining"} /\ server_q' = server_q
  BY DEF ClientStep, Start, SendReg, LoggedIn, TimeOut, Fail, Type, Say, PressEsc, SendQuit, Exit,
         Kill, Types, Goto
<1>4. \/ server_q' = server_q
      \/ \E r \in Requests : /\ r.from = c /\ r.id = client_id[c]
                             /\ server_q' = Append(server_q, r)
                             /\ r.verb = "REG" => pc[c] = "joining"
  <2>1. CASE SendReg(c)
    <3>1. Request("REG", c, 0) \in Requests
      BY RequestTypes
    <3>2. Request("REG", c, 0).from = c /\ Request("REG", c, 0).id = client_id[c]
      BY DEF Request
    <3> QED
      BY <2>1, <3>1, <3>2 DEF SendReg, ToServer
  <2>2. CASE Say(c)
    <3>1. PICK r \in Requests : r = Request("MSG", c, lines)
      BY RequestTypes DEF Types
    <3>2. r.from = c /\ r.id = client_id[c] /\ r.verb = "MSG"
      BY <3>1 DEF Request
    <3> QED
      BY <2>2, <3>1, <3>2 DEF Say, ToServer
  <2>3. CASE SendQuit(c)
    <3>1. PICK r \in Requests : r = Request("QUIT", c, 0)
      BY RequestTypes
    <3>2. r.from = c /\ r.id = client_id[c] /\ r.verb = "QUIT"
      BY <3>1 DEF Request
    <3> QED
      BY <2>3, <3>1, <3>2 DEF SendQuit, ToServer
  <2> QED
    BY <2>1, <2>2, <2>3 DEF ClientStep, Start, LoggedIn, TimeOut, Fail, Type, PressEsc, Exit, Kill
<1> QED
  BY <1>1, <1>2, <1>3, <1>4

\* A send that goes to somebody else.
LEMMA DeliverQuiet ==
    ASSUME Types, NEW c \in Clients, Quiet(c), NEW t \in Threads, NEW d, NEW text \in Texts,
           Deliver(t, d, text), UNCHANGED <<numbers, heard, client_id>>
    PROVE  Quiet(c)'
<1>1. /\ held'[t] = Nobody /\ \A u \in Threads : u # t => held'[u] = held[u]
      /\ \/ client_q' = client_q
         \/ /\ Reaches(t, d) \in Clients
            /\ client_q' = [client_q EXCEPT ![Reaches(t, d)] = Append(@, text)]
            /\ \/ Reaches(t, d) = held[t]
               \/ held[t] = Nobody /\ d \in DOMAIN numbers /\ Reaches(t, d) = numbers[d]
  BY DeliverFacts
<1>2. /\ \A e \in DOMAIN numbers : numbers[e] # c
      /\ \A u \in Threads : held[u] # c
      /\ client_q[c] = <<>> /\ heard[c] = <<>> /\ client_id[c] = -1
  BY DEF Quiet
<1>3. client_q'[c] = client_q[c]
  BY <1>1, <1>2 DEF Types
<1>4. \A u \in Threads : held'[u] # c
  BY <1>1, <1>2, NobodyAssumption
<1> QED
  BY <1>2, <1>3, <1>4 DEF Quiet

\* Only the opening of its own queue lets anything reach a client that is quiet.
LEMMA QuietStep ==
    ASSUME Types, TableInv, JobInv, [Next]_vars, NEW c \in Clients, Quiet(c),
           ~(OpenQueue /\ job.who = c)
    PROVE  Quiet(c)'
<1>1. "handler" \in Threads /\ "main" \in Threads
  BY DEF Threads
<1>2. /\ \A e \in DOMAIN numbers : numbers[e] # c
      /\ \A u \in Threads : held[u] # c
      /\ client_q[c] = <<>> /\ heard[c] = <<>> /\ client_id[c] = -1
  BY DEF Quiet
<1>3. CASE SendOk
  <2>1. PICK d : \E text \in Texts : Deliver("handler", d, text)
    BY <1>3, SendOkFacts
  <2>2. UNCHANGED <<numbers, heard, client_id>>
    BY <1>3 DEF SendOk, clientVars
  <2> QED
    BY <1>1, <2>1, <2>2, DeliverQuiet
<1>4. CASE SendNext
  <2>1. PICK slot, d : \E text \in Texts : Sends(slot, d, text)
    BY <1>4, SendNextFacts
  <2>2. UNCHANGED <<numbers, heard, client_id>>
    BY <1>4 DEF SendNext, clientVars
  <2> QED
    BY <1>1, <2>1, <2>2, DeliverQuiet DEF Sends
<1>5. CASE SendDown
  <2>1. PICK d : \E text \in Texts : Deliver("main", d, text)
    BY <1>5, EndingFacts DEF Cleanup
  <2>2. UNCHANGED <<numbers, heard, client_id>>
    BY <1>5 DEF SendDown, clientVars
  <2> QED
    BY <1>1, <2>1, <2>2, DeliverQuiet
<1>6. ASSUME NEW d, NEW t \in Threads, Close(d, t), UNCHANGED <<client_q, heard, client_id>>
      PROVE  Quiet(c)'
  <2>1. /\ DOMAIN numbers' \subseteq DOMAIN numbers
        /\ \A e \in DOMAIN numbers' : numbers'[e] = numbers[e]
        /\ \A u \in Threads : u # t => held'[u] = held[u]
        /\ held'[t] = held[t] \/ (d \in DOMAIN numbers /\ held'[t] = numbers[d])
    BY <1>6, CloseFacts DEF Types
  <2>2. \A u \in Threads : held'[u] # c
    BY <1>2, <2>1
  <2> QED
    BY <1>2, <1>6, <2>1, <2>2 DEF Quiet
<1>7. CASE HandleQuit /\ FindById(Head(server_q).id) # {}
  <2>1. PICK slot \in Active, d \in Clients : Leaves(slot, d)
    BY <1>7, QuitFacts
  <2>2. UNCHANGED <<client_q, heard, client_id>>
    BY <1>7 DEF HandleQuit, clientVars
  <2> QED
    BY <1>1, <1>6, <2>1, <2>2 DEF Leaves
<1>8. CASE (CloseSlot \/ CloseServer) /\ \E d : Close(d, "handler")
  <2>1. UNCHANGED <<client_q, heard, client_id>>
    BY <1>8 DEF CloseSlot, CloseServer, clientVars
  <2> QED
    BY <1>1, <1>6, <1>8, <2>1
<1>9. CASE OpenQueue
  <2>1. PICK d \in Clients, slot \in Active : Opens(d, slot)
    BY <1>9, OpensFacts
  <2>2. d # c /\ held' = held
    BY <1>9, <2>1 DEF Opens
  <2>3. /\ DOMAIN numbers' = DOMAIN numbers \cup {LowestFree}
        /\ numbers'[LowestFree] = d
        /\ \A e \in DOMAIN numbers : numbers'[e] = numbers[e]
    BY <2>1, OpenFacts DEF Types, Opens
  <2>4. UNCHANGED <<client_q, heard, client_id>>
    BY <1>9 DEF OpenQueue, clientVars
  <2> QED
    BY <1>2, <2>2, <2>3, <2>4 DEF Quiet
<1>10. CASE UNCHANGED <<numbers, held>> /\ ~(SendOk \/ SendNext \/ SendDown)
  <2>1. client_q'[c] = client_q[c] /\ heard'[c] = heard[c] /\ client_id'[c] = client_id[c]
    <3>1. CASE TakeSlot \/ HandleMsg \/ HandleQuit \/ OpenQueue \/ OpenFails \/ EndLoop
      BY <3>1 DEF TakeSlot, HandleMsg, HandleQuit, OpenQueue, OpenFails, EndLoop, clientVars
    <3>2. CASE Interrupt \/ Cleanup \/ HandlerEnds \/ LastCleanup
      BY <1>10, <3>2, EndingSame DEF clientVars
    <3>3. CASE \E d \in Clients : ClientStep(d)
      BY <3>3, ClientStepFacts
    <3>4. CASE \E d \in Clients : Receive(d)
      <4>1. PICK d \in Clients : Receive(d)
        BY <3>4
      <4>2. d # c
        BY <1>2, <4>1 DEF Receive
      <4> QED
        BY <4>1, <4>2 DEF Receive, Types
    <3>5. CASE UNCHANGED vars
      BY <3>5, StutterSame
    <3> QED
      BY <1>10, <3>1, <3>2, <3>3, <3>4, <3>5, StepCases
  <2> QED
    BY <1>2, <1>10, <2>1 DEF Quiet
<1> QED
  BY <1>3, <1>4, <1>5, <1>7, <1>8, <1>9, <1>10, NumberCases

\* What is due to a client that is not in the table stays as it is.
LEMMA DueStep ==
    ASSUME Types, TableInv, JobInv, [Next]_vars, NEW c \in Clients, c \notin Members
    PROVE  due'[c] = due[c]
<1>1. due' = due \/ HandleMsg \/ HandleQuit \/ OpenQueue
  BY StepCases, EndingSame, ClientSame, StutterSame DEF TakeSlot, OpenFails, SendOk, SendNext, EndLoop
<1>2. \A text, users, t : (\A s \in Slots : t[s].active => s \in Active /\ t[s].who = clients[s].who)
                            => Owed(text, users, t)[c] = due[c]
  BY DEF Owed, Members
<1>3. CASE HandleMsg /\ FindById(Head(server_q).id) # {}
  <2>1. PICK slot \in Active, n \in Nat, d \in Clients : Speaks(slot, n, d)
    BY <1>3, MsgFacts
  <2>2. due' = Owed(Text("say", {d}, n), FALSE, clients)
    BY <2>1 DEF Speaks
  <2> QED
    BY <1>2, <2>2 DEF Active
<1>4. CASE HandleQuit /\ FindById(Head(server_q).id) # {}
  <2>1. PICK slot \in Active, d \in Clients : Leaves(slot, d)
    BY <1>4, QuitFacts
  <2>2. /\ due' = Owed(Text("leave", {d}, 0), TRUE, clients')
        /\ Active' \subseteq Active /\ \A s \in Active' : clients'[s] = clients[s]
    BY <2>1 DEF Leaves
  <2>3. \A s \in Slots : clients'[s].active => s \in Active /\ clients'[s].who = clients[s].who
    BY <2>2 DEF Active
  <2> QED
    BY <1>2, <2>2, <2>3
<1>5. CASE OpenQueue
  <2>1. PICK d \in Clients, slot \in Active : Opens(d, slot)
    BY <1>5, OpensFacts
  <2>2. /\ Active' = Active /\ \A s \in Active : clients'[s].who = clients[s].who
        /\ \A e \in Clients : e # d => due'[e] = Owed(job.text, TRUE, clients')[e]
        /\ d = job.who /\ slot = job.slot
    BY <2>1 DEF Opens
  <2>3. d # c
    BY <1>5, <2>2 DEF OpenQueue, JobInv, Members
  <2>4. \A s \in Slots : clients'[s].active => s \in Active /\ clients'[s].who = clients[s].who
    BY <2>2 DEF Active
  <2>5. Owed(job.text, TRUE, clients')[c] = due[c]
    BY <1>2, <2>4
  <2> QED
    BY <2>2, <2>3, <2>5
<1>6. CASE (HandleMsg \/ HandleQuit) /\ FindById(Head(server_q).id) = {}
  BY <1>6 DEF HandleMsg, HandleQuit
<1> QED
  BY <1>1, <1>3, <1>4, <1>5, <1>6

\* A client remains unknown while others get on.
LEMMA StillUnknown ==
    ASSUME Types, TableInv, JobInv, FreshInv, [Next]_vars, NEW c \in Clients, Fresh(c), Fresh(c)'
    PROVE  Unknown(c)'
<1>1. /\ Unknown(c) /\ c # Nobody /\ Quiet(c) /\ job.who # c
      /\ \A s \in Active : clients[s].who # c
  BY NobodyAssumption DEF FreshInv, Unknown, Members
<1>2. Quiet(c)' /\ due'[c] = <<>>
  BY <1>1, QuietStep, DueStep DEF Unknown
<1>3. CASE TakeSlot /\ Active # Slots
  <2>1. PICK d \in Clients, slot \in Slots \ Active : Takes(d, slot)
    BY <1>3, TakeFacts
  <2>2. d # c
    <3> SUFFICES ASSUME d = c PROVE FALSE
      OBVIOUS
    <3>1. 1 \in DOMAIN server_q /\ server_q[1].verb = "REG" /\ server_q[1].from = c
      BY <1>3, <2>1, ReceivedFacts DEF TakeSlot, Takes
    <3>2. HasReg(c)
      BY <3>1 DEF HasReg
    <3>3. pc[c] \notin {"out", "joining"} /\ pc' = pc
      BY <1>3, <3>2 DEF FreshInv, TakeSlot, clientVars
    <3>4. HasReg(c)'
      BY <3>3 DEF Fresh
    <3>5. PICK m \in DOMAIN server_q' : server_q'[m].verb = "REG" /\ server_q'[m].from = c
      BY <3>4 DEF HasReg
    <3>6. m + 1 \in DOMAIN server_q /\ m + 1 # 1 /\ server_q'[m] = server_q[m + 1]
      BY <1>3, ReceivedFacts DEF TakeSlot
    <3> QED
      BY <3>1, <3>5, <3>6 DEF FreshInv
  <2>3. job'.who = d /\ \A s \in Active' : clients'[s].who # c
    BY <1>1, <2>1, <2>2 DEF Takes
  <2> QED
    BY <1>2, <2>2, <2>3 DEF Unknown, Members
<1>4. CASE HandleMsg /\ FindById(Head(server_q).id) # {}
  <2>1. PICK slot \in Active, n \in Nat, d \in Clients : Speaks(slot, n, d)
    BY <1>4, MsgFacts
  <2>2. job'.who = d /\ d # c /\ clients' = clients
    BY <1>1, <2>1 DEF Speaks
  <2> QED
    BY <1>1, <1>2, <2>2 DEF Unknown, Members, Active
<1>5. CASE HandleQuit /\ FindById(Head(server_q).id) # {}
  <2>1. PICK slot \in Active, d \in Clients : Leaves(slot, d)
    BY <1>5, QuitFacts
  <2>2. job'.who = d /\ d # c /\ \A s \in Active' : clients'[s].who # c
    BY <1>1, <2>1 DEF Leaves
  <2> QED
    BY <1>2, <2>2 DEF Unknown, Members
<1>6. CASE OpenQueue
  <2>1. PICK d \in Clients, slot \in Active : Opens(d, slot)
    BY <1>6, OpensFacts
  <2>2. job' = job /\ \A s \in Active' : clients'[s].who # c
    BY <1>1, <1>6, <2>1 DEF Opens, OpenQueue
  <2> QED
    BY <1>1, <1>2, <2>2 DEF Unknown, Members
<1>7. CASE Rest /\ Active' \subseteq Active /\ \A s \in Active' : clients'[s] = clients[s]
  <2>1. job'.who = Nobody
    BY <1>7 DEF Rest, NoJob
  <2> QED
    BY <1>1, <1>2, <1>7, <2>1 DEF Unknown, Members
<1>8. CASE clients' = clients /\ job' = job
  BY <1>1, <1>2, <1>8 DEF Unknown, Members, Active
<1>9. CASE Rest /\ clients' = clients
  BY <1>7, <1>9 DEF Active
<1>10. CASE SendOk \/ SendNext \/ EndLoop
  BY <1>8, <1>9, <1>10 DEF SendOk, SendNext, EndLoop
<1>11. CASE Interrupt \/ Cleanup \/ HandlerEnds \/ LastCleanup
  BY <1>8, <1>11, EndingSame
<1>12. CASE (\E d \in Clients : ClientStep(d) \/ Receive(d)) \/ UNCHANGED vars
  BY <1>8, <1>12, ClientSame, StutterSame
<1>13. CASE OpenFails
  BY <1>7, <1>13, FailsFacts
<1> QED
  BY <1>3, <1>4, <1>5, <1>6, <1>9, <1>10, <1>11, <1>12, <1>13, StepCases, IgnoredFacts

\* Requests come to the end of the queue and are taken from its front.
LEMMA QueueCases ==
    ASSUME Types, [Next]_vars
    PROVE  \/ /\ UNCHANGED pc
              /\ server_q # <<>> /\ server_q' = Tail(server_q)
           \/ UNCHANGED <<pc, server_q>>
           \/ \E c \in Clients : ClientStep(c)
<1>1. CASE TakeSlot \/ HandleMsg \/ HandleQuit
  BY <1>1 DEF TakeSlot, HandleMsg, HandleQuit, Received, clientVars
<1>2. CASE OpenQueue \/ OpenFails \/ SendOk \/ SendNext \/ EndLoop
  BY <1>2 DEF OpenQueue, OpenFails, SendOk, SendNext, EndLoop, clientVars
<1>3. CASE Interrupt \/ Cleanup \/ HandlerEnds \/ LastCleanup
  BY <1>3, EndingSame DEF clientVars
<1>4. CASE \E c \in Clients : Receive(c)
  BY <1>4 DEF Receive
<1>5. CASE UNCHANGED vars
  BY <1>5, StutterSame
<1> QED
  BY <1>1, <1>2, <1>3, <1>4, <1>5, StepCases

\* Nothing reaches the client whose slot waits for its queue.
LEMMA WaitingStep ==
    ASSUME Types, TableInv, JobInv, FreshInv, [Next]_vars, handler' = "open"
    PROVE  Quiet(job.who)' /\ due'[job'.who] = <<>>
<1>1. CASE TakeSlot /\ Active # Slots
  <2>1. PICK c \in Clients, slot \in Slots \ Active : Takes(c, slot)
    BY <1>1, TakeFacts
  <2>2. Unknown(c)
    BY <1>1, <2>1, RegIsNew DEF Takes
  <2>3. ~OpenQueue
    BY <1>1 DEF TakeSlot, OpenQueue, Received
  <2>4. Quiet(c)' /\ due'[c] = <<>>
    BY <2>2, <2>3, QuietStep, DueStep DEF Unknown
  <2>5. job'.who = c
    BY <2>1 DEF Takes
  <2> QED
    BY <2>4, <2>5 DEF Quiet
<1>2. CASE ~(TakeSlot /\ Active # Slots)
  <2>1. handler = "open" /\ job' = job /\ due' = due /\ ~OpenQueue
    <3>1. CASE TakeSlot \/ HandleMsg \/ HandleQuit
      <4>1. handler' # "open"
        BY <1>2, <3>1, IgnoredFacts, RestTypes, MsgFacts, QuitFacts DEF Speaks, Leaves
      <4> QED
        BY <4>1
    <3>2. CASE OpenQueue \/ OpenFails \/ SendOk \/ SendNext \/ EndLoop
      BY <3>2, RestTypes DEF OpenQueue, OpenFails, SendOk, SendNext, EndLoop
    <3>3. CASE Interrupt \/ Cleanup \/ HandlerEnds \/ LastCleanup
      BY <3>3, EndingSame DEF HandlerEnds, OpenQueue, Interrupt, Cleanup, TestSlot, SendDown,
         CloseSlot, UnlinkSlot, CloseServer, LastCleanup
    <3>4. CASE (\E d \in Clients : ClientStep(d) \/ Receive(d)) \/ UNCHANGED vars
      <4>1. handler = handler' /\ job' = job /\ due' = due
        BY <3>4, ClientSame, StutterSame
      <4> QED
        BY <4>1 DEF OpenQueue
    <3> QED
      BY <3>1, <3>2, <3>3, <3>4, StepCases
  <2>2. PICK c \in Clients : c = job.who
    BY <2>1 DEF JobInv, TableInv
  <2>3. Quiet(c) /\ due[c] = <<>>
    BY <2>1, <2>2 DEF FreshInv
  <2>4. Quiet(c)'
    BY <2>1, <2>3, QuietStep
  <2> QED
    BY <2>1, <2>2, <2>3, <2>4 DEF Quiet
<1> QED
  BY <1>1, <1>2

LEMMA FreshStep ==
    ASSUME Types, TableInv, JobInv, FreshInv, [Next]_vars
    PROVE  FreshInv'
<1>1. \A j, k \in DOMAIN server_q : /\ server_q[j].verb = "REG" /\ server_q[k].verb = "REG"
                                    /\ server_q[j].from = server_q[k].from
                                    => j = k
  BY DEF FreshInv
<1>5. handler' = "open" => Quiet(job.who)' /\ due'[job'.who] = <<>>
  BY WaitingStep
<1>2. CASE /\ UNCHANGED pc
           /\ server_q # <<>> /\ server_q' = Tail(server_q)
  <2>1. /\ server_q \in Seq(Requests) /\ DOMAIN server_q' = 1 .. Len(server_q) - 1
        /\ \A m \in DOMAIN server_q' : m + 1 \in DOMAIN server_q /\ server_q'[m] = server_q[m + 1]
    <3> HIDE DEF Requests
    <3> QED
      BY <1>2, TailFacts DEF Types
  <2>2. \A c \in Clients : HasReg(c)' => HasReg(c)
    BY <2>1 DEF HasReg
  <2>3. \A c \in Clients : Fresh(c)' => Unknown(c)'
    BY <1>2, <2>2, StillUnknown DEF Fresh
  <2>4. \A c \in Clients : pc'[c] \in {"out", "joining"} => ~HasReg(c)'
    BY <1>2, <2>2 DEF FreshInv
  <2>5. \A j, k \in DOMAIN server_q' : /\ server_q'[j].verb = "REG" /\ server_q'[k].verb = "REG"
                                       /\ server_q'[j].from = server_q'[k].from
                                       => j = k
    <3> SUFFICES ASSUME NEW j \in DOMAIN server_q', NEW k \in DOMAIN server_q',
                        server_q'[j].verb = "REG", server_q'[k].verb = "REG",
                        server_q'[j].from = server_q'[k].from
                 PROVE  j = k
      OBVIOUS
    <3>1. j + 1 = k + 1
      BY <1>1, <2>1
    <3>2. j \in Int /\ k \in Int
      BY <2>1
    <3> QED
      BY <3>1, <3>2
  <2> QED
    BY <1>5, <2>3, <2>4, <2>5 DEF FreshInv
<1>3. CASE UNCHANGED <<pc, server_q>>
  <2>1. \A c \in Clients : (HasReg(c)' <=> HasReg(c)) /\ (Fresh(c)' <=> Fresh(c))
    BY <1>3 DEF HasReg, Fresh
  <2>2. \A c \in Clients : Fresh(c)' => Unknown(c)'
    BY <2>1, StillUnknown
  <2> QED
    BY <1>3, <1>5, <2>1, <2>2 DEF FreshInv
<1>4. ASSUME NEW c \in Clients, ClientStep(c) PROVE FreshInv'
  <2>1. /\ \A d \in Clients : d # c => pc'[d] = pc[d]
        /\ pc'[c] \in {"out", "joining"} => pc[c] \in {"out", "joining"} /\ server_q' = server_q
    BY <1>4, ClientStepFacts
  <2>2. CASE server_q' = server_q
    <3>1. \A d \in Clients : HasReg(d)' <=> HasReg(d)
      BY <2>2 DEF HasReg
    <3>2. \A d \in Clients : pc'[d] \in {"out", "joining"} => pc[d] \in {"out", "joining"}
      BY <2>1
    <3>3. \A d \in Clients : Fresh(d)' => Fresh(d)
      BY <3>1, <3>2 DEF Fresh
    <3>4. \A d \in Clients : Fresh(d)' => Unknown(d)'
      BY <3>3, StillUnknown
    <3> QED
      BY <1>1, <1>5, <2>2, <3>1, <3>2, <3>4 DEF FreshInv
  <2>3. CASE server_q' # server_q
    <3>1. PICK r \in Requests : /\ r.from = c
                                /\ server_q' = Append(server_q, r)
                                /\ r.verb = "REG" => pc[c] = "joining"
      BY <1>4, <2>3, ClientStepFacts
    <3>2. /\ Len(server_q) + 1 \notin DOMAIN server_q
          /\ DOMAIN server_q' = DOMAIN server_q \cup {Len(server_q) + 1}
          /\ \A m \in DOMAIN server_q : server_q'[m] = server_q[m]
          /\ server_q'[Len(server_q) + 1] = r
      <4>1. server_q \in Seq(Requests)
        BY DEF Types
      <4> HIDE DEF Requests
      <4> QED
        BY <3>1, <4>1, AppendFacts
    <3>3. \A d \in Clients : HasReg(d)' => HasReg(d) \/ (d = c /\ r.verb = "REG")
      BY <3>1, <3>2 DEF HasReg
    <3>4. r.verb = "REG" => ~HasReg(c)
      BY <3>1 DEF FreshInv
    <3>5. \A d \in Clients : pc'[d] \in {"out", "joining"} => pc[d] \in {"out", "joining"} /\ d # c
      BY <2>1, <2>3
    <3>6. \A d \in Clients : Fresh(d)' => Fresh(d)
      BY <3>1, <3>3, <3>5 DEF Fresh
    <3>7. \A d \in Clients : Fresh(d)' => Unknown(d)'
      BY <3>6, StillUnknown
    <3>8. \A d \in Clients : pc'[d] \in {"out", "joining"} => ~HasReg(d)'
      BY <3>3, <3>5 DEF FreshInv
    <3>9. \A j, k \in DOMAIN server_q' : /\ server_q'[j].verb = "REG" /\ server_q'[k].verb = "REG"
                                         /\ server_q'[j].from = server_q'[k].from
                                         => j = k
      <4> DEFINE n == Len(server_q) + 1
      <4>1. r.verb = "REG" => \A m \in DOMAIN server_q :
                                 server_q[m].verb = "REG" => server_q[m].from # c
        BY <3>4 DEF HasReg
      <4> HIDE DEF n
      <4> QED
        BY <1>1, <3>1, <3>2, <4>1 DEF n
    <3> QED
      BY <1>5, <3>7, <3>8, <3>9 DEF FreshInv
  <2> QED
    BY <2>2, <2>3
<1> QED
  BY <1>2, <1>3, <1>4, QueueCases

-----------------------------------------------------------------------------
(* Ids.                                                                     *)

\* An OK goes to the client of the slot that was taken, or to nobody.
LEMMA OkReaches ==
    ASSUME Types, TableInv, JobInv, NumbersInv, SendOk
    PROVE  \E c \in Clients, text \in Texts :
             /\ c = job.who /\ c = clients[job.slot].who /\ text = Text("ok", {}, job.sender)
             /\ client_q' = client_q \/ client_q' = [client_q EXCEPT ![c] = Append(@, text)]
             /\ LeadsHome(job.slot) => client_q' = [client_q EXCEPT ![c] = Append(@, text)]
<1>1. PICK slot \in Active, c \in Clients, text \in Texts :
             /\ slot = job.slot /\ c = job.who /\ c = clients[slot].who
             /\ text = Text("ok", {}, job.sender)
             /\ Deliver("handler", clients[slot].queue, text)
  BY SendOkFacts
<1>2. handler = "ok" /\ "handler" \in Threads /\ c # Nobody
  BY NobodyAssumption DEF SendOk, Threads
<1> DEFINE d == clients[slot].queue
           r == Reaches("handler", d)
<1>3. \/ r = Nobody /\ client_q' = client_q
      \/ /\ client_q' = [client_q EXCEPT ![r] = Append(@, text)]
         /\ \/ held["handler"] # Nobody /\ r = held["handler"]
            \/ d \in DOMAIN numbers /\ r = numbers[d]
  BY <1>1, <1>2, DeliverFacts, NobodyAssumption
<1>4. held["handler"] # Nobody => held["handler"] = c
  BY <1>1, <1>2 DEF NumbersInv
<1>5. d \in DOMAIN numbers => numbers[d] = c
  BY <1>1, <1>2 DEF NumbersInv, LeadsHome
<1>6. LeadsHome(slot) => d \in DOMAIN numbers /\ r # Nobody
  BY <1>2, <1>4, <1>5 DEF LeadsHome, Reaches
<1>7. r \in {c, Nobody}
  BY <1>3, <1>4, <1>5
<1> HIDE DEF r, d
<1>8. \/ r = Nobody /\ client_q' = client_q
      \/ r = c /\ client_q' = [client_q EXCEPT ![c] = Append(@, text)]
  BY <1>3, <1>4, <1>5
<1>9. LeadsHome(slot) => client_q' = [client_q EXCEPT ![c] = Append(@, text)]
  BY <1>6, <1>8
<1> QED
  BY <1>1, <1>8, <1>9

\* Who holds an id after a step held it before, or takes a slot and gets the next one.
LEMMA HoldsStep ==
    ASSUME Types, TableInv, JobInv, NumbersInv, [Next]_vars, NEW c \in Clients, NEW n,
           Holds(c, n)'
    PROVE  \/ Holds(c, n)
           \/ TakeSlot /\ Active # Slots /\ c = server_q[1].from /\ n = next_id
<1>1. CASE TakeSlot \/ HandleMsg \/ HandleQuit
  <2>1. UNCHANGED <<client_id, client_q>>
    BY <1>1 DEF TakeSlot, HandleMsg, HandleQuit, clientVars
  <2>2. \A m \in DOMAIN server_q' : \E k \in DOMAIN server_q : server_q'[m] = server_q[k]
    BY <1>1, ReceivedFacts DEF TakeSlot, HandleMsg, HandleQuit
  <2>3. CASE TakeSlot /\ Active # Slots
    <3>1. PICK d \in Clients, slot \in Slots \ Active : Takes(d, slot)
      BY <2>3, TakeFacts
    <3>2. handler' # "ok" /\ d = server_q[1].from
      BY <3>1 DEF Takes
    <3>3. /\ Active' = Active \cup {slot} /\ clients'[slot].who = d /\ clients'[slot].id = next_id
          /\ \A s \in Active : clients'[s] = clients[s]
      BY <3>1 DEF Takes
    <3> QED
      BY <2>1, <2>2, <2>3, <3>2, <3>3 DEF Holds
  <2>4. CASE HandleMsg /\ FindById(Head(server_q).id) # {}
    <3>1. handler' # "ok" /\ Active' = Active /\ clients' = clients
      BY <2>4, MsgFacts DEF Speaks, Active
    <3> QED
      BY <2>1, <2>2, <3>1 DEF Holds
  <2>5. CASE HandleQuit /\ FindById(Head(server_q).id) # {}
    <3>1. handler' # "ok" /\ Active' \subseteq Active /\ \A s \in Active' : clients'[s] = clients[s]
      BY <2>5, QuitFacts DEF Leaves
    <3> QED
      BY <2>1, <2>2, <3>1 DEF Holds
  <2>6. CASE Rest /\ UNCHANGED <<clients, next_id, numbers, held, due>>
    <3>1. handler' # "ok" /\ Active' = Active /\ clients' = clients
      BY <2>6 DEF Rest, Active
    <3> QED
      BY <2>1, <2>2, <3>1 DEF Holds
  <2> QED
    BY <1>1, <2>3, <2>4, <2>5, <2>6, IgnoredFacts
<1>2. ASSUME NEW d \in Clients, NEW text \in Texts, UNCHANGED <<clients, client_id, server_q>>,
             (handler' = handler /\ job' = job) \/ handler' # "ok",
             \/ client_q' = client_q
             \/ client_q' = [client_q EXCEPT ![d] = Append(@, text)],
             text.kind = "ok" => d = job.who /\ text.n = job.sender /\ handler = "ok"
      PROVE  Holds(c, n)
  <2>1. /\ DOMAIN Append(client_q[d], text) = DOMAIN client_q[d] \cup {Len(client_q[d]) + 1}
        /\ \A m \in DOMAIN client_q[d] : Append(client_q[d], text)[m] = client_q[d][m]
        /\ Append(client_q[d], text)[Len(client_q[d]) + 1] = text
    <3>1. client_q[d] \in Seq(Texts)
      BY DEF Types
    <3> HIDE DEF Texts
    <3> QED
      BY <3>1, AppendFacts
  <2>2. client_q' = client_q \/ (client_q'[d] = Append(client_q[d], text)
                                 /\ \A e \in Clients : e # d => client_q'[e] = client_q[e])
    BY <1>2 DEF Types
  <2>3. \A k \in DOMAIN client_q'[c] :
           \/ \E m \in DOMAIN client_q[c] : client_q'[c][k] = client_q[c][m]
           \/ c = d /\ client_q'[c][k] = text
    BY <2>1, <2>2
  <2>4. Active' = Active
    BY <1>2 DEF Active
  <2> QED
    BY <1>2, <2>3, <2>4 DEF Holds
<1>3. CASE SendOk
  <2>1. PICK d \in Clients, text \in Texts :
             /\ d = job.who /\ text = Text("ok", {}, job.sender)
             /\ client_q' = client_q \/ client_q' = [client_q EXCEPT ![d] = Append(@, text)]
    BY <1>3, OkReaches
  <2>2. text.n = job.sender
    BY <2>1 DEF Text
  <2>3. handler = "ok" /\ handler' # "ok" /\ UNCHANGED <<clients, client_id, server_q>>
    BY <1>3 DEF SendOk, clientVars
  <2> QED
    BY <1>2, <2>1, <2>2, <2>3
<1>4. CASE SendNext
  <2>1. PICK slot \in Targets(handler, at), d \in Clients : \E text \in Texts : Sends(slot, d, text)
    BY <1>4, SendNextFacts
  <2>2. PICK text \in Texts : Sends(slot, d, text)
    BY <2>1
  <2>3. /\ text.kind # "ok" /\ "handler" \in Threads
        /\ Deliver("handler", clients[slot].queue, text)
    BY <2>2 DEF Sends, Threads
  <2>4. \/ client_q' = client_q
        \/ \E e \in Clients : client_q' = [client_q EXCEPT ![e] = Append(@, text)]
    BY <2>3, DeliverFacts
  <2>5. UNCHANGED <<handler, job, clients, client_id, server_q>>
    BY <1>4 DEF SendNext, clientVars
  <2> QED
    BY <1>2, <2>3, <2>4, <2>5
<1>5. CASE EndLoop
  <2>1. UNCHANGED <<clients, client_id, server_q, client_q>>
    BY <1>5 DEF EndLoop, clientVars
  <2>2. (handler' = handler /\ job' = job) \/ handler' # "ok"
    BY <1>5 DEF EndLoop, Rest
  <2> QED
    BY <2>1, <2>2 DEF Holds, Active
<1>6. CASE Interrupt \/ Cleanup \/ HandlerEnds \/ LastCleanup
  <2>1. UNCHANGED <<job, clients, client_id, server_q>>
    BY <1>6, EndingSame DEF clientVars
  <2>2. handler' = handler \/ handler' # "ok"
    BY <1>6, EndingSame DEF HandlerEnds
  <2>3. CASE SendDown
    <3>1. PICK d : \E text \in Texts : text = Down /\ Deliver("main", d, text)
      BY <1>6, <2>3, EndingFacts
    <3>2. PICK text \in Texts : text = Down /\ Deliver("main", d, text)
      BY <3>1
    <3>3. text.kind # "ok" /\ "main" \in Threads
      BY <3>2 DEF Down, Text, Threads
    <3>4. \/ client_q' = client_q
          \/ \E e \in Clients : client_q' = [client_q EXCEPT ![e] = Append(@, text)]
      BY <3>2, <3>3, DeliverFacts
    <3> QED
      BY <1>2, <2>1, <2>2, <3>3, <3>4
  <2>4. CASE ~SendDown
    <3>1. client_q' = client_q
      BY <1>6, <2>4, EndingSame
    <3> QED
      BY <2>1, <2>2, <3>1 DEF Holds, Active
  <2> QED
    BY <2>3, <2>4
<1>7. ASSUME NEW d \in Clients, ClientStep(d) PROVE Holds(c, n)
  <2>1. UNCHANGED <<clients, handler, job, client_id, client_q>>
    BY <1>7, ClientStepFacts
  <2>2. \A m \in DOMAIN server_q' :
           \/ \E k \in DOMAIN server_q : server_q'[m] = server_q[k]
           \/ server_q'[m].from = d /\ server_q'[m].id = client_id[d]
    <3>1. CASE server_q' = server_q
      BY <3>1
    <3>2. CASE server_q' # server_q
      <4>1. PICK r \in Requests : /\ r.from = d /\ r.id = client_id[d]
                                  /\ server_q' = Append(server_q, r)
        BY <1>7, <3>2, ClientStepFacts
      <4>2. server_q \in Seq(Requests)
        BY DEF Types
      <4>3. /\ DOMAIN server_q' = DOMAIN server_q \cup {Len(server_q) + 1}
            /\ \A m \in DOMAIN server_q : server_q'[m] = server_q[m]
            /\ server_q'[Len(server_q) + 1] = r
        <5> HIDE DEF Requests
        <5> QED
          BY <4>1, <4>2, AppendFacts
      <4> QED
        BY <4>1, <4>3
    <3> QED
      BY <3>1, <3>2
  <2> QED
    BY <2>1, <2>2 DEF Holds, Active
<1>8. ASSUME NEW d \in Clients, Receive(d) PROVE Holds(c, n)
  <2>1. UNCHANGED <<clients, handler, job, server_q>>
    BY <1>8, ClientSame DEF Receive
  <2>2. PICK text \in Texts :
             /\ client_q[d] # <<>> /\ text = Head(client_q[d])
             /\ client_q' = [client_q EXCEPT ![d] = Tail(@)]
             /\ client_id' = [client_id EXCEPT ![d] = IF text.kind = "ok" THEN text.n ELSE @]
    BY <1>8, ReceiveFacts
  <2>3. client_q[d] \in Seq(Texts)
    BY DEF Types
  <2>4. /\ 1 \in DOMAIN client_q[d] /\ text = client_q[d][1]
        /\ \A m \in DOMAIN Tail(client_q[d]) :
              m + 1 \in DOMAIN client_q[d] /\ Tail(client_q[d])[m] = client_q[d][m + 1]
    <3> HIDE DEF Texts
    <3> QED
      BY <2>2, <2>3, TailFacts
  <2>5. \A k \in DOMAIN client_q'[c] : \E m \in DOMAIN client_q[c] :
           client_q'[c][k] = client_q[c][m]
    BY <2>2, <2>4 DEF Types
  <2>6. \/ client_id'[c] = client_id[c]
        \/ \E m \in DOMAIN client_q[c] : /\ client_q[c][m].kind = "ok"
                                         /\ client_id'[c] = client_q[c][m].n
    BY <2>2, <2>4 DEF Types
  <2> QED
    BY <2>1, <2>5, <2>6 DEF Holds, Active
<1>9. CASE UNCHANGED vars
  BY <1>9, StutterSame DEF Holds, Active
<1>10. CASE OpenQueue
  <2>1. PICK d \in Clients, slot \in Active : Opens(d, slot)
    BY <1>10, OpensFacts
  <2>2. /\ Active' = Active
        /\ \A s \in Active : clients'[s].who = clients[s].who /\ clients'[s].id = clients[s].id
    BY <2>1 DEF Opens
  <2>3. /\ job.slot \in Active /\ job' = job
        /\ clients[job.slot].who = job.who /\ clients[job.slot].id = job.sender
    BY <1>10 DEF OpenQueue, JobInv
  <2>4. UNCHANGED <<client_id, server_q, client_q>>
    BY <1>10 DEF OpenQueue, clientVars
  <2> QED
    BY <2>2, <2>3, <2>4 DEF Holds
<1>11. CASE OpenFails
  <2>1. Rest /\ Active' \subseteq Active /\ \A s \in Active' : clients'[s] = clients[s]
    BY <1>11, FailsFacts
  <2>2. handler' # "ok"
    BY <2>1 DEF Rest
  <2>3. UNCHANGED <<client_id, server_q, client_q>>
    BY <1>11 DEF OpenFails, clientVars
  <2> QED
    BY <2>1, <2>2, <2>3 DEF Holds
<1> QED
  BY <1>1, <1>3, <1>4, <1>5, <1>6, <1>7, <1>8, <1>9, <1>10, <1>11, StepCases

LEMMA IdStep ==
    ASSUME Types, TableInv, JobInv, NumbersInv, FreshInv, IdInv, [Next]_vars
    PROVE  IdInv'
<1>1. next_id' \in Nat /\ next_id \in Nat
  BY TypesStep DEF Types
<1>2. CASE TakeSlot /\ Active # Slots
  <2>1. PICK d \in Clients, slot \in Slots \ Active : Takes(d, slot)
    BY <1>2, TakeFacts
  <2>2. next_id' = next_id + 1 /\ server_q[1].from = d
    BY <2>1 DEF Takes
  <2>3. \A c \in Clients : \A n : Holds(c, n)' => Holds(c, n) \/ (c = d /\ n = next_id)
    BY <2>2, HoldsStep
  <2>4. \A c \in Clients : ~Holds(c, next_id)
    BY <1>1 DEF IdInv
  <2>5. ASSUME NEW c \in Clients, NEW n, Holds(c, n)' PROVE n \in Nat /\ n < next_id'
    <3>1. CASE Holds(c, n)
      <4>1. n \in Nat /\ n < next_id
        BY <3>1 DEF IdInv
      <4> QED
        BY <1>1, <2>2, <4>1
    <3>2. CASE n = next_id
      BY <1>1, <2>2, <3>2
    <3> QED
      BY <2>3, <2>5, <3>1, <3>2
  <2>6. ASSUME NEW c \in Clients, NEW e \in Clients, NEW n, Holds(c, n)', Holds(e, n)'
        PROVE  c = e
    BY <2>3, <2>4, <2>6 DEF IdInv
  <2> QED
    BY <2>5, <2>6 DEF IdInv
<1>3. CASE ~(TakeSlot /\ Active # Slots)
  <2>1. \A c \in Clients : \A n : Holds(c, n)' => Holds(c, n)
    BY <1>3, HoldsStep
  <2>2. next_id' = next_id
    <3>1. CASE TakeSlot \/ HandleMsg \/ HandleQuit
      BY <1>3, <3>1 DEF TakeSlot, HandleMsg, HandleQuit
    <3>2. CASE OpenQueue \/ OpenFails \/ SendOk \/ SendNext \/ EndLoop
      BY <3>2 DEF OpenQueue, OpenFails, SendOk, SendNext, EndLoop
    <3> QED
      BY <3>1, <3>2, StepCases, EndingSame, ClientSame, StutterSame
  <2> QED
    BY <2>1, <2>2 DEF IdInv
<1> QED
  BY <1>2, <1>3

-----------------------------------------------------------------------------
(* An id leads to its owner.                                                *)

LEMMA IInvInit == Init => IInv
<1> SUFFICES ASSUME Init PROVE IInv
  OBVIOUS
<1>1. /\ next_id = 0 /\ handler = "receive" /\ job = NoJob /\ at = 0 /\ stopping = -1
      /\ server_q = <<>> /\ lines = 0
      /\ \A s \in Slots : clients[s] = [who |-> Nobody, id |-> 0, queue |-> Stdin, active |-> FALSE]
      /\ numbers = [d \in {Stdin, ServerNumber} |-> Nobody] /\ held = [u \in Threads |-> Nobody]
      /\ \A c \in Clients : client_q[c] = <<>> /\ heard[c] = <<>> /\ client_id[c] = -1
  BY DEF Init
<1>2. Active = {}
  BY <1>1 DEF Active
<1>3. Types
  <2>1. clients \in [Slots -> Rows]
    BY DEF Init, Rows, Stdin
  <2>2. server_q \in Seq(Requests) /\ client_q \in [Clients -> Seq(Texts)]
        /\ due \in [Clients -> Seq(Texts)] /\ heard \in [Clients -> Seq(Texts)]
    <3> HIDE DEF Texts, Requests
    <3> QED
      BY EmptySeq DEF Init
  <2>3. /\ pc \in [Clients -> {"out", "joining", "waiting", "typing", "saying", "quitting",
                              "sleeping", "failing", "failed", "gone"}]
        /\ reading \in [Clients -> BOOLEAN] /\ running \in [Clients -> BOOLEAN]
        /\ client_id \in [Clients -> Int]
    BY DEF Init
  <2>4. NumberTypes
    <3>1. IsFiniteSet({Stdin, ServerNumber})
      <4>1. IsFiniteSet({Stdin})
        BY FS_Singleton
      <4>2. {Stdin, ServerNumber} = {Stdin} \cup {ServerNumber}
        OBVIOUS
      <4> QED
        BY <4>1, <4>2, FS_AddElement
    <3>2. DOMAIN numbers = {Stdin, ServerNumber} /\ {Stdin, ServerNumber} \subseteq Nat
      BY <1>1 DEF Stdin, ServerNumber
    <3> QED
      BY <1>1, <3>1, <3>2 DEF NumberTypes
  <2> HIDE DEF Texts, Requests, Jobs, Rows
  <2> QED
    BY <1>1, <2>1, <2>2, <2>3, <2>4, NoJobTypes DEF Types
<1>4. TableInv
  BY <1>2 DEF TableInv
<1>5. JobInv
  BY <1>1, <1>2, KindFacts DEF JobInv
<1>6. \A c \in Clients : ~HasReg(c) /\ Unknown(c)
  <2>1. job.who = Nobody
    BY <1>1 DEF NoJob
  <2>2. \A c \in Clients : Quiet(c)
    BY <1>1, NobodyAssumption DEF Quiet
  <2>3. \A c \in Clients : due[c] = <<>>
    BY DEF Init
  <2> QED
    BY <1>1, <1>2, <2>1, <2>2, <2>3, NobodyAssumption DEF HasReg, Unknown, Members
<1>7. FreshInv
  BY <1>1, <1>6 DEF FreshInv
<1>8. IdInv
  BY <1>1, <1>2 DEF IdInv, Holds
<1>9. NumbersInv
  <2>1. Opened = {} /\ "handler" \in Threads
    BY <1>2 DEF Opened, Threads
  <2>2. \A d \in DOMAIN numbers : numbers[d] = Nobody
    BY <1>1
  <2>3. \A u \in Threads : held[u] = Nobody
    BY <1>1
  <2>4. handler = "receive"
    BY <1>1
  <2> QED
    BY <2>1, <2>2, <2>3, <2>4 DEF NumbersInv
<1> QED
  BY <1>3, <1>4, <1>5, <1>7, <1>8, <1>9 DEF IInv

LEMMA IInvStep == IInv /\ [Next]_vars => IInv'
  BY TypesStep, TableStep, JobStep, NumbersStep, FreshStep, IdStep DEF IInv

LEMMA IInvHolds == Spec => []IInv
<1> QED
  BY IInvInit, IInvStep, PTL DEF Spec

\* The id in a request leads to the slot of its sender or to none (find_client_by_id,
\* chat_server.c:86-91, with the ids of chat_server.c:113 that clients send back).
THEOREM IdTheorem == Spec => []IdsIdentify
<1>1. IInv => IdsIdentify
  <2> SUFFICES ASSUME IInv PROVE IdsIdentify
    OBVIOUS
  <2>1. ASSUME NEW s \in Active, NEW t \in Active, clients[s].id = clients[t].id
        PROVE  s = t
    <3>1. clients[s].who = clients[t].who
      BY <2>1, HolderInv DEF IInv, IdInv
    <3> QED
      BY <3>1 DEF IInv, TableInv
  <2>2. ASSUME NEW k \in DOMAIN server_q, NEW s \in FindById(server_q[k].id)
        PROVE  clients[s].who = server_q[k].from
    <3>1. s \in Active /\ clients[s].id = server_q[k].id
      BY DEF FindById
    <3>2. server_q[k] \in Requests
      <4>1. server_q \in Seq(Requests)
        BY DEF IInv, Types
      <4> HIDE DEF Requests
      <4> QED
        BY <4>1, LenProperties, ElementOfSeq
    <3>3. /\ clients[s].who \in Clients /\ Holds(clients[s].who, clients[s].id)
          /\ clients[s].id \in Nat
      BY <3>1, HolderInv DEF IInv
    <3>4. server_q[k].from \in Clients /\ server_q[k].id # -1
      BY <3>1, <3>2, <3>3 DEF Requests
    <3>5. Holds(server_q[k].from, clients[s].id)
      BY <3>1, <3>4 DEF Holds
    <3> QED
      BY <3>3, <3>4, <3>5 DEF IInv, IdInv
  <2> QED
    BY <2>1, <2>2 DEF IdsIdentify
<1> QED
  BY <1>1, IInvHolds, PTL

-----------------------------------------------------------------------------
(* Nothing is missed.                                                       *)

OkPart(c) == IF handler = "ok" /\ job.who = c THEN <<Text("ok", {}, job.sender)>> ELSE <<>>

AllPart(c) == IF handler \in {"ok", "all"} /\ Ahead(c, "all", at) THEN <<job.text>> ELSE <<>>

ListPart(c) ==
    IF \/ (handler \in {"ok", "all"} /\ job.users)
       \/ (handler = "list" /\ Ahead(c, "list", at))
    THEN <<UserList(clients)>> ELSE <<>>

\* The texts under way to c, in the order of their sending.
LEMMA PendingParts ==
    ASSUME Types, TableInv, NEW c \in Clients
    PROVE  /\ OkPart(c) \in Seq(Texts) /\ AllPart(c) \in Seq(Texts)
           /\ ListPart(c) \in Seq(Texts)
           /\ AllPart(c) \o ListPart(c) \in Seq(Texts)
           /\ PendingFor(c) = OkPart(c) \o (AllPart(c) \o ListPart(c))
           /\ PendingFor(c) \in Seq(Texts)
<1>1. \A s \in Slots : clients[s].active => clients[s].who \in Clients
  BY DEF TableInv, Active
<1>2. job.sender \in Int /\ job.text \in Texts
  BY DEF Types, Jobs
<1>3. Text("ok", {}, job.sender) \in Texts /\ UserList(clients) \in Texts
  BY <1>1, <1>2, TextTypes, ListTypes
<1> HIDE DEF Texts
<1>4. OkPart(c) \in Seq(Texts)
  BY <1>3 DEF OkPart
<1>5. AllPart(c) \in Seq(Texts)
  BY <1>2 DEF AllPart
<1>6. ListPart(c) \in Seq(Texts)
  BY <1>3 DEF ListPart
<1>7. PendingFor(c) = (OkPart(c) \o AllPart(c)) \o ListPart(c)
  BY DEF PendingFor, OkPart, AllPart, ListPart
<1> QED
  BY <1>4, <1>5, <1>6, <1>7, ConcatProperties, ConcatAssociative

LEMMA PendingNone ==
    ASSUME Types, TableInv, NEW c \in Clients,
           OkPart(c) = <<>>, AllPart(c) = <<>>, ListPart(c) = <<>>
    PROVE  PendingFor(c) = <<>>
<1>1. <<>> \in Seq(Texts) /\ <<>> \o <<>> = <<>>
  BY EmptySeq, ConcatEmptySeq
<1> HIDE DEF Texts
<1> QED
  BY <1>1, PendingParts

\* The handler rests, or opens a queue: nothing is under way.
LEMMA PendingIdle ==
    ASSUME Types, TableInv, NEW c \in Clients, handler \in {"receive", "open", "off"}
    PROVE  PendingFor(c) = <<>>
<1>1. OkPart(c) = <<>> /\ AllPart(c) = <<>> /\ ListPart(c) = <<>>
  BY DEF OkPart, AllPart, ListPart
<1> QED
  BY <1>1, PendingNone

\* What the handler has just begun to pass on is what a member should hear of it.
LEMMA PendingBegun ==
    ASSUME TableInv, JobInv, NEW c \in Clients, c \in Members,
           handler \in {"ok", "all"}, at = 0
    PROVE  Hears(c, job.text, job.users, clients) = AllPart(c) \o ListPart(c)
<1>1. PICK s \in Active : clients[s].who = c
  BY DEF Members
<1>2. \A r \in Active : clients[r].who = c => r = s
  BY <1>1 DEF TableInv
<1>3. s >= 0
  BY <1>1, SlotFacts
<1>4. Ahead(c, "all", at) <=> job.text.of # {c}
  BY <1>1, <1>2, <1>3 DEF Ahead, Targets, JobInv
<1> QED
  BY <1>4 DEF Hears, AllPart, ListPart

\* What is sent moves from what is under way to the queue, what is taken from the
\* queue to what was heard.
LEMMA Moves ==
    ASSUME NEW h \in Seq(Texts), NEW q \in Seq(Texts), NEW x \in Texts, NEW r \in Seq(Texts)
    PROVE  /\ (h \o q) \o (<<x>> \o r) = (h \o Append(q, x)) \o r
           /\ (h \o (<<x>> \o q)) \o r = (Append(h, x) \o q) \o r
<1> HIDE DEF Texts
<1> DEFINE o == <<x>>
<1>1. o \in Seq(Texts)
  OBVIOUS
<1>2. Append(q, x) = q \o o /\ Append(h, x) = h \o o
  BY AppendIsConcat
<1> HIDE DEF o
<1>3. h \o q \in Seq(Texts)
  BY ConcatProperties
<1>4. (h \o q) \o (o \o r) = ((h \o q) \o o) \o r
  BY <1>1, <1>3, ConcatAssociative, SMTT(30)
<1>5. (h \o q) \o o = h \o (q \o o)
  BY <1>1, ConcatAssociative, SMTT(30)
<1>6. h \o (o \o q) = (h \o o) \o q
  BY <1>1, ConcatAssociative, SMTT(30)
<1>7. /\ (h \o q) \o (o \o r) = (h \o (q \o o)) \o r
      /\ (h \o (o \o q)) \o r = ((h \o o) \o q) \o r
  BY <1>4, <1>5, <1>6
<1> QED
  BY <1>2, <1>7 DEF o

\* The same facts about the state after a step.
PartsGood ==
    \A c \in Clients :
        /\ OkPart(c) \in Seq(Texts) /\ AllPart(c) \in Seq(Texts) /\ ListPart(c) \in Seq(Texts)
        /\ AllPart(c) \o ListPart(c) \in Seq(Texts)
        /\ PendingFor(c) = OkPart(c) \o (AllPart(c) \o ListPart(c))
        /\ PendingFor(c) \in Seq(Texts)
        /\ handler \in {"receive", "open", "off"} => PendingFor(c) = <<>>
        /\ c \in Members /\ handler \in {"ok", "all"} /\ at = 0 =>
             Hears(c, job.text, job.users, clients) = AllPart(c) \o ListPart(c)

LEMMA PartsAlways == (IInv => PartsGood) /\ (IInv' => PartsGood')
<1>1. IInv => PartsGood
  BY PendingParts, PendingIdle, PendingBegun DEF IInv, PartsGood
<1> QED
  BY <1>1, PTL

LEMMA PairConcat ==
    ASSUME NEW S, NEW x \in S, NEW y \in S
    PROVE  <<x>> \o <<y>> = <<x, y>>
<1> DEFINE p == <<x>>
           q == <<y>>
           r == p \o q
           s == <<x, y>>
<1>1. /\ p \in Seq(S) /\ q \in Seq(S) /\ Len(p) = 1 /\ Len(q) = 1 /\ p[1] = x /\ q[1] = y
      /\ s \in Seq(S) /\ Len(s) = 2 /\ s[1] = x /\ s[2] = y
  OBVIOUS
<1> HIDE DEF p, q, s
<1>2. /\ r \in Seq(S) /\ Len(r) = Len(p) + Len(q)
      /\ \A i \in 1 .. Len(p) + Len(q) : r[i] = IF i <= Len(p) THEN p[i] ELSE q[i - Len(p)]
  BY <1>1, ConcatProperties
<1> HIDE DEF r
<1>3. Len(r) = 2 /\ r[1] = x /\ r[2] = y
  BY <1>1, <1>2
<1>4. \A i \in 1 .. Len(r) : r[i] = s[i]
  BY <1>1, <1>3
<1>5. r = s
  BY <1>1, <1>2, <1>3, <1>4, SeqEqual
<1> QED
  BY <1>5 DEF r, p, q, s

Complete(c) == due[c] = heard[c] \o client_q[c] \o PendingFor(c)

\* The handler begins to pass something on: it is added at both ends.
LEMMA CompleteTaking ==
    ASSUME IInv, IInv', NEW c \in Clients, c \in Members', Complete(c), handler \in {"receive", "open"},
           UNCHANGED <<heard, client_q>>,
           handler' \in {"ok", "all"}, at' = 0,
           handler' = "ok" => job'.who # c,
           due'[c] = due[c] \o Hears(c, job'.text, job'.users, clients')
    PROVE  Complete(c)'
<1> DEFINE hq == heard[c] \o client_q[c]
           more == AllPart(c)' \o ListPart(c)'
<1>1. hq \in Seq(Texts)
  BY ConcatProperties DEF IInv, Types
<1>2. more \in Seq(Texts) /\ PendingFor(c)' = OkPart(c)' \o more
  BY PartsAlways DEF PartsGood
<1>3. OkPart(c)' = <<>>
  BY DEF OkPart
<1>4. Hears(c, job'.text, job'.users, clients') = more
  BY PartsAlways DEF PartsGood
<1>5. due[c] = hq \o <<>>
  BY PendingIdle DEF IInv, Complete
<1>6. due'[c] = hq \o more
  <2> HIDE DEF hq, more, Texts
  <2> QED
    BY <1>1, <1>4, <1>5, ConcatEmptySeq
<1>7. PendingFor(c)' = more
  <2> HIDE DEF hq, more, Texts
  <2> QED
    BY <1>2, <1>3, ConcatEmptySeq
<1> QED
  BY <1>6, <1>7 DEF Complete

\* The handler passes a text on to c.
LEMMA CompleteSending ==
    ASSUME IInv, IInv', NEW c \in Clients, NEW text \in Texts, NEW rest \in Seq(Texts),
           Complete(c), UNCHANGED <<heard, due>>,
           client_q' = [client_q EXCEPT ![c] = Append(@, text)],
           PendingFor(c) = <<text>> \o rest, PendingFor(c)' = rest
    PROVE  Complete(c)'
<1>1. client_q'[c] = Append(client_q[c], text)
  BY DEF IInv, Types
<1>2. heard[c] \in Seq(Texts) /\ client_q[c] \in Seq(Texts)
  BY DEF IInv, Types
<1>3. due[c] = (heard[c] \o client_q[c]) \o (<<text>> \o rest)
  BY DEF Complete
<1> HIDE DEF Texts
<1>4. due[c] = (heard[c] \o Append(client_q[c], text)) \o rest
  <2>1. PICK h \in Seq(Texts), q \in Seq(Texts) : h = heard[c] /\ q = client_q[c]
    BY <1>2
  <2>2. (h \o q) \o (<<text>> \o rest) = (h \o Append(q, text)) \o rest
    BY Moves, ZenonT(30)
  <2> QED
    BY <1>3, <2>1, <2>2
<1> QED
  BY <1>1, <1>4 DEF Complete

LEMMA CompleteSame ==
    ASSUME NEW c \in Clients, Complete(c), due'[c] = due[c], heard'[c] = heard[c],
           client_q'[c] = client_q[c], PendingFor(c)' = PendingFor(c)
    PROVE  Complete(c)'
  BY DEF Complete

LEMMA PendingSame ==
    ASSUME UNCHANGED <<clients, handler, job, at>>, NEW c
    PROVE  PendingFor(c)' = PendingFor(c)
  BY DEF PendingFor, Ahead, Targets, Active

\* A client that registers has heard nothing, and what it should hear is under way.

\* A slot whose number leads to its client and is in no other slot; the client has not
\* been told of the shutdown.
Sure(s) ==
    /\ LeadsHome(s) /\ ~Shared(s)
    /\ stopping = -1 \/ Down \notin ToSet(Got(clients[s].who))

MissedInv == \A s \in Opened : Sure(s) => Complete(clients[s].who)

LEMMA OpenedFacts ==
    /\ Opened \subseteq Active /\ Opened \subseteq Slots
    /\ \A s : Shared(s) <=> \E r \in Opened \ {s} : clients[r].queue = clients[s].queue
    /\ handler # "open" => Opened = Active
  BY DEF Opened, Shared, Active

\* Before Ctrl+C every open slot is sure, and a slot that still waits for its queue
\* owes its client nothing.
LEMMA MissedEnough ==
    ASSUME IInv, MissedInv, NEW s \in Active
    PROVE  InOrder(s) \/ Excused(s)
<1>1. PICK c \in Clients : c = clients[s].who
  BY DEF IInv, TableInv
<1>2. CASE s \in Opened
  <2>1. stopping = -1 => LeadsHome(s) /\ ~Shared(s)
    <3> SUFFICES ASSUME stopping = -1 PROVE LeadsHome(s) /\ ~Shared(s)
      OBVIOUS
    <3>1. \A r \in Opened : LeadsHome(r)
      BY DEF IInv, NumbersInv
    <3>2. ASSUME NEW r \in Opened, r # s, clients[r].queue = clients[s].queue PROVE FALSE
      <4>1. clients[r].who = clients[s].who
        BY <1>2, <3>1, <3>2 DEF LeadsHome
      <4> QED
        BY <3>2, <4>1, OpenedFacts DEF IInv, TableInv
    <3> QED
      BY <1>2, <3>1, <3>2, OpenedFacts
  <2>2. Sure(s) => due[c] = Got(c) \o PendingFor(c)
    BY <1>1, <1>2 DEF MissedInv, Complete, Got
  <2> QED
    BY <1>1, <2>1, <2>2 DEF Sure, InOrder, Excused
<1>3. CASE s \notin Opened
  <2>1. handler = "open" /\ s = job.slot /\ c = job.who
    BY <1>1, <1>3 DEF Opened, IInv, JobInv
  <2>2. heard[c] = <<>> /\ client_q[c] = <<>> /\ due[c] = <<>>
    BY <2>1 DEF IInv, FreshInv, Quiet
  <2>3. PendingFor(c) = <<>>
    BY <2>1, PendingIdle DEF IInv
  <2>4. <<>> \o <<>> = <<>> \o <<>> \o <<>>
    BY EmptySeq, ConcatEmptySeq
  <2>5. <<>> \o <<>> = <<>>
    BY EmptySeq, ConcatEmptySeq
  <2>6. Got(c) = <<>>
    BY <2>2, <2>5 DEF Got
  <2>7. due[c] = Got(c) \o PendingFor(c)
    BY <2>2, <2>3, <2>5, <2>6
  <2> QED
    BY <1>1, <2>7 DEF InOrder
<1> QED
  BY <1>2, <1>3

\* What has reached a client and one text more.
LEMMA GotAppend ==
    ASSUME NEW h \in Seq(Texts), NEW q \in Seq(Texts), NEW x \in Texts
    PROVE  ToSet(h \o Append(q, x)) = ToSet(h \o q) \cup {x}
<1> DEFINE o == <<x>>
           g == h \o q
<1> HIDE DEF Texts
<1>1. o \in Seq(Texts) /\ g \in Seq(Texts)
  BY ConcatProperties
<1>2. Append(q, x) = q \o o /\ Append(g, x) = g \o o
  BY <1>1, AppendIsConcat
<1> HIDE DEF o
<1>3. h \o (q \o o) = (h \o q) \o o
  BY <1>1, ConcatAssociative, SMTT(30)
<1>4. h \o Append(q, x) = Append(g, x)
  BY <1>2, <1>3
<1> HIDE DEF g
<1>5. /\ DOMAIN Append(g, x) = DOMAIN g \cup {Len(g) + 1}
      /\ \A m \in DOMAIN g : Append(g, x)[m] = g[m]
      /\ Append(g, x)[Len(g) + 1] = x
  BY <1>1, AppendFacts
<1>6. ToSet(Append(g, x)) = ToSet(g) \cup {x}
  BY <1>5 DEF ToSet
<1> QED
  BY <1>4, <1>6 DEF g

\* What a client takes has reached it before.
LEMMA GotReceive ==
    ASSUME Types, NEW d \in Clients, Receive(d), NEW c \in Clients
    PROVE  Got(c)' = Got(c)
<1>1. PICK text \in Texts :
             /\ client_q[d] # <<>> /\ text = Head(client_q[d])
             /\ client_q' = [client_q EXCEPT ![d] = Tail(@)]
             /\ heard' = [heard EXCEPT ![d] = Append(@, text)]
  BY ReceiveFacts
<1>2. client_q \in [Clients -> Seq(Texts)] /\ heard \in [Clients -> Seq(Texts)]
  BY DEF Types
<1>3. CASE c = d
  <2> HIDE DEF Texts
  <2>1. Tail(client_q[c]) \in Seq(Texts) /\ client_q[c] = <<text>> \o Tail(client_q[c])
    BY <1>1, <1>2, <1>3, TailFacts
  <2>2. PICK h \in Seq(Texts), q \in Seq(Texts) : h = heard[c] /\ q = Tail(client_q[c])
    BY <1>2, <2>1
  <2> DEFINE o == <<text>>
  <2>3. o \in Seq(Texts) /\ Append(h, text) = h \o o
    BY AppendIsConcat
  <2>4. client_q'[c] = q /\ heard'[c] = h \o o /\ client_q[c] = o \o q
    BY <1>1, <1>2, <1>3, <2>1, <2>2, <2>3
  <2> HIDE DEF o
  <2>5. h \o (o \o q) = (h \o o) \o q
    BY <2>3, ConcatAssociative, SMTT(30)
  <2> QED
    BY <2>2, <2>4, <2>5 DEF Got
<1>4. CASE c # d
  BY <1>1, <1>2, <1>4 DEF Got
<1> QED
  BY <1>3, <1>4

\* Texts reach clients one at a time.
LEMMA SentCases ==
    ASSUME IInv, [Next]_vars
    PROVE  \/ \E d \in Clients : Receive(d)
           \/ /\ heard' = heard
              /\ \/ client_q' = client_q
                 \/ \E e \in Clients : \E x \in Texts :
                      /\ client_q' = [client_q EXCEPT ![e] = Append(@, x)]
                      /\ SendOk \/ SendNext \/ SendDown
<1>1. "handler" \in Threads /\ "main" \in Threads
  BY DEF Threads
<1>2. Types /\ TableInv /\ JobInv
  BY DEF IInv
<1>3. CASE SendOk
  <2>1. PICK d : \E text \in Texts : Deliver("handler", d, text)
    BY <1>2, <1>3, SendOkFacts
  <2> QED
    BY <1>1, <1>2, <1>3, <2>1, DeliverFacts DEF SendOk, clientVars
<1>4. CASE SendNext
  <2>1. PICK slot, d : \E text \in Texts : Sends(slot, d, text)
    BY <1>2, <1>4, SendNextFacts
  <2> QED
    BY <1>1, <1>2, <1>4, <2>1, DeliverFacts DEF SendNext, clientVars, Sends
<1>5. CASE SendDown
  <2>1. PICK d : \E text \in Texts : Deliver("main", d, text)
    BY <1>2, <1>5, EndingFacts DEF Cleanup
  <2> QED
    BY <1>1, <1>2, <1>5, <2>1, DeliverFacts DEF SendDown, clientVars
<1>6. CASE ~(SendOk \/ SendNext \/ SendDown) /\ ~(\E d \in Clients : Receive(d))
  <2>1. CASE TakeSlot \/ HandleMsg \/ HandleQuit \/ OpenQueue \/ OpenFails \/ EndLoop
    BY <2>1 DEF TakeSlot, HandleMsg, HandleQuit, OpenQueue, OpenFails, EndLoop, clientVars
  <2>2. CASE Interrupt \/ Cleanup \/ HandlerEnds \/ LastCleanup
    BY <1>6, <2>2, EndingSame DEF clientVars
  <2>3. CASE \E d \in Clients : ClientStep(d)
    BY <1>2, <2>3, ClientStepFacts
  <2> QED
    BY <1>6, <2>1, <2>2, <2>3, StepCases, StutterSame
<1> QED
  BY <1>3, <1>4, <1>5, <1>6

LEMMA GotGrows ==
    ASSUME IInv, [Next]_vars, NEW c \in Clients
    PROVE  ToSet(Got(c)) \subseteq ToSet(Got(c)')
<1>1. CASE \E d \in Clients : Receive(d)
  BY <1>1, GotReceive DEF IInv
<1>2. CASE heard' = heard /\ client_q' = client_q
  BY <1>2 DEF Got
<1>3. ASSUME heard' = heard, NEW e \in Clients, NEW x \in Texts,
             client_q' = [client_q EXCEPT ![e] = Append(@, x)]
      PROVE  ToSet(Got(c)) \subseteq ToSet(Got(c)')
  <2>1. heard[c] \in Seq(Texts) /\ client_q[c] \in Seq(Texts)
    BY DEF IInv, Types
  <2>2. client_q'[c] = (IF e = c THEN Append(client_q[c], x) ELSE client_q[c])
    BY <1>3 DEF IInv, Types
  <2>3. CASE e = c
    <3>1. Got(c)' = heard[c] \o Append(client_q[c], x) /\ Got(c) = heard[c] \o client_q[c]
      BY <1>3, <2>2, <2>3 DEF Got
    <3> QED
      BY <2>1, <3>1, GotAppend
  <2>4. CASE e # c
    BY <1>3, <2>2, <2>4 DEF Got
  <2> QED
    BY <2>3, <2>4
<1> QED
  BY <1>1, <1>2, <1>3, SentCases

-----------------------------------------------------------------------------
(* A slot that is sure after a step was so before it.                        *)

LEMMA StillOpening ==
    ASSUME [Next]_vars, handler = "open", ~OpenQueue, ~OpenFails
    PROVE  handler' = "open" /\ job' = job
<1>1. ~(TakeSlot \/ HandleMsg \/ HandleQuit)
  BY DEF TakeSlot, HandleMsg, HandleQuit, Received
<1>2. ~(SendOk \/ SendNext \/ EndLoop)
  BY DEF SendOk, SendNext, EndLoop
<1>3. ~HandlerEnds
  BY DEF HandlerEnds
<1> QED
  BY <1>1, <1>2, <1>3, StepCases, EndingSame, ClientSame, StutterSame

LEMMA OpenedBefore ==
    ASSUME IInv, [Next]_vars, NEW s \in Opened', ~(OpenQueue /\ s = job.slot)
    PROVE  s \in Opened /\ clients'[s] = clients[s]
<1>1. s \in Active' /\ ~(handler' = "open" /\ s = job'.slot)
  BY DEF Opened
<1>2. CASE TakeSlot /\ Active # Slots
  <2>1. PICK c \in Clients, slot \in Slots \ Active : Takes(c, slot)
    BY <1>2, TakeFacts DEF IInv
  <2>2. handler = "receive"
    BY <1>2 DEF TakeSlot, Received
  <2> QED
    BY <1>1, <2>1, <2>2 DEF Takes, Opened
<1>3. CASE HandleQuit /\ FindById(Head(server_q).id) # {}
  <2>1. PICK slot \in Active, c \in Clients : Leaves(slot, c)
    BY <1>3, QuitFacts DEF IInv
  <2>2. handler = "receive"
    BY <1>3 DEF HandleQuit, Received
  <2> QED
    BY <1>1, <2>1, <2>2 DEF Leaves, Opened
<1>4. CASE OpenQueue
  <2>1. PICK c \in Clients, slot \in Active : Opens(c, slot)
    BY <1>4, OpensFacts DEF IInv
  <2> QED
    BY <1>1, <1>4, <2>1 DEF Opens, Opened
<1>5. CASE OpenFails
  <2>1. Active' = Active \ {job.slot} /\ \A r \in Active' : clients'[r] = clients[r]
    BY <1>5, FailsFacts DEF IInv
  <2> QED
    BY <1>1, <2>1 DEF Opened
<1>6. CASE UNCHANGED clients /\ ~OpenQueue /\ ~OpenFails
  <2>1. Active' = Active
    BY <1>6 DEF Active
  <2> QED
    BY <1>1, <1>6, <2>1, StillOpening DEF Opened
<1> QED
  BY <1>2, <1>3, <1>4, <1>5, <1>6, TableCases

\* A slot is given up with its number.
LEMMA OpenedAfter ==
    ASSUME IInv, [Next]_vars, NEW r \in Opened
    PROVE  \/ r \in Opened' /\ clients'[r] = clients[r]
           \/ clients[r].queue \notin DOMAIN numbers'
<1>1. r \in Active /\ ~(handler = "open" /\ r = job.slot)
  BY DEF Opened
<1>2. CASE TakeSlot /\ Active # Slots
  <2>1. PICK c \in Clients, slot \in Slots \ Active : Takes(c, slot)
    BY <1>2, TakeFacts DEF IInv
  <2>2. job'.slot = slot /\ r # slot /\ r \in Active' /\ clients'[r] = clients[r]
    BY <1>1, <2>1 DEF Takes
  <2> QED
    BY <2>2 DEF Opened
<1>3. CASE HandleQuit /\ FindById(Head(server_q).id) # {}
  <2>1. PICK slot \in Active, c \in Clients : Leaves(slot, c)
    BY <1>3, QuitFacts DEF IInv
  <2>2. /\ handler' = "all" /\ Active' = Active \ {slot}
        /\ \A s \in Active' : clients'[s] = clients[s]
        /\ Close(clients[slot].queue, "main")
    BY <2>1 DEF Leaves
  <2>3. DOMAIN numbers' = DOMAIN numbers \ {clients[slot].queue}
    BY <2>2 DEF Close
  <2> QED
    BY <1>1, <2>2, <2>3 DEF Opened
<1>4. CASE OpenQueue
  <2>1. PICK c \in Clients, slot \in Active : Opens(c, slot)
    BY <1>4, OpensFacts DEF IInv
  <2>2. handler = "open" /\ handler' = "ok"
    BY <1>4 DEF OpenQueue
  <2> QED
    BY <1>1, <2>1, <2>2 DEF Opens, Opened
<1>5. CASE OpenFails
  <2>1. /\ Active' = Active \ {job.slot} /\ \A s \in Active' : clients'[s] = clients[s] /\ Rest
    BY <1>5, FailsFacts DEF IInv
  <2>2. handler = "open" /\ handler' # "open"
    BY <1>5 DEF OpenFails, Rest
  <2> QED
    BY <1>1, <2>1, <2>2 DEF Opened
<1>6. CASE UNCHANGED clients /\ ~TakeSlot /\ ~OpenQueue
  <2>1. Active' = Active
    BY <1>6 DEF Active
  <2>2. ~(handler' = "open" /\ r = job'.slot)
    <3> SUFFICES ASSUME handler' = "open", r = job'.slot PROVE FALSE
      OBVIOUS
    <3>1. handler = "open" /\ job' = job
      <4>1. CASE HandleMsg \/ HandleQuit
        BY <4>1 DEF HandleMsg, HandleQuit, Begin, Rest
      <4>2. CASE OpenFails \/ SendOk \/ SendNext \/ EndLoop
        BY <4>2 DEF OpenFails, SendOk, SendNext, EndLoop, Rest
      <4>3. ~HandlerEnds
        BY DEF HandlerEnds
      <4> QED
        BY <1>6, <4>1, <4>2, <4>3, StepCases, EndingSame, ClientSame, StutterSame
    <3> QED
      BY <1>1, <3>1
  <2> QED
    BY <1>1, <1>6, <2>1, <2>2 DEF Opened
<1>7. CASE TakeSlot /\ Active = Slots
  <2>1. handler' # "open" /\ clients' = clients
    BY <1>7 DEF TakeSlot, Rest
  <2> QED
    BY <1>1, <2>1 DEF Opened, Active
<1> QED
  BY <1>2, <1>3, <1>4, <1>5, <1>6, <1>7, TableCases

LEMMA SureBefore ==
    ASSUME IInv, [Next]_vars, NEW s \in Opened', Sure(s)', ~(OpenQueue /\ s = job.slot)
    PROVE  s \in Opened /\ clients'[s] = clients[s] /\ Sure(s)
<1>1. s \in Opened /\ clients'[s] = clients[s]
  BY OpenedBefore
<1>2. PICK c \in Clients : c = clients[s].who
  BY <1>1, OpenedFacts DEF IInv, TableInv
<1>3. /\ clients[s].queue \in DOMAIN numbers' /\ numbers'[clients[s].queue] = c
      /\ ~Shared(s)'
      /\ stopping' = -1 \/ Down \notin ToSet(Got(c)')
  BY <1>1, <1>2 DEF Sure, LeadsHome, Got
<1>4. ~Shared(s)
  <2> SUFFICES ASSUME NEW r \in Opened, r # s, clients[r].queue = clients[s].queue PROVE FALSE
    BY OpenedFacts
  <2>1. r \in Opened' /\ clients'[r] = clients[r]
    BY <1>3, OpenedAfter
  <2>2. r \in Active' /\ ~(handler' = "open" /\ r = job'.slot)
    BY <2>1 DEF Opened
  <2> QED
    BY <1>1, <1>3, <2>1, <2>2 DEF Shared
<1>5. LeadsHome(s)
  <2>1. CASE OpenQueue
    <3>1. PICK d \in Clients, slot \in Active : Opens(d, slot)
      BY <2>1, OpensFacts DEF IInv
    <3>2. /\ DOMAIN numbers' = DOMAIN numbers \cup {LowestFree}
          /\ \A e \in DOMAIN numbers : numbers'[e] = numbers[e]
      BY <3>1, OpenFacts DEF IInv, Types, Opens
    <3>3. slot \in Active' /\ slot # s /\ clients'[slot].queue = LowestFree /\ handler' # "open"
      BY <2>1, <3>1 DEF Opens, OpenQueue
    <3>4. clients[s].queue # LowestFree
      BY <1>1, <1>3, <3>3 DEF Shared
    <3> QED
      BY <1>2, <1>3, <3>2, <3>4 DEF LeadsHome
  <2>2. CASE ~OpenQueue
    <3>1. /\ DOMAIN numbers' \subseteq DOMAIN numbers
          /\ \A e \in DOMAIN numbers' : numbers'[e] = numbers[e]
      <4>1. CASE HandleQuit /\ FindById(Head(server_q).id) # {}
        <5>1. PICK slot \in Active, d \in Clients : Leaves(slot, d)
          BY <4>1, QuitFacts DEF IInv
        <5> QED
          BY <5>1 DEF Leaves, Close
      <4>2. CASE \E d : Close(d, "handler")
        BY <4>2 DEF Close
      <4> QED
        BY <2>2, <4>1, <4>2, NumberCases DEF IInv
    <3> QED
      BY <1>2, <1>3, <3>1 DEF LeadsHome
  <2> QED
    BY <2>1, <2>2
<1>6. stopping = -1 \/ Down \notin ToSet(Got(c))
  <2>1. stopping' = -1 => stopping = -1
    <3>1. CASE Interrupt \/ Cleanup \/ HandlerEnds \/ LastCleanup
      BY <3>1, EndingFacts DEF IInv
    <3>2. CASE TakeSlot \/ HandleMsg \/ HandleQuit \/ OpenQueue \/ OpenFails
      BY <3>2 DEF TakeSlot, HandleMsg, HandleQuit, OpenQueue, OpenFails, cleanupVars
    <3>3. CASE SendOk \/ SendNext \/ EndLoop
      BY <3>3 DEF SendOk, SendNext, EndLoop, cleanupVars
    <3> QED
      BY <3>1, <3>2, <3>3, StepCases, ClientSame, StutterSame
  <2> QED
    BY <1>3, <2>1, GotGrows
<1> QED
  BY <1>1, <1>2, <1>4, <1>5, <1>6 DEF Sure

-----------------------------------------------------------------------------
(* What is due to the client of a sure slot, step by step.                   *)

\* A client whose queue is opened has heard nothing, and what it should hear is under way.
LEMMA CompleteNew ==
    ASSUME IInv, IInv', OpenQueue, NEW c \in Clients, NEW slot \in Active, Opens(c, slot)
    PROVE  Complete(c)'
<1>1. Quiet(c) /\ c = job.who /\ slot = job.slot
  BY DEF Opens, OpenQueue, IInv, FreshInv
<1>2. heard'[c] = <<>> /\ client_q'[c] = <<>>
  BY <1>1 DEF Quiet, OpenQueue, clientVars
<1>3. job' = job /\ job.users = TRUE /\ clients[slot].id = job.sender /\ handler' = "ok"
  BY <1>1 DEF OpenQueue, IInv, JobInv
<1>4. \A s \in Active' : clients'[s].who = c => clients'[s].id = job.sender
  <2>1. \A s \in Active : clients[s].who = c => s = slot
    BY <1>1 DEF IInv, TableInv, JobInv, OpenQueue
  <2> QED
    BY <1>3, <2>1 DEF Opens
<1>5. ~Ahead(c, "all", at)'
  BY <1>3, <1>4 DEF Ahead, Targets
<1>6. /\ OkPart(c)' = <<Text("ok", {}, job.sender)>> /\ AllPart(c)' = <<>>
      /\ ListPart(c)' = <<UserList(clients')>>
  BY <1>1, <1>3, <1>5 DEF OkPart, AllPart, ListPart
<1>7. /\ AllPart(c)' \o ListPart(c)' = <<UserList(clients')>>
      /\ PendingFor(c)' = OkPart(c)' \o (AllPart(c)' \o ListPart(c)')
      /\ PendingFor(c)' \in Seq(Texts)
  <2>1. /\ ListPart(c)' \in Seq(Texts) /\ PendingFor(c)' \in Seq(Texts)
        /\ PendingFor(c)' = OkPart(c)' \o (AllPart(c)' \o ListPart(c)')
    BY PartsAlways DEF PartsGood
  <2> HIDE DEF Texts
  <2>2. <<>> \o ListPart(c)' = ListPart(c)'
    BY <2>1, ConcatEmptySeq
  <2> QED
    BY <1>6, <2>1, <2>2
<1>8. PendingFor(c)' = <<Text("ok", {}, job.sender), UserList(clients')>>
  <2>1. PendingFor(c)' = <<Text("ok", {}, job.sender)>> \o <<UserList(clients')>>
    BY <1>6, <1>7
  <2>2. Text("ok", {}, job.sender) \in Texts /\ UserList(clients') \in Texts
    BY DEF Opens
  <2> HIDE DEF Texts
  <2> QED
    BY <2>1, <2>2, PairConcat
<1>9. due'[c] = PendingFor(c)'
  BY <1>8 DEF Opens
<1>10. (heard'[c] \o client_q'[c]) \o PendingFor(c)' = PendingFor(c)'
  <2> HIDE DEF Texts
  <2>1. <<>> \in Seq(Texts) /\ <<>> \o <<>> = <<>>
    BY EmptySeq, ConcatEmptySeq
  <2> QED
    BY <1>2, <1>7, <2>1, ConcatEmptySeq
<1> QED
  BY <1>9, <1>10 DEF Complete

\* What the steps below are about: an open slot that is sure, and its client.
Kept(s, c) ==
    /\ s \in Opened /\ s \in Opened' /\ clients'[s] = clients[s] /\ c = clients[s].who
    /\ Sure(s) /\ Complete(c)

LEMMA KeptFacts ==
    ASSUME NEW s, NEW c, Kept(s, c)
    PROVE  /\ s \in Active /\ s \in Active' /\ clients[s].who = c /\ clients'[s].who = c
           /\ c \in Members /\ c \in Members'
           /\ clients[s].queue \in DOMAIN numbers /\ numbers[clients[s].queue] = c
  BY DEF Kept, Opened, Members, Sure, LeadsHome

LEMMA MissedTaking ==
    ASSUME IInv, IInv', TakeSlot \/ HandleMsg \/ HandleQuit,
           NEW c \in Clients, NEW s \in Slots, Kept(s, c)
    PROVE  Complete(c)'
<1>1. handler = "receive" /\ UNCHANGED <<heard, client_q>>
  BY DEF TakeSlot, HandleMsg, HandleQuit, Received, clientVars
<1>2. c \in Members' /\ Complete(c)
  BY KeptFacts DEF Kept
<1>3. CASE TakeSlot /\ Active # Slots
  <2>1. handler' = "open" /\ due' = due
    BY <1>3, TakeFacts DEF TakeSlot, IInv, Takes
  <2>2. PendingFor(c)' = <<>> /\ PendingFor(c) = <<>>
    BY <1>1, <2>1, PartsAlways DEF PartsGood
  <2> QED
    BY <1>1, <1>2, <2>1, <2>2, CompleteSame
<1>4. CASE HandleMsg /\ FindById(Head(server_q).id) # {}
  <2>1. PICK slot \in Active, n \in Nat, d \in Clients : Speaks(slot, n, d)
    BY <1>4, MsgFacts DEF IInv
  <2>2. /\ job'.users = FALSE /\ job'.text = Text("say", {d}, n)
        /\ handler' = "all" /\ at' = 0 /\ clients' = clients
    BY <2>1 DEF Speaks
  <2>3. due'[c] = due[c] \o Hears(c, job'.text, job'.users, clients')
    <3>1. due' = Owed(job'.text, job'.users, clients')
      BY <2>1, <2>2 DEF Speaks
    <3>2. \E r \in Slots : clients'[r].active /\ clients'[r].who = c
      BY KeptFacts DEF Active
    <3> QED
      BY <3>1, <3>2 DEF Owed
  <2> QED
    BY <1>1, <1>2, <2>2, <2>3, CompleteTaking
<1>5. CASE HandleQuit /\ FindById(Head(server_q).id) # {}
  <2>1. PICK slot \in Active, d \in Clients : Leaves(slot, d)
    BY <1>5, QuitFacts DEF IInv
  <2>2. /\ job'.users = TRUE /\ job'.text = Text("leave", {d}, 0)
        /\ handler' = "all" /\ at' = 0
    BY <2>1 DEF Leaves
  <2>3. due'[c] = due[c] \o Hears(c, job'.text, job'.users, clients')
    <3>1. due' = Owed(job'.text, job'.users, clients')
      BY <2>1, <2>2 DEF Leaves
    <3>2. \E r \in Slots : clients'[r].active /\ clients'[r].who = c
      BY KeptFacts DEF Active
    <3> QED
      BY <3>1, <3>2 DEF Owed
  <2> QED
    BY <1>1, <1>2, <2>2, <2>3, CompleteTaking
<1>6. CASE Rest /\ UNCHANGED <<clients, next_id, numbers, held, due>>
  <2>1. handler' \in {"receive", "off"}
    BY <1>6 DEF Rest
  <2>2. PendingFor(c)' = <<>> /\ PendingFor(c) = <<>>
    BY <1>1, <2>1, PartsAlways DEF PartsGood
  <2> QED
    BY <1>1, <1>2, <1>6, <2>2, CompleteSame
<1> QED
  BY <1>3, <1>4, <1>5, <1>6, IgnoredFacts DEF IInv

LEMMA MissedOpening ==
    ASSUME IInv, IInv', OpenQueue \/ OpenFails, NEW c \in Clients, NEW s \in Slots, Kept(s, c),
           s # job.slot
    PROVE  Complete(c)'
<1>1. handler = "open" /\ UNCHANGED <<heard, client_q>>
  BY DEF OpenQueue, OpenFails, clientVars
<1>2. c \in Members' /\ Complete(c)
  BY KeptFacts DEF Kept
<1>3. CASE OpenQueue
  <2>1. PICK d \in Clients, slot \in Active : Opens(d, slot)
    BY <1>3, OpensFacts DEF IInv
  <2>2. c # d
    BY <1>1, <2>1, KeptFacts DEF Opens, IInv, TableInv, JobInv
  <2>3. handler' = "ok" /\ at' = 0 /\ job' = job /\ job.users = TRUE /\ job.who = d
    BY <1>1, <1>3, <2>1 DEF OpenQueue, Opens, IInv, JobInv
  <2>4. due'[c] = due[c] \o Hears(c, job'.text, job'.users, clients')
    <3>1. due'[c] = Owed(job.text, TRUE, clients')[c]
      BY <2>1, <2>2 DEF Opens
    <3>2. \E r \in Slots : clients'[r].active /\ clients'[r].who = c
      BY KeptFacts DEF Active
    <3> QED
      BY <2>3, <3>1, <3>2 DEF Owed
  <2> QED
    BY <1>1, <1>2, <2>2, <2>3, <2>4, CompleteTaking
<1>4. CASE OpenFails
  <2>1. handler' \in {"receive", "off"} /\ due' = due
    BY <1>4 DEF OpenFails, Rest
  <2>2. PendingFor(c)' = <<>> /\ PendingFor(c) = <<>>
    BY <1>1, <2>1, PartsAlways DEF PartsGood
  <2> QED
    BY <1>1, <1>2, <2>1, <2>2, CompleteSame
<1> QED
  BY <1>3, <1>4

LEMMA MissedSendOk ==
    ASSUME IInv, IInv', SendOk, NEW c \in Clients, NEW s \in Slots, Kept(s, c)
    PROVE  Complete(c)'
<1>1. handler = "ok" /\ handler' = "all" /\ UNCHANGED <<clients, job, at, heard, due>>
  BY DEF SendOk, clientVars
<1>2. c \in Members /\ Complete(c)
  BY KeptFacts DEF Kept
<1>3. PICK d \in Clients, ok \in Texts :
             /\ d = job.who /\ d = clients[job.slot].who /\ ok = Text("ok", {}, job.sender)
             /\ client_q' = client_q \/ client_q' = [client_q EXCEPT ![d] = Append(@, ok)]
             /\ LeadsHome(job.slot) => client_q' = [client_q EXCEPT ![d] = Append(@, ok)]
  BY OkReaches DEF IInv
<1>4. AllPart(c)' = AllPart(c) /\ ListPart(c)' = ListPart(c) /\ OkPart(c)' = <<>>
  BY <1>1 DEF AllPart, ListPart, OkPart, Ahead, Targets, Active
<1> DEFINE rest == AllPart(c) \o ListPart(c)
<1>5. /\ rest \in Seq(Texts) /\ PendingFor(c) = OkPart(c) \o rest
      /\ PendingFor(c)' = OkPart(c)' \o (AllPart(c)' \o ListPart(c)')
  BY PartsAlways DEF PartsGood
<1>6. PendingFor(c)' = rest
  <2>1. PendingFor(c)' = <<>> \o rest
    BY <1>4, <1>5
  <2> HIDE DEF rest, Texts
  <2> QED
    BY <1>5, <2>1, ConcatEmptySeq
<1>7. CASE c = d
  <2>1. OkPart(c) = <<ok>>
    BY <1>1, <1>3, <1>7 DEF OkPart
  <2>2. PendingFor(c) = <<ok>> \o rest
    BY <1>5, <2>1
  <2>3. s = job.slot /\ LeadsHome(s)
    <3>1. s \in Active /\ clients[s].who = c /\ LeadsHome(s)
      BY KeptFacts DEF Kept, Sure
    <3>2. job.slot \in Active /\ clients[job.slot].who = c
      BY <1>1, <1>3, <1>7 DEF IInv, JobInv
    <3> QED
      BY <3>1, <3>2 DEF IInv, TableInv
  <2>4. client_q' = [client_q EXCEPT ![c] = Append(@, ok)]
    BY <1>3, <1>7, <2>3
  <2> HIDE DEF rest
  <2> QED
    BY <1>1, <1>2, <1>5, <1>6, <2>2, <2>4, CompleteSending
<1>8. CASE c # d
  <2>1. OkPart(c) = <<>>
    BY <1>3, <1>8 DEF OkPart
  <2>2. PendingFor(c)' = PendingFor(c)
    <3> HIDE DEF rest, Texts
    <3> QED
      BY <1>5, <1>6, <2>1, ConcatEmptySeq
  <2>3. client_q'[c] = client_q[c]
    BY <1>3, <1>8 DEF IInv, Types
  <2> QED
    BY <1>1, <1>2, <2>2, <2>3, CompleteSame
<1> QED
  BY <1>7, <1>8

\* A loop's send through a sure slot reaches its client, and through another slot it
\* does not.
LEMMA NextReaches ==
    ASSUME IInv, NEW c \in Clients, NEW s \in Opened, Sure(s), c = clients[s].who,
           NEW slot \in Targets(handler, at), NEW d \in Clients, NEW text \in Texts,
           Sends(slot, d, text), handler \in {"all", "list"}
    PROVE  IF c = d THEN client_q' = [client_q EXCEPT ![c] = Append(@, text)]
                    ELSE client_q'[c] = client_q[c]
<1>1. /\ clients[s].queue \in DOMAIN numbers /\ numbers[clients[s].queue] = c /\ ~Shared(s)
      /\ c # Nobody
  BY NobodyAssumption DEF Sure, LeadsHome
<1>2. /\ slot \in Active /\ slot = Min(Targets(handler, at)) /\ d = clients[slot].who
      /\ Deliver("handler", clients[slot].queue, text) /\ "handler" \in Threads
  BY DEF Sends, Targets, Threads
<1> DEFINE n == clients[slot].queue
           r == Reaches("handler", n)
<1>3. \/ r = Nobody /\ client_q' = client_q
      \/ /\ r \in Clients /\ client_q' = [client_q EXCEPT ![r] = Append(@, text)]
         /\ r = held["handler"] \/ (held["handler"] = Nobody /\ n \in DOMAIN numbers /\ r = numbers[n])
  BY <1>2, DeliverFacts DEF IInv
<1>4. CASE c = d
  <2>1. slot = s
    BY <1>2, <1>4, OpenedFacts DEF IInv, TableInv
  <2>2. s \in SendsTo("handler")
    BY <1>2, <2>1 DEF SendsTo
  <2>3. held["handler"] = Nobody
    BY <1>1, <2>2 DEF IInv, NumbersInv
  <2>4. r = c
    BY <1>1, <2>1, <2>3 DEF Reaches
  <2> HIDE DEF r
  <2>5. client_q' = [client_q EXCEPT ![c] = Append(@, text)]
    BY <1>1, <1>3, <2>4
  <2> QED
    BY <1>4, <2>5
<1>5. CASE c # d
  <2>1. slot # s
    BY <1>2, <1>5
  <2>2. held["handler"] # c
    BY <1>1, <1>2 DEF IInv, NumbersInv
  <2>3. n \in DOMAIN numbers => numbers[n] # c
    <3> SUFFICES ASSUME n \in DOMAIN numbers, numbers[n] = c PROVE FALSE
      OBVIOUS
    <3>1. n = clients[s].queue
      BY <1>1 DEF IInv, NumbersInv
    <3> QED
      BY <1>1, <1>2, <2>1, <3>1 DEF Shared
  <2>4. r # c
    BY <1>1, <1>3, <2>2, <2>3
  <2> HIDE DEF r, n
  <2>5. client_q'[c] = client_q[c]
    BY <1>3, <2>4 DEF IInv, Types
  <2> QED
    BY <1>5, <2>5
<1> QED
  BY <1>4, <1>5

LEMMA MissedSendNext ==
    ASSUME IInv, IInv', SendNext, NEW c \in Clients, NEW s \in Slots, Kept(s, c)
    PROVE  Complete(c)'
<1>1. /\ handler \in {"all", "list"} /\ UNCHANGED <<clients, handler, job, heard, due>>
  BY DEF SendNext, clientVars
<1>2. c \in Members /\ Complete(c)
  BY KeptFacts DEF Kept
<1>3. PICK slot \in Targets(handler, at), d \in Clients, text \in Texts : Sends(slot, d, text)
  BY SendNextFacts DEF IInv
<1>11. IF c = d THEN client_q' = [client_q EXCEPT ![c] = Append(@, text)]
                ELSE client_q'[c] = client_q[c]
  BY <1>1, <1>3, NextReaches DEF Kept, IInv
<1>4. /\ slot \in Active /\ slot \in Nat /\ clients[slot].who = d /\ at' = slot + 1
      /\ text = (IF handler = "all" THEN job.text ELSE UserList(clients))
  BY <1>3, SlotFacts DEF Sends, Targets
<1>5. \A r \in Active : clients[r].who = d => r = slot
  BY <1>4 DEF IInv, TableInv
<1>6. OkPart(c) = <<>> /\ OkPart(c)' = <<>>
  BY <1>1 DEF OkPart
<1>7. /\ AllPart(c) \o ListPart(c) \in Seq(Texts) /\ ListPart(c) \in Seq(Texts)
      /\ PendingFor(c) = OkPart(c) \o (AllPart(c) \o ListPart(c))
      /\ AllPart(c)' \o ListPart(c)' \in Seq(Texts)
      /\ PendingFor(c)' = OkPart(c)' \o (AllPart(c)' \o ListPart(c)')
  BY PartsAlways DEF PartsGood
<1>8. /\ PendingFor(c) = AllPart(c) \o ListPart(c)
      /\ PendingFor(c)' = AllPart(c)' \o ListPart(c)'
  <2> HIDE DEF Texts
  <2> QED
    BY <1>6, <1>7, ConcatEmptySeq
<1>9. CASE c = d
  <2>1. Ahead(c, handler, at)
    BY <1>3, <1>4, <1>9 DEF Ahead
  <2>2. ~Ahead(c, handler, at)'
    <3> SUFFICES ASSUME NEW r \in Targets(handler, at)', clients'[r].who = c PROVE FALSE
      BY DEF Ahead
    <3>1. r \in Active /\ clients[r].who = d /\ r >= slot + 1
      BY <1>1, <1>4, <1>9 DEF Targets, Active
    <3>2. r = slot
      BY <1>5, <3>1
    <3> QED
      BY <1>4, <3>1, <3>2
  <2>3. CASE handler = "all"
    <3>1. /\ AllPart(c) = <<text>> /\ AllPart(c)' = <<>> /\ ListPart(c)' = ListPart(c)
      BY <1>1, <1>4, <2>1, <2>2, <2>3 DEF AllPart, ListPart
    <3>2. PendingFor(c) = <<text>> \o ListPart(c)
      BY <1>8, <3>1
    <3>3. PendingFor(c)' = ListPart(c)
      <4> HIDE DEF Texts
      <4> QED
        BY <1>7, <1>8, <3>1, ConcatEmptySeq
    <3> QED
      BY <1>1, <1>2, <1>7, <1>9, <1>11, <3>2, <3>3, CompleteSending
  <2>4. CASE handler = "list"
    <3>1. /\ AllPart(c) = <<>> /\ ListPart(c) = <<text>>
          /\ AllPart(c)' = <<>> /\ ListPart(c)' = <<>>
      BY <1>1, <1>4, <2>1, <2>2, <2>4 DEF AllPart, ListPart
    <3>2. <<>> \in Seq(Texts) /\ PendingFor(c) = <<text>> \o <<>> /\ PendingFor(c)' = <<>>
      <4>1. <<text>> \in Seq(Texts) /\ <<>> \in Seq(Texts)
        BY <1>7, <3>1
      <4>2. <<>> \o <<text>> = <<text>> \o <<>> /\ <<>> \o <<>> = <<>>
        <5> HIDE DEF Texts
        <5> QED
          BY <4>1, ConcatEmptySeq
      <4> QED
        BY <1>8, <3>1, <4>1, <4>2
    <3> QED
      BY <1>1, <1>2, <1>9, <1>11, <3>2, CompleteSending
  <2> QED
    BY <1>1, <2>3, <2>4
<1>10. CASE c # d
  <2>1. client_q'[c] = client_q[c]
    BY <1>10, <1>11
  <2>2. Ahead(c, handler, at)' <=> Ahead(c, handler, at)
    <3>1. ASSUME NEW r \in Slots, r >= slot + 1 PROVE r >= at
      <4>1. r \in Nat /\ at \in Nat /\ slot >= at
        BY <1>3, SlotFacts DEF Targets, IInv, Types
      <4> QED
        BY <1>4, <3>1, <4>1
    <3>2. ASSUME Ahead(c, handler, at) PROVE Ahead(c, handler, at)'
      <4>1. PICK r \in Targets(handler, at) : clients[r].who = c
        BY <3>2 DEF Ahead
      <4>2. r \in Slots /\ r >= at
        BY <4>1, SlotFacts DEF Targets
      <4>3. r >= slot + 1
        <5>1. slot <= r /\ r # slot /\ r \in Nat
          BY <1>3, <1>4, <1>10, <4>1, <4>2, SlotFacts DEF Sends
        <5> QED
          BY <1>4, <5>1
      <4>4. r \in Targets(handler, at)'
        BY <1>1, <1>4, <4>1, <4>3 DEF Targets, Active
      <4> QED
        BY <1>1, <4>1, <4>4 DEF Ahead
    <3>3. ASSUME Ahead(c, handler, at)' PROVE Ahead(c, handler, at)
      <4>1. PICK r \in Targets(handler, at)' : clients'[r].who = c
        BY <3>3 DEF Ahead
      <4>2. r \in Slots /\ r >= slot + 1
        BY <1>4, <4>1 DEF Targets, Active
      <4>3. r >= at
        BY <3>1, <4>2
      <4>4. r \in Targets(handler, at)
        BY <1>1, <4>1, <4>3 DEF Targets, Active
      <4> QED
        BY <1>1, <4>1, <4>4 DEF Ahead
    <3> QED
      BY <3>2, <3>3
  <2>3. AllPart(c)' = AllPart(c) /\ ListPart(c)' = ListPart(c)
    BY <1>1, <2>2 DEF AllPart, ListPart
  <2>4. PendingFor(c)' = PendingFor(c)
    BY <1>8, <2>3
  <2> QED
    BY <1>1, <1>2, <2>1, <2>4, CompleteSame
<1> QED
  BY <1>9, <1>10

LEMMA MissedEndLoop ==
    ASSUME IInv, IInv', EndLoop, NEW c \in Clients, NEW s \in Slots, Kept(s, c)
    PROVE  Complete(c)'
<1>1. /\ handler \in {"all", "list"} /\ Targets(handler, at) = {}
      /\ UNCHANGED <<clients, heard, client_q, due>>
  BY DEF EndLoop, clientVars
<1>2. c \in Members /\ Complete(c)
  BY KeptFacts DEF Kept
<1>3. OkPart(c) = <<>> /\ AllPart(c) = <<>> /\ (handler = "list" => ListPart(c) = <<>>)
  BY <1>1 DEF OkPart, AllPart, ListPart, Ahead
<1>4. PendingFor(c)' = PendingFor(c)
  <2>1. CASE handler = "all" /\ job.users
    <3>1. handler' = "list" /\ at' = 0 /\ job' = job
      BY <2>1 DEF EndLoop
    <3>2. PICK r \in Active : clients[r].who = c
      BY <1>2 DEF Members
    <3>3. r >= 0 /\ r \in Targets("list", 0)'
      BY <1>1, <3>2, SlotFacts DEF Targets, Active
    <3>4. Ahead(c, "list", at)'
      BY <1>1, <3>1, <3>2, <3>3 DEF Ahead
    <3>5. /\ ListPart(c) = <<UserList(clients)>> /\ ListPart(c)' = ListPart(c)
          /\ OkPart(c)' = <<>> /\ AllPart(c)' = <<>>
      BY <1>1, <2>1, <3>1, <3>4 DEF ListPart, OkPart, AllPart
    <3> QED
      BY <1>3, <3>5, PartsAlways DEF PartsGood
  <2>2. CASE ~(handler = "all" /\ job.users)
    <3>1. handler' \in {"receive", "off"}
      BY <2>2, RestTypes DEF EndLoop
    <3>2. ListPart(c) = <<>>
      BY <1>1, <1>3, <2>2 DEF ListPart
    <3> QED
      BY <1>3, <3>1, <3>2, PendingNone, PartsAlways DEF PartsGood, IInv
  <2> QED
    BY <2>1, <2>2
<1> QED
  BY <1>1, <1>2, <1>4, CompleteSame

LEMMA MissedReceive ==
    ASSUME IInv, IInv', NEW d \in Clients, Receive(d), NEW c \in Clients, NEW s \in Slots,
           Kept(s, c)
    PROVE  Complete(c)'
<1>1. UNCHANGED <<clients, handler, job, at, due>>
  BY ClientSame
<1>2. c \in Members /\ Complete(c)
  BY KeptFacts DEF Kept
<1>3. PendingFor(c)' = PendingFor(c)
  BY <1>1, PendingSame
<1>4. Got(c)' = Got(c)
  BY GotReceive DEF IInv
<1> QED
  BY <1>1, <1>2, <1>3, <1>4 DEF Complete, Got

\* Cleanup's text for c ends its being sure.
LEMMA MissedEnding ==
    ASSUME IInv, IInv', Interrupt \/ Cleanup \/ HandlerEnds \/ LastCleanup, NEW c \in Clients,
           NEW s \in Slots, Kept(s, c), Sure(s)'
    PROVE  Complete(c)'
<1>1. UNCHANGED <<clients, job, at, due, heard>>
  BY EndingSame DEF clientVars
<1>2. Complete(c)
  BY DEF Kept
<1>3. PendingFor(c)' = PendingFor(c)
  <2>1. CASE handler' = handler
    BY <1>1, <2>1, PendingSame
  <2>2. CASE HandlerEnds
    BY <2>2, PartsAlways DEF HandlerEnds, PartsGood
  <2> QED
    BY <2>1, <2>2, EndingSame
<1>4. client_q'[c] = client_q[c]
  <2>1. CASE SendDown
    <3>1. PICK d : \E text \in Texts : text = Down /\ Deliver("main", d, text)
      BY <2>1, EndingFacts DEF IInv
    <3>2. PICK text \in Texts : text = Down /\ Deliver("main", d, text)
      BY <3>1
    <3>3. "main" \in Threads /\ stopping' # -1
      <4>1. \A r \in Slots : r # -1
        BY SlotFacts
      <4> QED
        BY <2>1, <4>1 DEF Threads, SendDown
    <3>4. \/ client_q' = client_q
          \/ \E e \in Clients : client_q' = [client_q EXCEPT ![e] = Append(@, text)]
      BY <3>2, <3>3, DeliverFacts DEF IInv
    <3>5. ASSUME client_q' = [client_q EXCEPT ![c] = Append(@, text)] PROVE FALSE
      <4>1. heard[c] \in Seq(Texts) /\ client_q[c] \in Seq(Texts)
        BY DEF IInv, Types
      <4>2. client_q'[c] = Append(client_q[c], text)
        BY <3>5 DEF IInv, Types
      <4>3. Got(c)' = heard[c] \o Append(client_q[c], text)
        BY <1>1, <4>2 DEF Got
      <4>4. Down \in ToSet(Got(c)')
        BY <3>2, <4>1, <4>3, GotAppend
      <4>5. Down \notin ToSet(Got(c)')
        <5>1. clients'[s].who = c
          BY KeptFacts
        <5>2. \/ stopping' = -1
              \/ Down \notin ToSet(heard'[clients'[s].who] \o client_q'[clients'[s].who])
          BY DEF Sure, Got
        <5> QED
          BY <3>3, <5>1, <5>2 DEF Got
      <4> QED
        BY <4>4, <4>5
    <3> QED
      BY <3>4, <3>5 DEF IInv, Types
  <2>2. CASE ~SendDown
    BY <2>2, EndingSame
  <2> QED
    BY <2>1, <2>2
<1> QED
  BY <1>1, <1>2, <1>3, <1>4, CompleteSame

LEMMA MissedStep == IInv /\ IInv' /\ MissedInv /\ [Next]_vars => MissedInv'
<1> SUFFICES ASSUME IInv, IInv', MissedInv, [Next]_vars, NEW s \in Opened', Sure(s)'
             PROVE  Complete(clients[s].who)'
  BY DEF MissedInv
<1>1. CASE OpenQueue /\ s = job.slot
  <2>1. PICK c \in Clients, slot \in Active : Opens(c, slot)
    BY <1>1, OpensFacts DEF IInv
  <2>2. Complete(c)' /\ clients'[s].who = c
    BY <1>1, <2>1, CompleteNew DEF Opens
  <2> QED
    BY <2>2 DEF Complete, PendingFor, Ahead
<1>2. CASE ~(OpenQueue /\ s = job.slot)
  <2>1. s \in Opened /\ clients'[s] = clients[s] /\ Sure(s)
    BY <1>2, SureBefore
  <2>2. PICK c \in Clients : c = clients[s].who
    BY <2>1, OpenedFacts DEF IInv, TableInv
  <2>3. Kept(s, c) /\ s \in Slots
    BY <2>1, <2>2, OpenedFacts DEF Kept, MissedInv
  <2>4. OpenFails => s # job.slot
    BY <2>1 DEF OpenFails, Opened
  <2>5. Complete(c)'
    <3>1. CASE TakeSlot \/ HandleMsg \/ HandleQuit
      BY <2>3, <3>1, MissedTaking
    <3>2. CASE OpenQueue \/ OpenFails
      BY <1>2, <2>3, <2>4, <3>2, MissedOpening
    <3>3. CASE SendOk \/ SendNext \/ EndLoop
      BY <2>3, <3>3, MissedSendOk, MissedSendNext, MissedEndLoop
    <3>4. CASE Interrupt \/ Cleanup \/ HandlerEnds \/ LastCleanup
      BY <2>3, <3>4, MissedEnding
    <3>5. CASE \E d \in Clients : Receive(d)
      BY <2>3, <3>5, MissedReceive
    <3>7. CASE (\E d \in Clients : ClientStep(d)) \/ UNCHANGED vars
      <4>1. UNCHANGED <<clients, handler, job, at, due, heard, client_q>>
        BY <3>7, ClientStepFacts, StutterSame DEF IInv
      <4>2. PendingFor(c)' = PendingFor(c)
        BY <4>1, PendingSame
      <4> QED
        BY <2>1, <2>2, <2>3, <4>1, <4>2, CompleteSame DEF Kept
    <3>6. \/ TakeSlot \/ HandleMsg \/ HandleQuit
          \/ OpenQueue \/ OpenFails
          \/ SendOk \/ SendNext \/ EndLoop
          \/ Interrupt \/ Cleanup \/ HandlerEnds \/ LastCleanup
          \/ (\E d \in Clients : ClientStep(d)) \/ UNCHANGED vars
          \/ \E d \in Clients : Receive(d)
      BY StepCases
    <3> QED
      BY <3>1, <3>2, <3>3, <3>4, <3>5, <3>6, <3>7
  <2> QED
    BY <2>1, <2>2, <2>5
<1> QED
  BY <1>1, <1>2

-----------------------------------------------------------------------------
(* Nobody gets what is another's.                                           *)

Sending == handler \in {"ok", "all", "list"}

\* A number that is open leads to the client of a slot that holds it, and the handler
\* sends to nobody but members.
ReachedInv ==
    /\ \A d \in DOMAIN numbers : numbers[d] # Nobody =>
         \E s \in Active : clients[s].who = numbers[d] /\ clients[s].queue = d
    /\ held["handler"] # Nobody => Sending /\ held["handler"] \in Members

\* What the handler says of whom.
KindInv ==
    /\ handler \in {"open", "ok"} => job.text = Text("join", {job.who}, 0)
    /\ job.text.kind = "join" => job.text.n = 0
    /\ handler = "list" => job.users = TRUE

\* What it sends is due to every member but the one it is about.
DueInv ==
    /\ handler = "ok" => Text("ok", {}, job.sender) \in ToSet(due[job.who])
    /\ Sending => \A c \in Members :
         /\ job.text.of = {c} \/ job.text \in ToSet(due[c])
         /\ job.users = TRUE => UserList(clients) \in ToSet(due[c])

\* Only a registration makes two slots share a number: with other texts the numbers
\* lead home or nowhere.
OwnInv ==
    handler = "all" /\ job.text.kind # "join" =>
      /\ \A s \in Active : clients[s].queue \in DOMAIN numbers => LeadsHome(s)
      /\ held["handler"] # Nobody =>
           \A s \in SendsTo("handler") : clients[s].who = held["handler"]

LEMMA ConcatSet ==
    ASSUME NEW p \in Seq(Texts), NEW q \in Seq(Texts)
    PROVE  ToSet(p \o q) = ToSet(p) \cup ToSet(q)
<1> HIDE DEF Texts
<1>1. Range(p \o q) = Range(p) \cup Range(q)
  BY RangeConcatenation
<1> QED
  BY <1>1 DEF Range, ToSet

LEMMA OneSet ==
    ASSUME NEW x \in Texts
    PROVE  ToSet(<<x>>) = {x} /\ <<x>> \in Seq(Texts)
  BY DEF ToSet

\* Owed adds to what is due, and adds the text and the list for whom they are.
LEMMA OwedHas ==
    ASSUME NEW t, \A s \in Slots : t[s].active => t[s].who \in Clients,
           NEW text \in Texts, NEW users \in BOOLEAN, due \in [Clients -> Seq(Texts)],
           NEW c \in Clients
    PROVE  /\ ToSet(due[c]) \subseteq ToSet(Owed(text, users, t)[c])
           /\ (\E s \in Slots : t[s].active /\ t[s].who = c) =>
                /\ text.of = {c} \/ text \in ToSet(Owed(text, users, t)[c])
                /\ users = TRUE => UserList(t) \in ToSet(Owed(text, users, t)[c])
<1> DEFINE u == UserList(t)
           a == IF text.of = {c} THEN <<>> ELSE <<text>>
           b == IF users = TRUE THEN <<u>> ELSE <<>>
           h == a \o b
<1>1. u \in Texts
  BY ListTypes
<1>2. h = Hears(c, text, users, t)
  BY DEF Hears
<1> HIDE DEF u, Texts
<1>3. /\ <<text>> \in Seq(Texts) /\ <<u>> \in Seq(Texts)
      /\ ToSet(<<text>>) = {text} /\ ToSet(<<u>>) = {u}
  BY <1>1, OneSet
<1>4. a \in Seq(Texts) /\ b \in Seq(Texts)
  BY <1>3
<1>5. (text.of = {c} \/ text \in ToSet(a)) /\ (users = TRUE => u \in ToSet(b))
  BY <1>3
<1> HIDE DEF a, b
<1>6. h \in Seq(Texts) /\ ToSet(h) = ToSet(a) \cup ToSet(b)
  BY <1>4, ConcatSet, ConcatProperties
<1>7. due[c] \in Seq(Texts)
  OBVIOUS
<1> HIDE DEF h
<1>8. ToSet(due[c] \o h) = ToSet(due[c]) \cup ToSet(h)
  BY <1>6, <1>7, ConcatSet
<1>9. Owed(text, users, t)[c] = IF \E s \in Slots : t[s].active /\ t[s].who = c
                                THEN due[c] \o h ELSE due[c]
  BY <1>2 DEF Owed
<1> QED
  BY <1>5, <1>6, <1>8, <1>9 DEF u

\* A number leads where it led before the step, or to the newcomer's slot.
LEMMA ReachedNumbers ==
    ASSUME IInv, ReachedInv, [Next]_vars, NEW d \in DOMAIN numbers', numbers'[d] # Nobody
    PROVE  \E s \in Active' : clients'[s].who = numbers'[d] /\ clients'[s].queue = d
<1>1. Types /\ TableInv /\ JobInv /\ NumberTypes
  BY DEF IInv, Types
<1>2. ASSUME handler = "open", NEW s \in Active, NEW e \in DOMAIN numbers, clients[s].who = numbers[e]
      PROVE  s # job.slot
  BY <1>2 DEF IInv, FreshInv, Quiet, JobInv
<1>3. ASSUME d \in DOMAIN numbers, numbers'[d] = numbers[d],
             \A s \in Active : clients[s].who = numbers[d] /\ clients[s].queue = d
                                 => s \in Active' /\ clients'[s] = clients[s]
      PROVE  \E s \in Active' : clients'[s].who = numbers'[d] /\ clients'[s].queue = d
  <2>1. PICK s \in Active : clients[s].who = numbers[d] /\ clients[s].queue = d
    BY <1>3 DEF ReachedInv
  <2> QED
    BY <1>3, <2>1
<1>4. CASE OpenQueue
  <2>1. PICK c \in Clients, slot \in Active : Opens(c, slot)
    BY <1>1, <1>4, OpensFacts
  <2>2. /\ DOMAIN numbers' = DOMAIN numbers \cup {LowestFree} /\ numbers'[LowestFree] = c
        /\ \A e \in DOMAIN numbers : numbers'[e] = numbers[e]
    BY <1>1, <2>1, OpenFacts DEF Opens
  <2>3. CASE d \in DOMAIN numbers
    <3>1. \A s \in Active : clients[s].who = numbers[d] => s # slot
      BY <1>2, <1>4, <2>1, <2>3 DEF Opens, OpenQueue
    <3> QED
      BY <1>3, <2>1, <2>2, <2>3, <3>1 DEF Opens
  <2>4. CASE d = LowestFree
    BY <2>1, <2>2, <2>4 DEF Opens
  <2> QED
    BY <2>2, <2>3, <2>4
<1>5. CASE OpenFails
  <2>1. numbers' = numbers /\ handler = "open"
    BY <1>5 DEF OpenFails
  <2>2. \A s \in Active : clients[s].who = numbers[d] => s # job.slot
    BY <1>2, <2>1
  <2> QED
    BY <1>1, <1>3, <1>5, <2>1, <2>2, FailsFacts
<1>6. CASE TakeSlot /\ Active # Slots
  <2>1. PICK c \in Clients, slot \in Slots \ Active : Takes(c, slot)
    BY <1>1, <1>6, TakeFacts
  <2>2. numbers' = numbers
    BY <1>6 DEF TakeSlot
  <2> QED
    BY <1>3, <2>1, <2>2 DEF Takes
<1>7. CASE HandleQuit /\ FindById(Head(server_q).id) # {}
  <2>1. PICK slot \in Active, c \in Clients : Leaves(slot, c)
    BY <1>1, <1>7, QuitFacts
  <2>2. /\ d \in DOMAIN numbers /\ d # clients[slot].queue /\ numbers'[d] = numbers[d]
    BY <1>1, <2>1, CloseFacts DEF Leaves, Threads
  <2> QED
    BY <1>3, <2>1, <2>2 DEF Leaves
<1>8. CASE UNCHANGED clients /\ ~OpenQueue /\ ~HandleQuit
  <2>1. d \in DOMAIN numbers /\ numbers'[d] = numbers[d]
    <3>1. CASE \E e : Close(e, "handler")
      BY <1>1, <3>1, CloseFacts DEF Threads
    <3> QED
      BY <1>1, <1>8, <3>1, NumberCases
  <2>2. Active' = Active
    BY <1>8 DEF Active
  <2> QED
    BY <1>3, <1>8, <2>1, <2>2
<1>9. CASE HandleQuit /\ FindById(Head(server_q).id) = {}
  <2>1. UNCHANGED <<clients, numbers>>
    BY <1>9 DEF HandleQuit
  <2>2. Active' = Active
    BY <2>1 DEF Active
  <2> QED
    BY <1>3, <2>1, <2>2
<1> QED
  BY <1>4, <1>5, <1>6, <1>7, <1>8, <1>9, TableCases

\* While the handler sends, the table stays as it is.
LEMMA SendingKeeps ==
    ASSUME Sending, [Next]_vars
    PROVE  clients' = clients /\ Members' = Members
<1>1. clients' = clients
  BY TableCases DEF Sending, TakeSlot, HandleQuit, Received, OpenQueue, OpenFails
<1> QED
  BY <1>1 DEF Members, Active

LEMMA ReachedStep ==
    ASSUME IInv, IInv', ReachedInv, [Next]_vars
    PROVE  ReachedInv'
<1>1. Types /\ TableInv /\ JobInv /\ NumberTypes /\ "handler" \in Threads /\ "main" \in Threads
  BY DEF IInv, Types, Threads
<1>2. ASSUME held'["handler"] # Nobody
      PROVE  Sending' /\ held'["handler"] \in Members'
  <2>1. Sending'
    BY <1>2 DEF IInv, NumbersInv, Sending
  <2>2. CASE held'["handler"] = held["handler"]
    <3>1. Sending /\ held["handler"] \in Members
      BY <1>2, <2>2 DEF ReachedInv
    <3>2. Members' = Members
      BY <3>1, SendingKeeps
    <3> QED
      BY <2>1, <2>2, <3>1, <3>2
  <2>3. CASE SendOk \/ SendNext
    <3>1. \E d : \E text \in Texts : Deliver("handler", d, text)
      BY <1>1, <2>3, SendOkFacts, SendNextFacts DEF Sends
    <3> QED
      BY <1>1, <1>2, <3>1, DeliverFacts
  <2>4. CASE SendDown
    <3>1. \E d : \E text \in Texts : Deliver("main", d, text)
      BY <1>1, <2>4, EndingFacts DEF Cleanup
    <3>2. held'["handler"] = held["handler"]
      BY <1>1, <3>1, DeliverFacts
    <3> QED
      BY <2>2, <3>2
  <2>5. CASE OpenQueue
    BY <2>2, <2>5 DEF OpenQueue
  <2>6. CASE HandleQuit /\ FindById(Head(server_q).id) # {}
    <3>1. \E d : Close(d, "main")
      BY <1>1, <2>6, QuitFacts DEF Leaves
    <3>2. held'["handler"] = held["handler"]
      BY <1>1, <3>1, CloseFacts
    <3> QED
      BY <2>2, <3>2
  <2>7. CASE (CloseSlot \/ CloseServer) /\ \E d : Close(d, "handler")
    <3>1. PICK d : Close(d, "handler")
      BY <2>7
    <3>2. \/ held'["handler"] = held["handler"]
          \/ d \in DOMAIN numbers /\ held'["handler"] = numbers[d]
      BY <1>1, <3>1, CloseFacts
    <3>3. CASE d \in DOMAIN numbers /\ held'["handler"] = numbers[d]
      <4>1. held'["handler"] \in Members
        BY <1>2, <3>3 DEF ReachedInv, Members
      <4>2. clients' = clients
        BY <2>7, EndingSame DEF Cleanup
      <4> QED
        BY <2>1, <4>1, <4>2 DEF Members, Active
    <3> QED
      BY <2>2, <3>2, <3>3
  <2> QED
    BY <1>1, <2>2, <2>3, <2>4, <2>5, <2>6, <2>7, NumberCases
<1> QED
  BY <1>2, ReachedNumbers DEF ReachedInv

LEMMA KindStep ==
    ASSUME IInv, KindInv, [Next]_vars
    PROVE  KindInv'
<1>1. Types /\ TableInv /\ JobInv
  BY DEF IInv
<1>2. NoJob.text.kind = "none"
  BY DEF NoJob, Text
<1>3. Rest => KindInv'
  <2> HIDE DEF NoJob
  <2> QED
    BY <1>2, RestTypes DEF KindInv
<1>4. CASE TakeSlot /\ Active # Slots
  <2>1. PICK c \in Clients, slot \in Slots \ Active : Takes(c, slot)
    BY <1>1, <1>4, TakeFacts
  <2>2. handler' = "open" /\ job'.text = Text("join", {c}, 0) /\ job'.who = c
    BY <2>1 DEF Takes
  <2>3. Text("join", {c}, 0).kind = "join" /\ Text("join", {c}, 0).n = 0
    BY DEF Text
  <2> HIDE DEF Text
  <2>4. job'.text.kind = "join" /\ job'.text.n = 0
    BY <2>2, <2>3
  <2> QED
    BY <2>2, <2>4 DEF KindInv
<1>5. CASE HandleMsg /\ FindById(Head(server_q).id) # {}
  <2>1. PICK slot \in Active, n \in Nat, c \in Clients : Speaks(slot, n, c)
    BY <1>1, <1>5, MsgFacts
  <2>2. handler' = "all" /\ job'.text = Text("say", {c}, n)
    BY <2>1 DEF Speaks
  <2>3. Text("say", {c}, n).kind = "say"
    BY DEF Text
  <2> HIDE DEF Text
  <2>4. job'.text.kind = "say"
    BY <2>2, <2>3
  <2> QED
    BY <2>2, <2>4 DEF KindInv
<1>6. CASE HandleQuit /\ FindById(Head(server_q).id) # {}
  <2>1. PICK slot \in Active, c \in Clients : Leaves(slot, c)
    BY <1>1, <1>6, QuitFacts
  <2>2. handler' = "all" /\ job'.text = Text("leave", {c}, 0)
    BY <2>1 DEF Leaves
  <2>3. Text("leave", {c}, 0).kind = "leave"
    BY DEF Text
  <2> HIDE DEF Text
  <2>4. job'.text.kind = "leave"
    BY <2>2, <2>3
  <2> QED
    BY <2>2, <2>4 DEF KindInv
<1>7. CASE EndLoop
  <2>1. CASE Rest
    BY <1>3, <2>1
  <2>2. CASE job.users /\ handler' = "list" /\ job' = job
    <3>1. job.users \in BOOLEAN
      BY <1>1 DEF Types, Jobs
    <3>2. job.users = TRUE
      BY <2>2, <3>1
    <3> QED
      BY <2>2, <3>2 DEF KindInv
  <2> QED
    BY <1>7, <2>1, <2>2 DEF EndLoop
<1>8. CASE job' = job /\ handler' \in {handler, "all", "off"}
  BY <1>8 DEF KindInv
<1>9. CASE job' = job /\ OpenQueue
  BY <1>9 DEF KindInv, OpenQueue
<1>10. OpenFails => Rest
  BY DEF OpenFails
<1>11. (TakeSlot \/ HandleMsg \/ HandleQuit) =>
         \/ TakeSlot /\ Active # Slots
         \/ (HandleMsg \/ HandleQuit) /\ FindById(Head(server_q).id) # {}
         \/ Rest
  BY <1>1, IgnoredFacts
<1>12. \/ TakeSlot \/ HandleMsg \/ HandleQuit \/ OpenFails \/ EndLoop
       \/ job' = job /\ OpenQueue
       \/ job' = job /\ handler' \in {handler, "all", "off"}
  <2>1. OpenQueue => job' = job
    BY DEF OpenQueue
  <2>2. SendOk \/ SendNext => job' = job /\ handler' \in {handler, "all", "off"}
    BY DEF SendOk, SendNext
  <2>3. Interrupt \/ Cleanup \/ HandlerEnds \/ LastCleanup
          => job' = job /\ handler' \in {handler, "all", "off"}
    BY EndingSame DEF HandlerEnds
  <2>4. (\E c \in Clients : ClientStep(c) \/ Receive(c)) \/ UNCHANGED vars
          => job' = job /\ handler' \in {handler, "all", "off"}
    BY ClientSame, StutterSame
  <2> QED
    BY <2>1, <2>2, <2>3, <2>4, StepCases
<1> QED
  BY <1>3, <1>4, <1>5, <1>6, <1>7, <1>8, <1>9, <1>10, <1>11, <1>12

\* What is due to clients grows, but for a newcomer, to whom nothing was due before.
LEMMA DueCases ==
    ASSUME IInv, [Next]_vars
    PROVE  \/ OpenQueue
           \/ HandleMsg /\ FindById(Head(server_q).id) # {}
           \/ HandleQuit /\ FindById(Head(server_q).id) # {}
           \/ due' = due
<1>1. CASE TakeSlot \/ HandleMsg \/ HandleQuit
  BY <1>1, IgnoredFacts DEF TakeSlot, HandleMsg, HandleQuit
<1>2. CASE ~(TakeSlot \/ HandleMsg \/ HandleQuit)
  BY <1>2, StepCases, EndingSame, ClientSame, StutterSame
  DEF OpenQueue, OpenFails, SendOk, SendNext, EndLoop
<1> QED
  BY <1>1, <1>2

LEMMA DueGrows ==
    ASSUME IInv, IInv', [Next]_vars, NEW c \in Clients, ~(OpenQueue /\ c = job.who)
    PROVE  ToSet(due[c]) \subseteq ToSet(due'[c])
<1>1. /\ Types /\ TableInv /\ JobInv /\ due \in [Clients -> Seq(Texts)]
      /\ \A s \in Slots : clients[s].active => clients[s].who \in Clients
      /\ \A s \in Slots : clients'[s].active => clients'[s].who \in Clients
  BY MembersFacts DEF IInv, Types, TableInv, Active
<1> HIDE DEF Texts
<1>2. CASE OpenQueue
  <2>1. PICK e \in Clients, slot \in Active : Opens(e, slot)
    BY <1>1, <1>2, OpensFacts
  <2>2. due'[c] = Owed(job.text, TRUE, clients')[c] /\ job.text \in Texts
    BY <1>1, <1>2, <2>1 DEF Opens, Types, Jobs
  <2> QED
    BY <1>1, <2>2, OwedHas
<1>3. CASE HandleMsg /\ FindById(Head(server_q).id) # {}
  <2>1. PICK slot \in Active, n \in Nat, e \in Clients : Speaks(slot, n, e)
    BY <1>1, <1>3, MsgFacts
  <2>2. due' = Owed(Text("say", {e}, n), FALSE, clients) /\ Text("say", {e}, n) \in Texts
    BY <2>1, TextTypes DEF Speaks
  <2> QED
    BY <1>1, <2>2, OwedHas
<1>4. CASE HandleQuit /\ FindById(Head(server_q).id) # {}
  <2>1. PICK slot \in Active, e \in Clients : Leaves(slot, e)
    BY <1>1, <1>4, QuitFacts
  <2>2. due' = Owed(Text("leave", {e}, 0), TRUE, clients') /\ Text("leave", {e}, 0) \in Texts
    BY <2>1, TextTypes DEF Leaves
  <2> QED
    BY <1>1, <2>2, OwedHas
<1> QED
  BY <1>2, <1>3, <1>4, DueCases

LEMMA DuesStep ==
    ASSUME IInv, IInv', KindInv, DueInv, [Next]_vars
    PROVE  DueInv'
<1>1. /\ Types /\ TableInv /\ JobInv /\ due \in [Clients -> Seq(Texts)]
      /\ \A s \in Slots : clients[s].active => clients[s].who \in Clients
      /\ \A s \in Slots : clients'[s].active => clients'[s].who \in Clients
  BY MembersFacts DEF IInv, Types, TableInv, Active
<1> HIDE DEF Texts
<1>2. ASSUME NEW c \in Members'
      PROVE  c \in Clients /\ \E s \in Slots : clients'[s].active /\ clients'[s].who = c
  BY <1>1 DEF Members, Active
<1>3. CASE OpenQueue
  <2>1. PICK e \in Clients, slot \in Active : Opens(e, slot)
    BY <1>1, <1>3, OpensFacts
  <2>2. /\ e = job.who /\ job' = job /\ handler' = "ok" /\ job.text \in Texts
        /\ job.text = Text("join", {e}, 0)
    BY <1>1, <1>3, <2>1 DEF Opens, OpenQueue, Types, Jobs, KindInv
  <2> DEFINE ok == Text("ok", {}, job.sender)
             list == UserList(clients')
  <2>3. job.text.of = {e}
    <3>1. Text("join", {e}, 0).of = {e}
      BY DEF Text
    <3> HIDE DEF Text
    <3> QED
      BY <2>2, <3>1
  <2>4. due'[e] = <<ok, list>>
    BY <2>1 DEF Opens
  <2> HIDE DEF ok, list
  <2>5. ok \in ToSet(due'[e]) /\ list \in ToSet(due'[e])
    BY <2>4 DEF ToSet
  <2>6. ASSUME NEW c \in Members'
        PROVE  (job.text.of = {c} \/ job.text \in ToSet(due'[c])) /\ list \in ToSet(due'[c])
    <3>1. CASE c = e
      BY <2>3, <2>5, <3>1
    <3>2. CASE c # e
      <4>1. due'[c] = Owed(job.text, TRUE, clients')[c]
        BY <1>2, <2>1, <3>2 DEF Opens
      <4> QED
        BY <1>1, <1>2, <2>2, <4>1, OwedHas DEF list
    <3> QED
      BY <3>1, <3>2
  <2> QED
    BY <2>2, <2>5, <2>6 DEF DueInv, ok, list
<1>4. CASE HandleMsg /\ FindById(Head(server_q).id) # {}
  <2>1. PICK slot \in Active, n \in Nat, e \in Clients : Speaks(slot, n, e)
    BY <1>1, <1>4, MsgFacts
  <2> DEFINE say == Text("say", {e}, n)
  <2>2. /\ due' = Owed(say, FALSE, clients) /\ say \in Texts /\ clients' = clients
        /\ handler' = "all" /\ job'.text = say /\ job'.users = FALSE
    BY <2>1, TextTypes DEF Speaks
  <2> HIDE DEF say
  <2>3. ASSUME NEW c \in Members'
        PROVE  say.of = {c} \/ say \in ToSet(due'[c])
    BY <1>1, <1>2, <2>2, OwedHas
  <2> QED
    BY <2>2, <2>3 DEF DueInv
<1>5. CASE HandleQuit /\ FindById(Head(server_q).id) # {}
  <2>1. PICK slot \in Active, e \in Clients : Leaves(slot, e)
    BY <1>1, <1>5, QuitFacts
  <2> DEFINE leave == Text("leave", {e}, 0)
             list == UserList(clients')
  <2>2. /\ due' = Owed(leave, TRUE, clients') /\ leave \in Texts
        /\ handler' = "all" /\ job'.text = leave /\ job'.users = TRUE
    BY <2>1, TextTypes DEF Leaves
  <2> HIDE DEF leave
  <2>3. ASSUME NEW c \in Members'
        PROVE  (leave.of = {c} \/ leave \in ToSet(due'[c])) /\ list \in ToSet(due'[c])
    BY <1>1, <1>2, <2>2, OwedHas
  <2> QED
    BY <2>2, <2>3 DEF DueInv
<1>6. CASE Sending /\ due' = due /\ ~(TakeSlot \/ HandleMsg \/ HandleQuit \/ OpenQueue \/ OpenFails)
  <2>1. clients' = clients /\ Members' = Members
    BY <1>6, SendingKeeps
  <2>2. handler' = "ok" => handler = "ok" /\ job' = job
    <3>1. CASE EndLoop
      BY <3>1, RestTypes DEF EndLoop
    <3>2. CASE SendOk \/ SendNext
      BY <3>2 DEF SendOk, SendNext
    <3>3. CASE Interrupt \/ Cleanup \/ HandlerEnds \/ LastCleanup
      BY <3>3, EndingSame DEF HandlerEnds
    <3> QED
      BY <1>6, <3>1, <3>2, <3>3, StepCases, ClientSame, StutterSame
  <2>3. Sending' => job' = job
    <3>1. CASE EndLoop
      BY <3>1, RestTypes DEF EndLoop, Sending
    <3>2. CASE SendOk \/ SendNext
      BY <3>2 DEF SendOk, SendNext
    <3>3. CASE Interrupt \/ Cleanup \/ HandlerEnds \/ LastCleanup
      BY <3>3, EndingSame
    <3> QED
      BY <1>6, <3>1, <3>2, <3>3, StepCases, ClientSame, StutterSame
  <2>4. UserList(clients)' = UserList(clients)
    BY <2>1
  <2> QED
    BY <1>6, <2>1, <2>2, <2>3, <2>4 DEF DueInv
<1>7. CASE ~Sending'
  BY <1>7 DEF DueInv, Sending
<1>8. ASSUME Sending', ~OpenQueue, ~(HandleMsg /\ FindById(Head(server_q).id) # {}),
             ~(HandleQuit /\ FindById(Head(server_q).id) # {})
      PROVE  /\ Sending /\ due' = due
             /\ ~(TakeSlot \/ HandleMsg \/ HandleQuit \/ OpenQueue \/ OpenFails)
  <2>1. due' = due
    BY <1>8, DueCases
  <2>2. ~(TakeSlot /\ Active # Slots)
    BY <1>1, <1>8, TakeFacts DEF Takes, Sending
  <2>3. ~(TakeSlot \/ HandleMsg \/ HandleQuit)
    BY <1>1, <1>8, <2>2, IgnoredFacts, RestTypes DEF Sending
  <2>4. ~OpenFails
    BY <1>8, RestTypes DEF OpenFails, Sending
  <2>5. Sending
    <3>1. CASE EndLoop \/ SendOk \/ SendNext
      BY <3>1 DEF EndLoop, SendOk, SendNext, Sending
    <3>2. CASE Interrupt \/ Cleanup \/ HandlerEnds \/ LastCleanup
      BY <1>8, <3>2, EndingSame DEF HandlerEnds, Sending
    <3> QED
      BY <1>8, <2>3, <2>4, <3>1, <3>2, StepCases, ClientSame, StutterSame DEF Sending
  <2> QED
    BY <1>8, <2>1, <2>3, <2>4, <2>5
<1> QED
  BY <1>3, <1>4, <1>5, <1>6, <1>7, <1>8

\* The handler's next receiver, if it has come to a slot.
LEMMA NextReceiver ==
    ASSUME Types, NEW s \in SendsTo("handler"), handler \in {"all", "list"}
    PROVE  s \in Active /\ s \in Targets(handler, at) /\ SendsTo("handler") = {s}
<1>1. Targets(handler, at) # {} /\ s = Min(Targets(handler, at)) /\ SendsTo("handler") = {s}
  BY DEF SendsTo
<1>2. s \in Targets(handler, at)
  BY <1>1, SlotFacts
<1> QED
  BY <1>1, <1>2 DEF Targets

LEMMA OwnStep ==
    ASSUME IInv, KindInv, OwnInv, [Next]_vars
    PROVE  OwnInv'
<1>1. Types /\ TableInv /\ JobInv /\ NumberTypes /\ "handler" \in Threads /\ "main" \in Threads
  BY DEF IInv, Types, Threads
<1> SUFFICES ASSUME handler' = "all", job'.text.kind # "join"
             PROVE  /\ \A s \in Active' : clients'[s].queue \in DOMAIN numbers' => LeadsHome(s)'
                    /\ held'["handler"] # Nobody =>
                         \A s \in SendsTo("handler")' : clients'[s].who = held'["handler"]
  BY DEF OwnInv
<1>2. handler = "receive" =>
        /\ held["handler"] = Nobody
        /\ \A s \in Active : clients[s].queue \in DOMAIN numbers => LeadsHome(s)
  BY DEF IInv, NumbersInv, Opened
<1>3. CASE HandleMsg /\ FindById(Head(server_q).id) # {}
  <2>1. PICK slot \in Active, n \in Nat, c \in Clients : Speaks(slot, n, c)
    BY <1>1, <1>3, MsgFacts
  <2>2. UNCHANGED <<clients, numbers, held>> /\ handler = "receive"
    BY <1>3, <2>1 DEF Speaks, HandleMsg, Received
  <2> QED
    BY <1>2, <2>2 DEF Active, LeadsHome
<1>4. CASE HandleQuit /\ FindById(Head(server_q).id) # {}
  <2>1. PICK slot \in Active, c \in Clients : Leaves(slot, c)
    BY <1>1, <1>4, QuitFacts
  <2>2. PICK d : Close(d, "main")
    BY <2>1 DEF Leaves
  <2>3. /\ DOMAIN numbers' \subseteq DOMAIN numbers
        /\ \A e \in DOMAIN numbers' : numbers'[e] = numbers[e]
        /\ held'["handler"] = held["handler"]
    BY <1>1, <2>2, CloseFacts
  <2>4. handler = "receive" /\ Active' \subseteq Active /\ \A s \in Active' : clients'[s] = clients[s]
    BY <1>4, <2>1 DEF Leaves, HandleQuit, Received
  <2> QED
    BY <1>2, <2>3, <2>4 DEF LeadsHome
<1>5. CASE handler = "all" /\ UNCHANGED <<clients, job>>
  <2>1. /\ \A s \in Active : clients[s].queue \in DOMAIN numbers => LeadsHome(s)
        /\ held["handler"] # Nobody =>
             \A s \in SendsTo("handler") : clients[s].who = held["handler"]
    BY <1>5 DEF OwnInv
  <2>2. Active' = Active
    BY <1>5 DEF Active
  <2>3. CASE UNCHANGED <<numbers, at, held>>
    BY <1>5, <2>1, <2>2, <2>3 DEF LeadsHome, SendsTo, Targets
  <2>4. CASE SendNext
    <3>1. \E d : \E text \in Texts : Deliver("handler", d, text)
      BY <1>1, <2>4, SendNextFacts DEF Sends
    <3>2. held'["handler"] = Nobody
      BY <1>1, <3>1, DeliverFacts
    <3>3. numbers' = numbers
      BY <2>4 DEF SendNext
    <3> QED
      BY <1>5, <2>1, <2>2, <3>2, <3>3 DEF LeadsHome
  <2>5. CASE SendDown
    <3>1. \E d : \E text \in Texts : Deliver("main", d, text)
      BY <1>1, <2>5, EndingFacts DEF Cleanup
    <3>2. held'["handler"] = held["handler"]
      BY <1>1, <3>1, DeliverFacts
    <3>3. UNCHANGED <<numbers, at>>
      BY <2>5 DEF SendDown
    <3>4. SendsTo("handler")' = SendsTo("handler")
      BY <1>5, <2>2, <3>3 DEF SendsTo, Targets
    <3> QED
      BY <1>5, <2>1, <2>2, <3>2, <3>3, <3>4 DEF LeadsHome
  <2>6. CASE (CloseSlot \/ CloseServer) /\ \E d : Close(d, "handler")
    <3>1. PICK d : Close(d, "handler")
      BY <2>6
    <3>2. /\ DOMAIN numbers' \subseteq DOMAIN numbers
          /\ \A e \in DOMAIN numbers' : numbers'[e] = numbers[e]
          /\ \/ held'["handler"] = held["handler"]
             \/ /\ d \in DOMAIN numbers /\ held'["handler"] = numbers[d]
                /\ \E s \in SendsTo("handler") : clients[s].queue = d
      BY <1>1, <3>1, CloseFacts
    <3>3. at' = at
      BY <2>6, EndingSame DEF Cleanup
    <3>4. SendsTo("handler")' = SendsTo("handler")
      BY <1>5, <2>2, <3>3 DEF SendsTo, Targets
    <3>5. ASSUME d \in DOMAIN numbers, NEW s \in SendsTo("handler"), clients[s].queue = d
          PROVE  \A r \in SendsTo("handler") : clients[r].who = numbers[d]
      <4>1. s \in Active /\ SendsTo("handler") = {s}
        BY <1>1, <1>5, NextReceiver
      <4>2. numbers[d] = clients[s].who
        BY <2>1, <3>5, <4>1 DEF LeadsHome
      <4> QED
        BY <4>1, <4>2
    <3>6. held'["handler"] # Nobody =>
             \A s \in SendsTo("handler")' : clients'[s].who = held'["handler"]
      BY <1>5, <2>1, <3>2, <3>4, <3>5
    <3> QED
      BY <1>5, <2>1, <2>2, <3>2, <3>6 DEF LeadsHome
  <2>7. ~(OpenQueue \/ SendOk \/ HandleQuit)
    BY <1>5 DEF OpenQueue, SendOk, HandleQuit, Received
  <2>8. UNCHANGED at \/ SendNext
    <3>1. ~(TakeSlot \/ HandleMsg \/ OpenFails)
      BY <1>5 DEF TakeSlot, HandleMsg, OpenFails, Received
    <3>2. ~EndLoop
      BY RestTypes DEF EndLoop
    <3> QED
      BY <2>7, <3>1, <3>2, StepCases, EndingSame, ClientSame, StutterSame
  <2> QED
    BY <1>1, <2>3, <2>4, <2>5, <2>6, <2>7, <2>8, NumberCases
<1>6. \/ HandleMsg /\ FindById(Head(server_q).id) # {}
      \/ HandleQuit /\ FindById(Head(server_q).id) # {}
      \/ handler = "all" /\ UNCHANGED <<clients, job>>
  <2>1. CASE TakeSlot \/ HandleMsg \/ HandleQuit
    <3>1. ~(TakeSlot /\ Active # Slots)
      BY <1>1, TakeFacts DEF Takes
    <3> QED
      BY <1>1, <2>1, <3>1, IgnoredFacts, RestTypes
  <2>2. ~(OpenQueue \/ OpenFails \/ EndLoop)
    BY RestTypes DEF OpenQueue, OpenFails, EndLoop
  <2>3. ~SendOk
    <3> SUFFICES ASSUME SendOk PROVE FALSE
      OBVIOUS
    <3>1. job' = job /\ handler = "ok"
      BY DEF SendOk
    <3>2. Text("join", {job.who}, 0).kind = "join"
      BY DEF Text
    <3> QED
      BY <3>1, <3>2 DEF KindInv
  <2>4. SendNext => handler = "all" /\ UNCHANGED <<clients, job>>
    BY DEF SendNext
  <2>5. Interrupt \/ Cleanup \/ HandlerEnds \/ LastCleanup
          => handler = "all" /\ UNCHANGED <<clients, job>>
    BY EndingSame DEF HandlerEnds
  <2> QED
    BY <2>1, <2>2, <2>3, <2>4, <2>5, StepCases, ClientSame, StutterSame
<1> QED
  BY <1>3, <1>4, <1>5, <1>6

\* The text about c that may reach c itself.
Joined(c) == Text("join", {c}, 0)

\* What the handler's next text is to the client that it reaches.
LEMMA NextFits ==
    ASSUME IInv, ReachedInv, KindInv, DueInv, OwnInv, SendNext
    PROVE  \/ UNCHANGED client_q
           \/ \E r \in Clients, text \in Texts :
                /\ client_q' = [client_q EXCEPT ![r] = Append(@, text)]
                /\ text \in ToSet(due[r]) \cup {Joined(r)}
<1>1. Types /\ TableInv /\ JobInv /\ "handler" \in Threads
  BY DEF IInv, Threads
<1>2. PICK slot \in Targets(handler, at), e \in Clients, text \in Texts : Sends(slot, e, text)
  BY <1>1, SendNextFacts
<1>3. handler \in {"all", "list"} /\ slot \in Active /\ slot \in SendsTo("handler")
  BY <1>2 DEF SendNext, Targets, SendsTo, Sends
<1> DEFINE n == clients[slot].queue
           r == Reaches("handler", n)
<1>4. Deliver("handler", n, text) /\ text = (IF handler = "all" THEN job.text ELSE UserList(clients))
  BY <1>2 DEF Sends
<1>5. \/ r = Nobody /\ client_q' = client_q
      \/ /\ r \in Clients /\ client_q' = [client_q EXCEPT ![r] = Append(@, text)]
         /\ r = held["handler"] \/ (held["handler"] = Nobody /\ n \in DOMAIN numbers /\ r = numbers[n])
  BY <1>1, <1>4, DeliverFacts
<1> HIDE DEF r
<1>6. ASSUME r \in Clients,
             r = held["handler"] \/ (held["handler"] = Nobody /\ n \in DOMAIN numbers /\ r = numbers[n])
      PROVE  text \in ToSet(due[r]) \cup {Joined(r)}
  <2>1. r # Nobody
    BY <1>6, NobodyAssumption
  <2>2. r \in Members
    BY <1>6, <2>1 DEF ReachedInv, Members
  <2>3. Sending /\ (job.text.of = {r} \/ job.text \in ToSet(due[r]))
        /\ (job.users = TRUE => UserList(clients) \in ToSet(due[r]))
    BY <1>3, <2>2 DEF DueInv, Sending
  <2>4. CASE handler = "list"
    BY <1>4, <2>3, <2>4 DEF KindInv
  <2>5. CASE handler = "all" /\ job.text.of = {r}
    <3>1. clients[slot].id # job.sender
      BY <1>2, <2>5 DEF Targets
    <3>2. clients[slot].who # r
      BY <1>1, <1>3, <2>5, <3>1 DEF JobInv
    <3>3. CASE job.text.kind # "join"
      <4>1. clients[slot].queue \in DOMAIN numbers => numbers[n] = clients[slot].who
        BY <1>3, <2>5, <3>3 DEF OwnInv, LeadsHome
      <4>2. held["handler"] # Nobody => clients[slot].who = held["handler"]
        BY <1>3, <2>5, <3>3 DEF OwnInv
      <4> QED
        BY <1>6, <2>1, <3>2, <4>1, <4>2
    <3>4. CASE job.text.kind = "join"
      <4>1. job.text.n = 0 /\ job.text \in Texts
        BY <1>1, <3>4 DEF KindInv, Types, Jobs
      <4>2. job.text = [kind |-> "join", of |-> {r}, n |-> 0]
        BY <2>5, <3>4, <4>1 DEF Texts
      <4> QED
        BY <1>4, <2>5, <4>2 DEF Joined, Text
    <3> QED
      BY <3>3, <3>4
  <2>6. CASE handler = "all" /\ job.text \in ToSet(due[r])
    BY <1>4, <2>6
  <2> QED
    BY <1>3, <2>3, <2>4, <2>5, <2>6
<1>7. CASE r = Nobody /\ client_q' = client_q
  BY <1>7
<1>8. CASE r \in Clients /\ client_q' = [client_q EXCEPT ![r] = Append(@, text)]
  <2> SUFFICES ASSUME r \in Clients, client_q' # client_q
               PROVE  text \in ToSet(due[r]) \cup {Joined(r)}
    BY <1>2, <1>8
  <2> QED
    BY <1>5, <1>6
<1> QED
  BY <1>5, <1>7, <1>8

\* The invariant of which OnlyItsOwn is a part.
ForeignInv ==
    /\ ReachedInv /\ KindInv /\ DueInv /\ OwnInv
    /\ \A c \in Clients : OnlyItsOwn(c)

\* Every text that reaches a client is one that is due to it then, or may reach it always.
LEMMA OnlyStep ==
    ASSUME IInv, IInv', ForeignInv, [Next]_vars, NEW c \in Clients
    PROVE  OnlyItsOwn(c)'
<1>1. Types /\ TableInv /\ JobInv /\ NumbersInv /\ "main" \in Threads
  BY DEF IInv, Threads
<1> DEFINE always == {Down, Joined(c)}
<1>2. ToSet(Got(c)) \subseteq ToSet(due[c]) \cup always
  BY DEF ForeignInv, OnlyItsOwn, Joined
<1>3. OnlyItsOwn(c)' <=> ToSet(Got(c)') \subseteq ToSet(due'[c]) \cup always
  BY DEF OnlyItsOwn, Joined, Down
<1> HIDE DEF always
<1>4. CASE OpenQueue /\ c = job.who
  <2>1. heard'[c] = <<>> /\ client_q'[c] = <<>>
    BY <1>4 DEF OpenQueue, IInv, FreshInv, Quiet, clientVars
  <2>2. <<>> \o <<>> = <<>>
    BY EmptySeq, ConcatEmptySeq
  <2>3. Got(c)' = <<>>
    BY <2>1, <2>2 DEF Got
  <2>4. ToSet(<<>>) = {}
    BY DEF ToSet
  <2> QED
    BY <1>3, <2>3, <2>4
<1>5. CASE ~(OpenQueue /\ c = job.who)
  <2>1. ToSet(due[c]) \subseteq ToSet(due'[c])
    BY <1>5, DueGrows
  <2>2. CASE Got(c)' = Got(c)
    BY <1>2, <1>3, <2>1, <2>2
  <2>3. ASSUME heard' = heard, NEW e \in Clients, NEW x \in Texts,
               client_q' = [client_q EXCEPT ![e] = Append(@, x)],
               x \in ToSet(due[e]) \cup {Down, Joined(e)}
        PROVE  OnlyItsOwn(c)'
    <3>1. heard[c] \in Seq(Texts) /\ client_q[c] \in Seq(Texts)
      BY <1>1 DEF Types
    <3>2. client_q'[c] = (IF e = c THEN Append(client_q[c], x) ELSE client_q[c])
      BY <1>1, <2>3 DEF Types
    <3>3. CASE e = c
      <4>1. Got(c)' = heard[c] \o Append(client_q[c], x) /\ Got(c) = heard[c] \o client_q[c]
        BY <2>3, <3>2, <3>3 DEF Got
      <4>2. ToSet(Got(c)') = ToSet(Got(c)) \cup {x}
        BY <3>1, <4>1, GotAppend
      <4>3. x \in ToSet(due[c]) \cup always
        BY <2>3, <3>3 DEF always
      <4> QED
        BY <1>2, <1>3, <2>1, <4>2, <4>3
    <3>4. CASE e # c
      <4>1. Got(c)' = Got(c)
        BY <2>3, <3>2, <3>4 DEF Got
      <4> QED
        BY <2>2, <4>1
    <3> QED
      BY <3>3, <3>4
  <2>4. CASE heard' = heard /\ client_q' = client_q
    <3>1. Got(c)' = Got(c)
      BY <2>4 DEF Got
    <3> QED
      BY <2>2, <3>1
  <2>5. CASE \E d \in Clients : Receive(d)
    BY <1>1, <2>2, <2>5, GotReceive
  <2>6. CASE SendOk
    <3>1. PICK e \in Clients, text \in Texts :
             /\ e = job.who /\ text = Text("ok", {}, job.sender)
             /\ client_q' = client_q \/ client_q' = [client_q EXCEPT ![e] = Append(@, text)]
      BY <1>1, <2>6, OkReaches
    <3>2. heard' = heard /\ text \in ToSet(due[e])
      BY <2>6, <3>1 DEF SendOk, clientVars, ForeignInv, DueInv
    <3> QED
      BY <2>3, <2>4, <3>1, <3>2
  <2>7. CASE SendNext
    <3>1. heard' = heard
      BY <2>7 DEF SendNext, clientVars
    <3>2. \/ client_q' = client_q
          \/ \E r \in Clients, text \in Texts :
               /\ client_q' = [client_q EXCEPT ![r] = Append(@, text)]
               /\ text \in ToSet(due[r]) \cup {Joined(r)}
      BY <2>7, NextFits DEF ForeignInv
    <3> QED
      BY <2>3, <2>4, <3>1, <3>2
  <2>8. CASE SendDown
    <3>1. heard' = heard
      BY <2>8 DEF SendDown, clientVars
    <3>2. \E d : \E text \in Texts : text = Down /\ Deliver("main", d, text)
      BY <1>1, <2>8, EndingFacts DEF Cleanup
    <3>3. PICK d : \E text \in Texts : text = Down /\ Deliver("main", d, text)
      BY <3>2
    <3>4. PICK text \in Texts : text = Down /\ Deliver("main", d, text)
      BY <3>3
    <3>5. \/ client_q' = client_q
          \/ \E e \in Clients : client_q' = [client_q EXCEPT ![e] = Append(@, text)]
      BY <1>1, <3>4, DeliverFacts
    <3> QED
      BY <2>3, <2>4, <3>1, <3>4, <3>5
  <2> QED
    BY <2>4, <2>5, <2>6, <2>7, <2>8, SentCases
<1> QED
  BY <1>4, <1>5

LEMMA ForeignInit == Init => ForeignInv
<1> SUFFICES ASSUME Init PROVE ForeignInv
  OBVIOUS
<1>1. \A d \in DOMAIN numbers : numbers[d] = Nobody
  BY DEF Init
<1>2. held["handler"] = Nobody /\ handler = "receive" /\ job = NoJob
  BY DEF Init, Threads
<1>3. NoJob.text.kind = "none"
  BY DEF NoJob, Text
<1> HIDE DEF NoJob
<1>4. ReachedInv /\ KindInv /\ DueInv /\ OwnInv
  BY <1>1, <1>2, <1>3 DEF ReachedInv, KindInv, DueInv, OwnInv, Sending
<1>5. ASSUME NEW c \in Clients PROVE OnlyItsOwn(c)
  <2>1. heard[c] = <<>> /\ client_q[c] = <<>>
    BY DEF Init
  <2>2. <<>> \o <<>> = <<>> /\ ToSet(<<>>) = {}
    BY EmptySeq, ConcatEmptySeq DEF ToSet
  <2>3. Got(c) = <<>>
    BY <2>1, <2>2 DEF Got
  <2> QED
    BY <2>2, <2>3 DEF OnlyItsOwn
<1> QED
  BY <1>4, <1>5 DEF ForeignInv

LEMMA ForeignStep == IInv /\ IInv' /\ ForeignInv /\ [Next]_vars => ForeignInv'
<1> SUFFICES ASSUME IInv, IInv', ForeignInv, [Next]_vars PROVE ForeignInv'
  OBVIOUS
<1>1. ReachedInv /\ KindInv /\ DueInv /\ OwnInv
  BY DEF ForeignInv
<1>2. ReachedInv' /\ KindInv' /\ DueInv' /\ OwnInv'
  BY <1>1, ReachedStep, KindStep, DuesStep, OwnStep
<1>3. ASSUME NEW c \in Clients PROVE OnlyItsOwn(c)'
  BY OnlyStep
<1> QED
  BY <1>2, <1>3 DEF ForeignInv

\* What a member has taken, what waits in its queue and what the handler still has to
\* send to it is what is due to it, in order and once (send_to_all and
\* broadcast_user_list, chat_server.c:51-77, called by the handler at
\* chat_server.c:104-163 while clients come and go and queues are full); after Ctrl+C
\* unless cleanup has told it of the end or closed its number (chat_server.c:39-40), or
\* another slot holds that number too (115).  Nobody ever gets a text that is not due to
\* it, but the shutdown and its own join, although a slot whose number was closed may come
\* to hold another client's (40, 115).
THEOREM MissedTheorem == Spec => []NothingMissed
<1>1. Init => MissedInv
  BY DEF Init, MissedInv, Opened, Active
<1>2. IInv /\ MissedInv /\ ForeignInv => NothingMissed
  BY MissedEnough DEF NothingMissed, ForeignInv
<1> QED
  BY <1>1, <1>2, IInvInit, IInvStep, MissedStep, ForeignInit, ForeignStep, PTL DEF Spec

=============================================================================
