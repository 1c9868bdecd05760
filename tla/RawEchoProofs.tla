---------------------------- MODULE RawEchoProofs ----------------------------
(***************************************************************************)
(* Proofs about RawEcho for any number of clients, ports and lines and any    *)
(* size of the table: a client alone on its port gets its answers in step,    *)
(* every entry of the table has an owner, and nobody waits for nothing.       *)
(***************************************************************************)
EXTENDS RawEcho, TLAPS, SequenceTheorems

Data == [kind : {"text", "SHUTDOWN"}, who : Clients, line : Nat, count : Nat]
Packet == [src : Ports \cup {ServerPort}, dst : Ports \cup {ServerPort}, data : Data]
Row == [port : Ports, counter : Nat]

Types ==
    /\ pc \in [Clients -> {"off", "prompt", "wait", "leave", "gone"}]
    /\ port \in [Clients -> Ports \cup {NoPort}]
    /\ sent \in [Clients -> Nat]
    /\ replies \in [Clients -> Seq(Packet)]
    /\ inbox \in Seq(Packet)
    /\ table \in Seq(Row)
    /\ up \in BOOLEAN
    /\ lines \in [Clients -> Nat]

\* A client has a port from its start on, and a socket only while it runs.
ProcessInv ==
    /\ \A c \in Clients : pc[c] = "off" <=> port[c] = NoPort
    /\ \A c \in Clients : pc[c] = "off" => lines[c] = 0
    /\ \A c \in Clients : Alive(c) \/ replies[c] = << >>
    /\ up \/ (inbox = << >> /\ table = << >>)

\* Where a datagram comes from, whose line it carries and whom it reaches.
AddressInv ==
    /\ \A m \in DOMAIN inbox :
         inbox[m].src = port[inbox[m].data.who] /\ inbox[m].src # NoPort
    /\ \A c \in Clients : \A m \in DOMAIN replies[c] : port[replies[c][m].data.who] = port[c]

\* A row of the table is the only one of its port, which is some client's.
TableInv ==
    /\ \A k \in DOMAIN table : \E c \in Clients : port[c] = table[k].port
    /\ \A j, k \in DOMAIN table : table[j].port = table[k].port => j = k

\* Behind all that a client has sent comes its SHUTDOWN, if it is gone and not silent.
ShutdownInv ==
    \A m \in DOMAIN inbox : inbox[m].src # ServerPort =>
        \/ Alive(inbox[m].data.who)
        \/ inbox[m].data.who \in silent
        \/ \E n \in DOMAIN inbox : /\ m <= n
                                   /\ inbox[n].data.kind = "SHUTDOWN"
                                   /\ inbox[n].data.who = inbox[m].data.who

\* The table's counter for c's port; a port without a row counts as 0.
Counted(c, n) ==
    /\ n > 0 => \E k \in DOMAIN table : table[k].port = port[c]
    /\ \A k \in DOMAIN table : table[k].port = port[c] => table[k].counter = n

\* What the table has counted of c when nothing is under way.
Heard(c) == IF c \in fresh THEN 0 ELSE lines[c]

Mine(c) == {m \in DOMAIN inbox : inbox[m].data.who = c}

\* Of a client's lines only the last may be under way, once, or its answer, and the
\* server has counted all lines up to the last answered one.
InStep(c) ==
    /\ pc[c] # "wait" => Mine(c) = {} /\ replies[c] = << >>
    /\ replies[c] # << >> =>
         /\ Mine(c) = {}
         /\ Len(replies[c]) = 1
         /\ replies[c][1].data = [kind |-> "text", who |-> c, line |-> sent[c],
                                  count |-> lines[c]]
    /\ \A m \in Mine(c) : inbox[m].data.line = sent[c]
    /\ \A m, n \in Mine(c) : m = n
    /\ pc[c] # "wait" \/ replies[c] # << >> => Counted(c, Heard(c))
    /\ Mine(c) # {} => c \notin fresh /\ Counted(c, lines[c] - 1) /\ lines[c] > 0

StepInv == \A c \in Clients : Alive(c) /\ Alone(c) => InStep(c)

IInv == Types /\ ProcessInv /\ AddressInv /\ TableInv /\ ShutdownInv /\ StepInv

-----------------------------------------------------------------------------
(* Sequences.                                                               *)

LEMMA TailFacts ==
    ASSUME NEW S, NEW q \in Seq(S), q # << >>
    PROVE  /\ 1 \in DOMAIN q /\ Head(q) = q[1] /\ Head(q) \in S
           /\ Tail(q) \in Seq(S)
           /\ DOMAIN Tail(q) = 1 .. Len(q) - 1
           /\ \A m \in DOMAIN Tail(q) : m + 1 \in DOMAIN q /\ Tail(q)[m] = q[m + 1]
           /\ \A m \in DOMAIN q : m # 1 => m - 1 \in DOMAIN Tail(q) /\ Tail(q)[m - 1] = q[m]
<1>1. Len(q) \in Nat \ {0} /\ DOMAIN q = 1 .. Len(q) /\ Head(q) = q[1]
  BY EmptySeq, LenProperties
<1>2. /\ Head(q) \in S /\ Tail(q) \in Seq(S) /\ Len(Tail(q)) = Len(q) - 1
      /\ \A i \in 1 .. Len(Tail(q)) : Tail(q)[i] = q[i + 1]
  BY HeadTailProperties
<1>3. DOMAIN Tail(q) = 1 .. Len(q) - 1
  BY <1>2, LenProperties
<1>4. \A m \in DOMAIN Tail(q) : m + 1 \in DOMAIN q /\ Tail(q)[m] = q[m + 1]
  BY <1>1, <1>2, <1>3
<1>5. \A m \in DOMAIN q : m # 1 => m - 1 \in DOMAIN Tail(q) /\ Tail(q)[m - 1] = q[m]
  <2> SUFFICES ASSUME NEW m \in DOMAIN q, m # 1
               PROVE  m - 1 \in DOMAIN Tail(q) /\ Tail(q)[m - 1] = q[m]
    OBVIOUS
  <2>1. m \in Nat /\ m - 1 \in DOMAIN Tail(q) /\ (m - 1) + 1 = m
    BY <1>1, <1>3
  <2> QED
    BY <1>4, <2>1
<1> QED
  BY <1>1, <1>2, <1>3, <1>4, <1>5

LEMMA AppendFacts ==
    ASSUME NEW S, NEW q \in Seq(S), NEW e \in S
    PROVE  /\ Append(q, e) \in Seq(S)
           /\ Len(q) \in Nat /\ DOMAIN q = 1 .. Len(q)
           /\ DOMAIN Append(q, e) = 1 .. Len(q) + 1
           /\ \A m \in DOMAIN q : m \in DOMAIN Append(q, e) /\ Append(q, e)[m] = q[m]
           /\ \A m \in DOMAIN Append(q, e) : m \in DOMAIN q \/ m = Len(q) + 1
           /\ Append(q, e)[Len(q) + 1] = e
           /\ Append(q, e) # << >>
<1>1. Len(q) \in Nat /\ DOMAIN q = 1 .. Len(q)
  BY LenProperties
<1>2. /\ Append(q, e) \in Seq(S) /\ Append(q, e) # << >> /\ Len(Append(q, e)) = Len(q) + 1
      /\ \A i \in 1 .. Len(q) : Append(q, e)[i] = q[i]
      /\ Append(q, e)[Len(q) + 1] = e
  BY AppendProperties
<1>3. DOMAIN Append(q, e) = 1 .. Len(q) + 1
  BY <1>2, LenProperties
<1> QED
  BY <1>1, <1>2, <1>3

LEMMA RemoveAtFacts ==
    ASSUME NEW S, NEW q \in Seq(S), NEW k \in DOMAIN q
    PROVE  /\ RemoveAt(q, k) \in Seq(S)
           /\ DOMAIN RemoveAt(q, k) = 1 .. Len(q) - 1
           /\ \A j \in DOMAIN RemoveAt(q, k) :
                RemoveAt(q, k)[j] = IF j < k THEN q[j] ELSE q[j + 1]
<1>1. Len(q) \in Nat /\ DOMAIN q = 1 .. Len(q) /\ k \in 1 .. Len(q)
  BY LenProperties
<1> DEFINE u == SubSeq(q, 1, k - 1)
           v == SubSeq(q, k + 1, Len(q))
<1>2. \A i \in DOMAIN q : q[i] \in S
  BY ElementOfSeq, <1>1
<1>3. /\ u \in Seq(S) /\ Len(u) = k - 1
      /\ \A i \in 1 .. k - 1 : u[i] = q[i]
  <2>1. 1 \in Int /\ k - 1 \in Int /\ \A i \in 1 .. k - 1 : q[i] \in S
    BY <1>1, <1>2
  <2>2. /\ u \in Seq(S) /\ Len(u) = IF 1 <= k - 1 THEN k - 1 - 1 + 1 ELSE 0
        /\ \A i \in 1 .. (k - 1) - 1 + 1 : u[i] = q[1 + i - 1]
    BY <2>1, SubSeqProperties
  <2> QED
    BY <2>2, <1>1
<1>4. /\ v \in Seq(S) /\ Len(v) = Len(q) - k
      /\ \A i \in 1 .. Len(q) - k : v[i] = q[k + i]
  <2>1. k + 1 \in Int /\ Len(q) \in Int /\ \A i \in k + 1 .. Len(q) : q[i] \in S
    BY <1>1, <1>2
  <2>2. /\ v \in Seq(S) /\ Len(v) = IF k + 1 <= Len(q) THEN Len(q) - (k + 1) + 1 ELSE 0
        /\ \A i \in 1 .. Len(q) - (k + 1) + 1 : v[i] = q[(k + 1) + i - 1]
    BY <2>1, SubSeqProperties
  <2>3. /\ Len(q) - (k + 1) + 1 = Len(q) - k
        /\ \A i \in 1 .. Len(q) - k : (k + 1) + i - 1 = k + i
    BY <1>1
  <2> HIDE DEF v
  <2>4. Len(v) = Len(q) - k
    BY <2>2, <1>1
  <2>5. \A i \in 1 .. Len(q) - k : v[i] = q[k + i]
    BY <2>2, <2>3
  <2> QED
    BY <2>2, <2>4, <2>5
<1>5. /\ RemoveAt(q, k) = u \o v
      /\ u \o v \in Seq(S) /\ Len(u \o v) = Len(u) + Len(v)
      /\ \A i \in 1 .. Len(u) + Len(v) :
           (u \o v)[i] = IF i <= Len(u) THEN u[i] ELSE v[i - Len(u)]
  <2> HIDE DEF u, v
  <2>1. /\ u \o v \in Seq(S) /\ Len(u \o v) = Len(u) + Len(v)
        /\ \A i \in 1 .. Len(u) + Len(v) :
             (u \o v)[i] = IF i <= Len(u) THEN u[i] ELSE v[i - Len(u)]
    BY <1>3, <1>4, ConcatProperties
  <2> QED
    BY <2>1 DEF RemoveAt, u, v
<1> HIDE DEF u, v
<1>6. DOMAIN RemoveAt(q, k) = 1 .. Len(q) - 1
  <2>1. Len(u \o v) = Len(q) - 1
    BY <1>1, <1>3, <1>4, <1>5
  <2> QED
    BY <1>5, <2>1, LenProperties
<1>7. ASSUME NEW j \in 1 .. Len(q) - 1
      PROVE  RemoveAt(q, k)[j] = IF j < k THEN q[j] ELSE q[j + 1]
  <2>1. (u \o v)[j] = IF j <= Len(u) THEN u[j] ELSE v[j - Len(u)]
    <3>1. j \in 1 .. Len(u) + Len(v)
      BY <1>1, <1>3, <1>4
    <3> QED
      BY <1>5, <3>1
  <2>2. CASE j < k
    BY <1>1, <1>3, <1>5, <2>1, <2>2
  <2>3. CASE j >= k
    <3>1. j - (k - 1) \in 1 .. Len(q) - k /\ k + (j - (k - 1)) = j + 1 /\ ~ (j <= k - 1)
      BY <1>1, <2>3
    <3>2. (u \o v)[j] = v[j - (k - 1)]
      BY <1>3, <2>1, <3>1
    <3>3. v[j - (k - 1)] = q[j + 1]
      BY <1>4, <3>1
    <3>4. ~ (j < k)
      BY <1>1, <2>3
    <3> QED
      BY <1>5, <3>2, <3>3, <3>4
  <2> QED
    BY <1>1, <2>2, <2>3
<1> QED
  BY <1>5, <1>6, <1>7

-----------------------------------------------------------------------------
(* Sending.                                                                 *)

LEMMA SendToFacts ==
    ASSUME Types, NEW d \in Packet, NEW q \in Seq(Packet), NEW missed, SendTo(d, q, missed)
    PROVE  /\ missed \subseteq Hearers(d)
           /\ inbox' = IF ServerPort \in Hearers(d) \ missed THEN Append(q, d) ELSE q
           /\ inbox' \in Seq(Packet)
           /\ replies' \in [Clients -> Seq(Packet)]
           /\ \A c \in Clients : pc'[c] = "gone" => replies'[c] = << >>
           /\ \A c \in Clients : pc'[c] # "gone" =>
                replies'[c] = IF c \in Hearers(d) \ missed THEN Append(replies[c], d)
                                                         ELSE replies[c]
<1>1. missed \subseteq Hearers(d)
  BY DEF SendTo
<1>2. inbox' = IF ServerPort \in Hearers(d) \ missed THEN Append(q, d) ELSE q
  BY DEF SendTo
<1>3. inbox' \in Seq(Packet)
  BY <1>2, AppendProperties
<1>4. \A c \in Clients : replies[c] \in Seq(Packet)
  BY DEF Types
<1>5. \A c \in Clients : Append(replies[c], d) \in Seq(Packet)
  BY <1>4, AppendProperties
<1>6. << >> \in Seq(Packet)
  BY EmptySeq
<1>7. replies' \in [Clients -> Seq(Packet)]
  BY <1>4, <1>5, <1>6 DEF SendTo
<1> QED
  BY <1>1, <1>2, <1>3, <1>7 DEF SendTo

\* Who hears a datagram.
LEMMA HearersFacts ==
    ASSUME NEW d
    PROVE  /\ ServerPort \in Hearers(d) <=> (up /\ d.dst = ServerPort)
           /\ \A c \in Clients :
                c \in Hearers(d) <=> (Alive(c) /\ d.dst = port[c] /\ d.src = ServerPort)
BY PortsAssumption DEF Hearers

LEMMA PacketFacts ==
    ASSUME NEW d \in Packet
    PROVE  /\ d.src \in Ports \cup {ServerPort} /\ d.data.kind \in {"text", "SHUTDOWN"}
           /\ d.data.who \in Clients /\ d.data.line \in Nat /\ d.data.count \in Nat
BY DEF Packet, Data

LEMMA InitInv == Init => IInv
<1> SUFFICES ASSUME Init PROVE IInv
  OBVIOUS
<1>1. << >> \in Seq(Packet) /\ << >> \in Seq(Row) /\ DOMAIN inbox = {} /\ DOMAIN table = {}
      /\ \A c \in Clients : DOMAIN replies[c] = {}
  BY EmptySeq DEF Init
<1>2. Types
  BY <1>1 DEF Init, Types
<1>3. ProcessInv
  BY DEF Init, ProcessInv
<1>4. AddressInv /\ TableInv /\ ShutdownInv
  BY <1>1 DEF Init, AddressInv, TableInv, ShutdownInv
<1>5. StepInv
  BY DEF Init, StepInv, Alive
<1> QED
  BY <1>2, <1>3, <1>4, <1>5 DEF IInv

-----------------------------------------------------------------------------
(* The steps of a client.                                                   *)

LEMMA StartStep ==
    ASSUME IInv, NEW c \in Clients, Start(c)
    PROVE  IInv'
<1> USE DEF IInv
<1>1. PICK p \in Ports : port' = [port EXCEPT ![c] = p]
  BY DEF Start
<1>2. /\ pc' = [pc EXCEPT ![c] = "prompt"] /\ pc[c] = "off"
      /\ sent' = sent /\ replies' = replies /\ inbox' = inbox /\ table' = table /\ up' = up
      /\ silent' = silent /\ lines' = lines /\ fresh' = fresh
  BY DEF Start, serverVars, history, servers
<1>3. /\ port[c] = NoPort /\ NoPort \notin Ports /\ NoPort # ServerPort
      /\ port'[c] = p /\ \A o \in Clients \ {c} : port'[o] = port[o] /\ pc'[o] = pc[o]
      /\ pc'[c] = "prompt"
  BY <1>1, <1>2, PortsAssumption DEF Types, ProcessInv
<1>4. \A m \in DOMAIN inbox : inbox[m] \in Packet /\ inbox[m].data.who \in Clients \ {c}
  <2> SUFFICES ASSUME NEW m \in DOMAIN inbox
               PROVE  inbox[m] \in Packet /\ inbox[m].data.who \in Clients \ {c}
    OBVIOUS
  <2>1. inbox[m] \in Packet
    BY ElementOfSeq, LenProperties DEF Types
  <2>2. inbox[m].src = port[inbox[m].data.who] /\ inbox[m].src # NoPort
    BY DEF AddressInv
  <2> QED
    BY <1>3, <2>1, <2>2, PacketFacts
<1>5. Types'
  BY <1>1, <1>2 DEF Types
<1>6. ProcessInv'
  BY <1>2, <1>3, <1>5 DEF ProcessInv, Alive, Types
<1>7. AddressInv'
  <2>1. ASSUME NEW m \in DOMAIN inbox'
        PROVE  inbox'[m].src = port'[inbox'[m].data.who] /\ inbox'[m].src # NoPort
    BY <1>2, <1>3, <1>4 DEF AddressInv
  <2>2. ASSUME NEW o \in Clients, NEW m \in DOMAIN replies'[o]
        PROVE  port'[replies'[o][m].data.who] = port'[o]
    <3>1. replies[c] = << >>
      BY <1>2 DEF ProcessInv, Alive
    <3>2. o # c
      BY <2>2, <3>1, <1>2, EmptySeq
    <3>3. replies[o] \in Seq(Packet) /\ m \in DOMAIN replies[o]
      BY <1>2, <2>2 DEF Types
    <3>4. replies[o][m] \in Packet
      BY <3>3, ElementOfSeq, LenProperties
    <3>5. port[replies[o][m].data.who] = port[o] /\ replies[o][m].data.who \in Clients
      BY <3>3, <3>4, PacketFacts DEF AddressInv
    <3>6. Alive(o)
      BY <3>3, EmptySeq DEF ProcessInv
    <3>7. port[o] # NoPort
      BY <3>6 DEF ProcessInv, Alive
    <3>8. replies[o][m].data.who # c
      BY <3>5, <3>7, <1>3
    <3> QED
      BY <1>2, <1>3, <3>2, <3>5, <3>8
  <2> QED
    BY <2>1, <2>2 DEF AddressInv
<1>8. TableInv'
  <2>1. ASSUME NEW k \in DOMAIN table PROVE \E o \in Clients : port'[o] = table[k].port
    <3>1. table[k] \in Row
      BY <2>1, ElementOfSeq, LenProperties DEF Types
    <3>2. table[k].port \in Ports
      BY <3>1 DEF Row
    <3>3. PICK o \in Clients : port[o] = table[k].port
      BY <2>1 DEF TableInv
    <3>4. o # c
      BY <3>2, <3>3, <1>3
    <3> QED
      BY <3>3, <3>4, <1>3
  <2> QED
    BY <1>2, <2>1 DEF TableInv
<1>9. ShutdownInv'
  BY <1>2, <1>3, <1>4 DEF ShutdownInv, Alive
<1>10. StepInv'
  <2> SUFFICES ASSUME NEW o \in Clients, Alive(o)', Alone(o)'
               PROVE  InStep(o)'
    BY DEF StepInv
  <2>1. CASE o = c
    <3>1. replies[c] = << >> /\ lines[c] = 0 /\ Heard(c) = 0
      BY <1>2 DEF ProcessInv, Alive, Heard
    <3>2. Mine(c)' = {}
      BY <1>2, <1>4 DEF Mine
    <3>3. \A k \in DOMAIN table : table[k].port # p
      <4> SUFFICES ASSUME NEW k \in DOMAIN table, table[k].port = p
                   PROVE  FALSE
        OBVIOUS
      <4>1. PICK x \in Clients : port[x] = p
        BY DEF TableInv
      <4>2. x # c
        BY <4>1, <1>3
      <4> QED
        BY <4>1, <4>2, <1>3, <2>1 DEF Alone
    <3> QED
      BY <2>1, <3>1, <3>2, <3>3, <1>2, <1>3 DEF InStep, Counted, Heard
  <2>2. CASE o # c
    <3>1. Alive(o) /\ port'[o] = port[o] /\ pc'[o] = pc[o]
      BY <1>3, <2>2 DEF Alive
    <3>2. port[o] # NoPort
      BY <3>1 DEF ProcessInv, Alive
    <3>3. Alone(o)
      BY <1>3, <2>2, <3>1, <3>2 DEF Alone
    <3>4. InStep(o)
      BY <3>1, <3>3 DEF StepInv
    <3> QED
      BY <1>2, <3>1, <3>4 DEF InStep, Counted, Mine, Heard
  <2> QED
    BY <2>1, <2>2
<1> QED
  BY <1>5, <1>6, <1>7, <1>8, <1>9, <1>10

\* What the steps of a client but Start leave alone, and the steps that change neither
\* the inbox nor the table.
LEMMA QuietStep ==
    ASSUME IInv, NEW c \in Clients, Alive(c),
           UNCHANGED <<port, sent, inbox, table, up, lines, fresh>>,
           NEW where \in {"prompt", "leave", "gone"}, pc' = [pc EXCEPT ![c] = where],
           where = "prompt" => pc[c] = "wait" /\ replies[c] # << >> /\ silent' = silent
                               /\ replies' = [replies EXCEPT ![c] = Tail(@)],
           where = "leave" => pc[c] = "prompt" /\ replies' = replies /\ silent' = silent,
           where = "gone" => /\ silent' = silent \cup {c}
                             /\ replies' = [replies EXCEPT ![c] = << >>]
    PROVE  IInv'
<1> USE DEF IInv
<1>1. /\ pc'[c] = where /\ pc[c] # "off"
      /\ \A o \in Clients \ {c} : pc'[o] = pc[o] /\ replies'[o] = replies[o]
      /\ silent \subseteq silent'
  BY DEF Types, Alive
<1>2. replies[c] \in Seq(Packet)
  BY DEF Types
<1>3. /\ replies'[c] \in Seq(Packet)
      /\ replies'[c] = << >> \/ replies'[c] = replies[c] \/ replies'[c] = Tail(replies[c])
  <2>1. replies[c] # << >> => Tail(replies[c]) \in Seq(Packet)
    BY <1>2, HeadTailProperties
  <2> QED
    BY <1>2, <2>1, EmptySeq DEF Types
<1>4. Types'
  <2>1. replies' \in [Clients -> Seq(Packet)]
    BY <1>2, <1>3 DEF Types
  <2> QED
    BY <2>1 DEF Types
<1>5. ProcessInv'
  BY <1>1 DEF ProcessInv, Alive, Types
<1>6. AddressInv'
  <2>1. ASSUME NEW o \in Clients, NEW m \in DOMAIN replies'[o]
        PROVE  port[replies'[o][m].data.who] = port[o]
    <3>1. CASE o # c \/ replies'[c] = replies[c]
      BY <1>1, <2>1, <3>1 DEF AddressInv
    <3>2. CASE o = c /\ replies'[c] = << >>
      BY <2>1, <3>2, EmptySeq
    <3>3. CASE o = c /\ replies'[c] = Tail(replies[c]) /\ replies'[c] # << >> /\ where = "prompt"
      <4>1. replies[c] # << >>
        BY <3>3
      <4>2. m + 1 \in DOMAIN replies[c] /\ Tail(replies[c])[m] = replies[c][m + 1]
        BY <1>2, <2>1, <3>3, <4>1, TailFacts
      <4> QED
        BY <3>3, <4>2 DEF AddressInv
    <3>4. where # "prompt" => replies'[c] = << >> \/ replies'[c] = replies[c]
      BY DEF Types
    <3> QED
      BY <1>3, <3>1, <3>2, <3>3, <3>4
  <2> QED
    BY <2>1 DEF AddressInv
<1>7. TableInv'
  BY DEF TableInv
<1>8. ShutdownInv'
  <2> SUFFICES ASSUME NEW m \in DOMAIN inbox, inbox[m].src # ServerPort, ~ Alive(inbox[m].data.who)',
                      inbox[m].data.who \notin silent'
               PROVE  \E n \in DOMAIN inbox : /\ m <= n
                                              /\ inbox[n].data.kind = "SHUTDOWN"
                                              /\ inbox[n].data.who = inbox[m].data.who
    BY DEF ShutdownInv
  <2>1. inbox[m] \in Packet
    BY ElementOfSeq, LenProperties DEF Types
  <2>2. inbox[m].data.who \in Clients
    BY <2>1, PacketFacts
  <2>3. inbox[m].data.who # c
    BY <1>1 DEF Alive
  <2>4. ~ Alive(inbox[m].data.who) /\ inbox[m].data.who \notin silent
    BY <1>1, <2>2, <2>3 DEF Alive
  <2> QED
    BY <2>4 DEF ShutdownInv
<1>9. StepInv'
  <2> SUFFICES ASSUME NEW o \in Clients, Alive(o)', Alone(o)
               PROVE  InStep(o)'
    BY DEF StepInv, Alone
  <2>1. CASE o # c
    <3>1. Alive(o) /\ pc'[o] = pc[o] /\ replies'[o] = replies[o]
      BY <1>1, <2>1 DEF Alive
    <3>2. InStep(o)
      BY <3>1 DEF StepInv
    <3> QED
      BY <3>1, <3>2 DEF InStep, Counted, Mine, Heard
  <2>2. CASE o = c
    <3>1. InStep(c)
      BY <2>2 DEF StepInv
    <3>2. where # "gone"
      BY <1>1, <2>2 DEF Alive
    <3>3. CASE where = "leave"
      BY <1>1, <2>2, <3>1, <3>3 DEF InStep, Counted, Mine, Heard
    <3>4. CASE where = "prompt"
      <4>1. Len(replies[c]) = 1 /\ Mine(c) = {}
        BY <3>1, <3>4 DEF InStep
      <4>2. replies'[c] = Tail(replies[c]) /\ Len(Tail(replies[c])) = 0
        BY <1>2, <3>4, <4>1, HeadTailProperties DEF Types
      <4>3. replies'[c] = << >>
        BY <1>3, <4>2, EmptySeq
      <4>4. Counted(c, Heard(c))
        BY <3>1, <3>4 DEF InStep
      <4>5. Mine(c)' = Mine(c) /\ Counted(c, Heard(c))' = Counted(c, Heard(c))
        BY DEF Mine, Counted, Heard
      <4> QED
        BY <2>2, <4>1, <4>3, <4>4, <4>5 DEF InStep
    <3> QED
      BY <3>2, <3>3, <3>4
  <2> QED
    BY <2>1, <2>2
<1> QED
  BY <1>4, <1>5, <1>6, <1>7, <1>8, <1>9

\* A line, or the last SHUTDOWN, goes out to the server.
LEMMA SendStep ==
    ASSUME IInv, NEW c \in Clients, Alive(c), NEW kind \in {"text", "SHUTDOWN"}, NEW line \in Nat,
           NEW where, pc' = [pc EXCEPT ![c] = where], NEW missed,
           SendTo(Datagram(port[c], ServerPort, kind, c, line, 0), inbox, missed),
           UNCHANGED <<port, table, up>>,
           \/ /\ where = "wait" /\ pc[c] = "prompt" /\ line = sent[c] + 1
              /\ sent' = [sent EXCEPT ![c] = @ + 1] /\ silent' = silent
              /\ lines' = [lines EXCEPT ![c] = IF c \in fresh THEN 1 ELSE @ + 1]
              /\ fresh' = fresh \ {c}
           \/ /\ where = "gone" /\ kind = "SHUTDOWN" /\ UNCHANGED <<sent, lines, fresh>>
              /\ silent' = IF ServerPort \in missed THEN silent \cup {c} ELSE silent
    PROVE  IInv'
<1> USE DEF IInv
<1> DEFINE d == Datagram(port[c], ServerPort, kind, c, line, 0)
<1>1. /\ pc'[c] = where /\ pc[c] # "off" /\ where \in {"wait", "gone"}
      /\ \A o \in Clients \ {c} : pc'[o] = pc[o] /\ sent'[o] = sent[o] /\ lines'[o] = lines[o]
      /\ \A o \in Clients \ {c} : o \in fresh' <=> o \in fresh
      /\ silent \subseteq silent'
  BY DEF Types, Alive
<1>2. port[c] \in Ports /\ port[c] # NoPort
  BY <1>1, PortsAssumption DEF Types, ProcessInv
<1>3. /\ d \in Packet
      /\ d.src = port[c] /\ d.dst = ServerPort /\ d.data.kind = kind /\ d.data.who = c
      /\ d.data.line = line
      /\ ServerPort \in Hearers(d) <=> up
      /\ \A o \in Clients : o \in Hearers(d) <=> Alive(o) /\ ServerPort = port[o] /\ port[c] = ServerPort
  <2>1. port[c] \in Ports \cup {ServerPort} /\ ServerPort \in Ports \cup {ServerPort} /\ 0 \in Nat
    BY <1>2
  <2>2. /\ d \in Packet
        /\ d.src = port[c] /\ d.dst = ServerPort
        /\ d.data = [kind |-> kind, who |-> c, line |-> line, count |-> 0]
    BY <2>1 DEF Datagram, Packet, Data
  <2> HIDE DEF d
  <2> QED
    BY <2>2, HearersFacts
<1>4. SendTo(d, inbox, missed) /\ inbox \in Seq(Packet)
  BY DEF Types
<1> HIDE DEF d
<1>5. /\ missed \subseteq Hearers(d)
      /\ inbox' = IF ServerPort \in Hearers(d) \ missed THEN Append(inbox, d) ELSE inbox
      /\ inbox' \in Seq(Packet)
      /\ replies' \in [Clients -> Seq(Packet)]
      /\ \A o \in Clients : pc'[o] = "gone" => replies'[o] = << >>
      /\ \A o \in Clients : pc'[o] # "gone" =>
           replies'[o] = IF o \in Hearers(d) \ missed THEN Append(replies[o], d) ELSE replies[o]
  BY <1>3, <1>4, SendToFacts
<1>6. /\ Append(inbox, d) \in Seq(Packet)
      /\ Len(inbox) \in Nat /\ DOMAIN inbox = 1 .. Len(inbox)
      /\ DOMAIN Append(inbox, d) = 1 .. Len(inbox) + 1
      /\ \A m \in DOMAIN inbox : m \in DOMAIN Append(inbox, d) /\ Append(inbox, d)[m] = inbox[m]
      /\ \A m \in DOMAIN Append(inbox, d) : m \in DOMAIN inbox \/ m = Len(inbox) + 1
      /\ Append(inbox, d)[Len(inbox) + 1] = d
      /\ Append(inbox, d) # << >>
  BY <1>3, <1>4, AppendFacts
<1>7. /\ \A m \in DOMAIN inbox : m \in DOMAIN inbox' /\ inbox'[m] = inbox[m]
      /\ \A m \in DOMAIN inbox' : \/ m \in DOMAIN inbox
                                  \/ m = Len(inbox) + 1 /\ inbox'[m] = d /\ up /\ ServerPort \notin missed
  BY <1>3, <1>5, <1>6
<1>8. Types'
  <2>1. pc' \in [Clients -> {"off", "prompt", "wait", "leave", "gone"}]
    BY <1>1 DEF Types
  <2>2. sent' \in [Clients -> Nat]
    BY DEF Types
  <2>3. lines' \in [Clients -> Nat]
    <3>1. lines \in [Clients -> Nat] /\ (IF c \in fresh THEN 1 ELSE lines[c] + 1) \in Nat
      BY DEF Types
    <3>2. lines' = lines \/ lines' = [lines EXCEPT ![c] = IF c \in fresh THEN 1 ELSE lines[c] + 1]
      OBVIOUS
    <3> QED
      BY <3>1, <3>2
  <2> QED
    BY <1>5, <2>1, <2>2, <2>3 DEF Types
<1>9. ProcessInv'
  <2>1. \A o \in Clients : pc'[o] = "off" <=> port[o] = NoPort
    BY <1>1, <1>2 DEF ProcessInv
  <2>2. \A o \in Clients : pc'[o] = "off" => lines'[o] = 0
    BY <1>1 DEF ProcessInv
  <2>3. ASSUME NEW o \in Clients, ~ Alive(o)' PROVE replies'[o] = << >>
    <3>1. CASE pc'[o] = "gone"
      BY <1>5, <3>1
    <3>2. CASE pc'[o] # "gone"
      <4>1. ~ Alive(o) /\ replies[o] = << >>
        BY <1>1, <2>3, <3>2 DEF Alive, ProcessInv
      <4> QED
        BY <1>3, <1>5, <3>2, <4>1
    <3> QED
      BY <3>1, <3>2
  <2>4. up \/ (inbox' = << >> /\ table = << >>)
    BY <1>3, <1>5 DEF ProcessInv
  <2> QED
    BY <2>1, <2>2, <2>3, <2>4 DEF ProcessInv
<1>10. AddressInv'
  <2>1. ASSUME NEW m \in DOMAIN inbox'
        PROVE  inbox'[m].src = port[inbox'[m].data.who] /\ inbox'[m].src # NoPort
    BY <1>2, <1>3, <1>7 DEF AddressInv
  <2>2. ASSUME NEW o \in Clients, NEW m \in DOMAIN replies'[o]
        PROVE  port[replies'[o][m].data.who] = port[o]
    <3>1. pc'[o] # "gone"
      BY <1>5, <2>2, EmptySeq
    <3>2. CASE o \in Hearers(d) \ missed
      <4>1. replies[o] \in Seq(Packet)
        BY DEF Types
      <4>2. replies'[o] = Append(replies[o], d) /\ port[o] = port[c]
        BY <1>3, <1>5, <3>1, <3>2
      <4>3. \/ m \in DOMAIN replies[o] /\ replies'[o][m] = replies[o][m]
            \/ replies'[o][m] = d
        BY <1>3, <2>2, <4>1, <4>2, AppendFacts
      <4> QED
        BY <1>3, <4>2, <4>3 DEF AddressInv
    <3>3. CASE o \notin Hearers(d) \ missed
      BY <1>5, <2>2, <3>1, <3>3 DEF AddressInv
    <3> QED
      BY <3>2, <3>3
  <2> QED
    BY <2>1, <2>2 DEF AddressInv
<1>11. TableInv'
  BY DEF TableInv
<1>12. ShutdownInv'
  <2> SUFFICES ASSUME NEW m \in DOMAIN inbox', inbox'[m].src # ServerPort,
                      ~ Alive(inbox[m].data.who)', inbox'[m].data.who \notin silent'
               PROVE  \E n \in DOMAIN inbox' : /\ m <= n
                                               /\ inbox'[n].data.kind = "SHUTDOWN"
                                               /\ inbox'[n].data.who = inbox'[m].data.who
    BY DEF ShutdownInv
  <2>1. CASE inbox'[m].data.who = c
    <3>1. where = "gone" /\ ServerPort \notin missed
      BY <1>1, <2>1 DEF Alive
    <3>2. up
      BY <1>5, <1>3, EmptySeq DEF ProcessInv
    <3>3. inbox' = Append(inbox, d)
      BY <1>3, <1>5, <3>1, <3>2
    <3>4. Len(inbox) + 1 \in DOMAIN inbox' /\ m <= Len(inbox) + 1
      BY <1>6, <3>3
    <3> QED
      BY <1>3, <1>6, <2>1, <3>1, <3>3, <3>4
  <2>2. CASE inbox'[m].data.who # c
    <3>1. m \in DOMAIN inbox /\ inbox'[m] = inbox[m]
      BY <1>3, <1>7, <2>2
    <3>2. inbox[m].data.who \in Clients \ {c}
      BY <1>4, <2>2, <3>1, ElementOfSeq, LenProperties, PacketFacts
    <3>3. ~ Alive(inbox[m].data.who) /\ inbox[m].data.who \notin silent
      BY <1>1, <3>1, <3>2 DEF Alive
    <3>4. PICK n \in DOMAIN inbox : /\ m <= n
                                   /\ inbox[n].data.kind = "SHUTDOWN"
                                   /\ inbox[n].data.who = inbox[m].data.who
      BY <3>1, <3>3 DEF ShutdownInv
    <3> QED
      BY <1>7, <3>1, <3>4
  <2> QED
    BY <2>1, <2>2
<1>13. StepInv'
  <2> SUFFICES ASSUME NEW o \in Clients, Alive(o)', Alone(o)
               PROVE  InStep(o)'
    BY DEF StepInv, Alone
  <2>1. /\ \A n : Counted(o, n)' = Counted(o, n)
        /\ replies'[o] = replies[o] /\ port[o] # ServerPort /\ pc'[o] # "gone"
    <3>1. port[o] # ServerPort /\ pc'[o] # "gone"
      BY DEF Alone, Alive
    <3> QED
      BY <1>3, <1>5, <3>1 DEF Counted
  <2>2. CASE o # c
    <3>1. Alive(o) /\ pc'[o] = pc[o] /\ sent'[o] = sent[o] /\ lines'[o] = lines[o]
          /\ (o \in fresh' <=> o \in fresh) /\ Heard(o)' = Heard(o)
      BY <1>1, <2>2 DEF Alive, Heard
    <3>2. InStep(o)
      BY <3>1 DEF StepInv
    <3>3. Mine(o)' = Mine(o) /\ \A m \in Mine(o) : inbox'[m] = inbox[m]
      <4>1. \A m \in DOMAIN inbox' : inbox'[m].data.who = o =>
                                      m \in DOMAIN inbox /\ inbox[m].data.who = o
        BY <1>3, <1>7, <2>2
      <4> QED
        BY <1>7, <4>1 DEF Mine
    <3> QED
      BY <2>1, <3>1, <3>2, <3>3 DEF InStep
  <2>3. CASE o = c
    <3>1. /\ where = "wait" /\ pc[c] = "prompt" /\ line = sent[c] + 1
          /\ sent'[c] = sent[c] + 1 /\ sent[c] \in Nat
          /\ c \notin fresh' /\ lines'[c] = Heard(c) + 1 /\ Heard(c) \in Nat
      BY <1>1, <2>3 DEF Alive, Types, Heard
    <3>2. InStep(c)
      BY <2>3 DEF StepInv
    <3>3. Mine(c) = {} /\ replies[c] = << >> /\ Counted(c, Heard(c))
      BY <3>1, <3>2 DEF InStep
    <3>4. \A m \in Mine(c)' : m = Len(inbox) + 1 /\ inbox'[m] = d /\ up
      <4> SUFFICES ASSUME NEW m \in DOMAIN inbox', inbox'[m].data.who = c
                   PROVE  m = Len(inbox) + 1 /\ inbox'[m] = d /\ up
        BY DEF Mine
      <4>1. m \notin DOMAIN inbox
        BY <1>7, <3>3 DEF Mine
      <4> QED
        BY <1>7, <4>1
    <3>5. lines'[c] - 1 = Heard(c) /\ lines'[c] > 0
      BY <3>1
    <3>6. pc'[c] = "wait" /\ replies'[c] = << >>
      BY <1>1, <2>1, <2>3, <3>1, <3>3
    <3>7. Mine(c)' # {} => c \notin fresh' /\ Counted(c, lines[c] - 1)' /\ lines'[c] > 0
      BY <2>1, <2>3, <3>1, <3>3, <3>4, <3>5
    <3>8. \A m \in Mine(c)' : inbox'[m].data.line = sent'[c]
      BY <1>3, <3>1, <3>4
    <3>9. \A m, n \in Mine(c)' : m = n
      BY <3>4
    <3> QED
      BY <2>3, <3>6, <3>7, <3>8, <3>9 DEF InStep
  <2> QED
    BY <2>2, <2>3
<1> QED
  BY <1>8, <1>9, <1>10, <1>11, <1>12, <1>13

-----------------------------------------------------------------------------
(* The steps of the server.                                                 *)

LEMMA HeadFacts ==
    ASSUME IInv, inbox # << >>
    PROVE  /\ 1 \in DOMAIN inbox /\ Head(inbox) = inbox[1] /\ Head(inbox) \in Packet
           /\ Head(inbox).src = port[Head(inbox).data.who] /\ Head(inbox).src \in Ports
           /\ Head(inbox).data.who \in Clients
           /\ Tail(inbox) \in Seq(Packet)
           /\ DOMAIN Tail(inbox) = 1 .. Len(inbox) - 1
           /\ \A m \in DOMAIN Tail(inbox) : m + 1 \in DOMAIN inbox /\ Tail(inbox)[m] = inbox[m + 1]
           /\ \A m \in DOMAIN inbox :
                m # 1 => m - 1 \in DOMAIN Tail(inbox) /\ Tail(inbox)[m - 1] = inbox[m]
<1> USE DEF IInv
<1>1. inbox \in Seq(Packet)
  BY DEF Types
<1>2. /\ 1 \in DOMAIN inbox /\ Head(inbox) = inbox[1] /\ Head(inbox) \in Packet
      /\ Tail(inbox) \in Seq(Packet)
      /\ DOMAIN Tail(inbox) = 1 .. Len(inbox) - 1
      /\ \A m \in DOMAIN Tail(inbox) : m + 1 \in DOMAIN inbox /\ Tail(inbox)[m] = inbox[m + 1]
      /\ \A m \in DOMAIN inbox :
           m # 1 => m - 1 \in DOMAIN Tail(inbox) /\ Tail(inbox)[m - 1] = inbox[m]
  BY <1>1, TailFacts
<1>3. /\ Head(inbox).src = port[Head(inbox).data.who] /\ Head(inbox).src # NoPort
      /\ Head(inbox).data.who \in Clients
  BY <1>2, PacketFacts DEF AddressInv
<1>4. Head(inbox).src \in Ports
  BY <1>3 DEF Types
<1> QED
  BY <1>2, <1>3, <1>4

LEMMA KnownFacts ==
    ASSUME IInv, NEW p \in Ports
    PROVE  /\ Known(p) \in Seq(Row)
           /\ \A j, k \in DOMAIN Known(p) : Known(p)[j].port = Known(p)[k].port => j = k
           /\ \A k \in DOMAIN table : k \in DOMAIN Known(p) /\ Known(p)[k] = table[k]
           /\ \A k \in DOMAIN Known(p) : k \in DOMAIN table
                \/ (Entry(table, p) = {} /\ Known(p)[k] = [port |-> p, counter |-> 0])
<1> USE DEF IInv
<1>1. table \in Seq(Row)
  BY DEF Types
<1>2. CASE Known(p) = table
  BY <1>1, <1>2 DEF TableInv
<1> DEFINE r == [port |-> p, counter |-> 0]
<1>3. CASE Known(p) = Append(table, r) /\ Entry(table, p) = {}
  <2>1. r \in Row
    BY DEF Row
  <2> HIDE DEF r
  <2>2. /\ Append(table, r) \in Seq(Row)
        /\ Len(table) \in Nat /\ DOMAIN table = 1 .. Len(table)
        /\ DOMAIN Append(table, r) = 1 .. Len(table) + 1
        /\ \A m \in DOMAIN table : m \in DOMAIN Append(table, r) /\ Append(table, r)[m] = table[m]
        /\ \A m \in DOMAIN Append(table, r) : m \in DOMAIN table \/ m = Len(table) + 1
        /\ Append(table, r)[Len(table) + 1] = r
    BY <1>1, <2>1, AppendFacts
  <2>3. \A k \in DOMAIN table : table[k].port # p
    BY <1>3 DEF Entry
  <2>4. r.port = p
    BY DEF r
  <2>5. \A j, k \in DOMAIN Known(p) : Known(p)[j].port = Known(p)[k].port => j = k
    BY <1>3, <2>2, <2>3, <2>4 DEF TableInv
  <2> QED
    BY <1>3, <2>2, <2>5 DEF r
<1> QED
  BY <1>2, <1>3 DEF Known

\* The head of the inbox is taken without an answer; rows of its port may go.
LEMMA TakeStep ==
    ASSUME IInv, up, inbox # << >>, inbox' = Tail(inbox),
           UNCHANGED <<pc, port, sent, replies, up, silent, lines, fresh>>,
           table' \in Seq(Row),
           \A j, k \in DOMAIN table' : table'[j].port = table'[k].port => j = k,
           \A k \in DOMAIN table' : \E j \in DOMAIN table : table'[k] = table[j],
           \A j \in DOMAIN table : table[j].port # Head(inbox).src =>
                                    \E k \in DOMAIN table' : table'[k] = table[j]
    PROVE  IInv'
<1> USE DEF IInv
<1>1. /\ 1 \in DOMAIN inbox /\ Head(inbox) = inbox[1] /\ Head(inbox) \in Packet
      /\ Head(inbox).src = port[Head(inbox).data.who] /\ Head(inbox).src \in Ports
      /\ Head(inbox).data.who \in Clients
      /\ inbox' \in Seq(Packet)
      /\ DOMAIN inbox \subseteq Nat
      /\ DOMAIN inbox' \subseteq Nat
      /\ \A m \in DOMAIN inbox' : m + 1 \in DOMAIN inbox /\ inbox'[m] = inbox[m + 1]
      /\ \A m \in DOMAIN inbox : m # 1 => m - 1 \in DOMAIN inbox' /\ inbox'[m - 1] = inbox[m]
  BY HeadFacts, LenProperties DEF Types
<1>2. Types'
  BY <1>1 DEF Types
<1>3. ProcessInv'
  BY DEF ProcessInv, Alive
<1>4. AddressInv'
  BY <1>1 DEF AddressInv
<1>5. TableInv'
  BY DEF TableInv
<1>6. ShutdownInv'
  <2> SUFFICES ASSUME NEW m \in DOMAIN inbox', inbox'[m].src # ServerPort,
                      ~ Alive(inbox'[m].data.who), inbox'[m].data.who \notin silent
               PROVE  \E n \in DOMAIN inbox' : /\ m <= n
                                               /\ inbox'[n].data.kind = "SHUTDOWN"
                                               /\ inbox'[n].data.who = inbox'[m].data.who
    BY DEF ShutdownInv, Alive
  <2>1. m + 1 \in DOMAIN inbox /\ inbox'[m] = inbox[m + 1]
    BY <1>1
  <2>2. PICK n \in DOMAIN inbox : /\ m + 1 <= n
                                 /\ inbox[n].data.kind = "SHUTDOWN"
                                 /\ inbox[n].data.who = inbox[m + 1].data.who
    BY <2>1 DEF ShutdownInv
  <2>3. n - 1 \in DOMAIN inbox' /\ inbox'[n - 1] = inbox[n] /\ m <= n - 1
    <3>1. n # 1 /\ m \in Nat /\ n \in Nat
      BY <1>1, <2>2
    <3> QED
      BY <1>1, <2>2, <3>1
  <2> QED
    BY <2>1, <2>2, <2>3
<1>7. StepInv'
  <2> SUFFICES ASSUME NEW o \in Clients, Alive(o), Alone(o)
               PROVE  InStep(o)'
    BY DEF StepInv, Alone, Alive
  <2>1. InStep(o)
    BY DEF StepInv
  <2>2. /\ \A m \in Mine(o)' : m + 1 \in Mine(o) /\ inbox'[m] = inbox[m + 1] /\ m \in Nat
        /\ Mine(o) = {} => Mine(o)' = {}
    BY <1>1 DEF Mine
  <2>3. /\ \A m \in Mine(o)' : inbox'[m].data.line = sent[o]
        /\ \A m, n \in Mine(o)' : m = n
    <3>1. sent' = sent /\ \A m \in Mine(o) : inbox[m].data.line = sent[o]
      BY <2>1 DEF InStep
    <3>2. ASSUME NEW m \in Mine(o)' PROVE inbox'[m].data.line = sent[o]
      <4>1. m + 1 \in Mine(o) /\ inbox'[m] = inbox[m + 1]
        BY <2>2, <3>2
      <4>2. inbox[m + 1].data.line = sent[o]
        BY <3>1, <4>1
      <4> QED
        BY <4>1, <4>2
    <3>3. ASSUME NEW m \in Mine(o)', NEW n \in Mine(o)' PROVE m = n
      <4>1. m + 1 \in Mine(o) /\ n + 1 \in Mine(o) /\ m \in Nat /\ n \in Nat
        BY <2>2, <3>3
      <4>2. m + 1 = n + 1
        BY <2>1, <4>1 DEF InStep
      <4> QED
        BY <4>1, <4>2
    <3> QED
      BY <3>2, <3>3
  <2>4. CASE port[o] = Head(inbox).src
    <3>1. Head(inbox).data.who = o
      BY <1>1, <2>4 DEF Alone
    <3>2. 1 \in Mine(o)
      BY <1>1, <3>1 DEF Mine
    <3>3. Mine(o)' = {}
      <4>1. ASSUME NEW m \in Mine(o)' PROVE FALSE
        <5>1. m + 1 = 1 /\ m \in Nat /\ m # 0
          BY <1>1, <2>1, <2>2, <3>2, <4>1, LenProperties DEF InStep, Mine
        <5> QED
          BY <5>1
      <4> QED
        BY <4>1
    <3>4. pc[o] = "wait" /\ replies[o] = << >>
      BY <2>1, <3>2 DEF InStep
    <3> QED
      BY <3>3, <3>4 DEF InStep
  <2>5. CASE port[o] # Head(inbox).src
    <3>1. \A n : Counted(o, n) => Counted(o, n)'
      BY <2>5 DEF Counted
    <3> QED
      BY <2>1, <2>2, <2>3, <3>1 DEF InStep, Heard
  <2> QED
    BY <2>4, <2>5
<1> QED
  BY <1>2, <1>3, <1>4, <1>5, <1>6, <1>7

LEMMA DropDatagramStep ==
    ASSUME IInv, DropDatagram
    PROVE  IInv'
<1>1. /\ up /\ inbox # << >> /\ inbox' = Tail(inbox)
      /\ UNCHANGED <<pc, port, sent, replies, up, silent, table, lines, fresh>>
  BY DEF DropDatagram, serverVars, servers
<1>2. /\ table \in Seq(Row)
      /\ \A j, k \in DOMAIN table : table[j].port = table[k].port => j = k
  BY DEF IInv, Types, TableInv
<1> QED
  BY <1>1, <1>2, TakeStep

\* remove_client takes out the one row of the port.
LEMMA RemoveFacts ==
    ASSUME IInv, NEW p \in Ports, Entry(Known(p), p) # {}, NEW T, T = RemoveClient(Known(p), p)
    PROVE  /\ T \in Seq(Row)
           /\ \A j, k \in DOMAIN T : T[j].port = T[k].port => j = k
           /\ \A k \in DOMAIN T : T[k].port # p /\ \E j \in DOMAIN table : T[k] = table[j]
           /\ \A j \in DOMAIN table : table[j].port # p => \E k \in DOMAIN T : T[k] = table[j]
<1> DEFINE i == CHOOSE k \in Entry(Known(p), p) : \A j \in Entry(Known(p), p) : k <= j
<1>1. T = RemoveAt(Known(p), i)
  BY DEF RemoveClient
<1>3. /\ Known(p) \in Seq(Row)
      /\ \A j, k \in DOMAIN Known(p) : Known(p)[j].port = Known(p)[k].port => j = k
      /\ \A k \in DOMAIN table : k \in DOMAIN Known(p) /\ Known(p)[k] = table[k]
      /\ \A k \in DOMAIN Known(p) : k \in DOMAIN table
           \/ (Entry(table, p) = {} /\ Known(p)[k] = [port |-> p, counter |-> 0])
  BY KnownFacts
<1>4. DOMAIN Known(p) = 1 .. Len(Known(p)) /\ Len(Known(p)) \in Nat
  BY <1>3, LenProperties
<1>5. i \in DOMAIN Known(p) /\ Known(p)[i].port = p
  <2>1. PICK k \in Entry(Known(p), p) : TRUE
    BY <1>1
  <2>2. \A j \in Entry(Known(p), p) : j = k /\ k <= j
    BY <1>3, <1>4, <2>1 DEF Entry
  <2>3. i \in Entry(Known(p), p)
    BY <2>1, <2>2
  <2> QED
    BY <2>3 DEF Entry
<1> HIDE DEF i
<1>6. /\ T \in Seq(Row)
      /\ DOMAIN T = 1 .. Len(Known(p)) - 1
      /\ \A j \in DOMAIN T : T[j] = IF j < i THEN Known(p)[j] ELSE Known(p)[j + 1]
  BY <1>1, <1>3, <1>5, RemoveAtFacts
<1>7. \A j \in DOMAIN T : /\ j \in Nat
                              /\ (IF j < i THEN j ELSE j + 1) \in DOMAIN Known(p) \ {i}
                              /\ T[j] = Known(p)[IF j < i THEN j ELSE j + 1]
  BY <1>4, <1>5, <1>6
<1>8. \A j, k \in DOMAIN T : T[j].port = T[k].port => j = k
  <2> SUFFICES ASSUME NEW j \in DOMAIN T, NEW k \in DOMAIN T,
                      T[j].port = T[k].port
               PROVE  j = k
    OBVIOUS
  <2>1. (IF j < i THEN j ELSE j + 1) = (IF k < i THEN k ELSE k + 1)
    BY <1>3, <1>7
  <2> QED
    BY <1>4, <1>5, <1>7, <2>1
<1>9. \A k \in DOMAIN T : T[k].port # p /\ \E j \in DOMAIN table : T[k] = table[j]
  <2> SUFFICES ASSUME NEW k \in DOMAIN T
               PROVE  T[k].port # p /\ \E j \in DOMAIN table : T[k] = table[j]
    OBVIOUS
  <2>1. PICK j \in DOMAIN Known(p) : j # i /\ T[k] = Known(p)[j]
    BY <1>7
  <2>2. Known(p)[j].port # p
    BY <1>3, <1>5, <2>1
  <2>3. j \in DOMAIN table
    BY <1>3, <2>2
  <2> QED
    BY <1>3, <2>1, <2>2, <2>3
<1>10. \A j \in DOMAIN table : table[j].port # p => \E k \in DOMAIN T : T[k] = table[j]
  <2> SUFFICES ASSUME NEW j \in DOMAIN table, table[j].port # p
               PROVE  \E k \in DOMAIN T : T[k] = table[j]
    OBVIOUS
  <2>1. j \in DOMAIN Known(p) /\ Known(p)[j] = table[j] /\ j # i
    BY <1>3, <1>5
  <2>2. CASE j < i
    <3>1. j \in DOMAIN T /\ T[j] = Known(p)[j]
      BY <1>4, <1>5, <1>6, <2>1, <2>2
    <3> QED
      BY <2>1, <3>1
  <2>3. CASE ~ (j < i)
    <3>1. j - 1 \in DOMAIN T /\ ~ (j - 1 < i) /\ (j - 1) + 1 = j
      BY <1>4, <1>5, <1>6, <2>1, <2>3
    <3>2. T[j - 1] = Known(p)[j]
      BY <1>6, <3>1
    <3> QED
      BY <2>1, <3>1, <3>2
  <2> QED
    BY <2>2, <2>3
<1> QED
  BY <1>6, <1>8, <1>9, <1>10

LEMMA HandleShutdownStep ==
    ASSUME IInv, HandleShutdown
    PROVE  IInv'
<1>1. /\ up /\ inbox # << >> /\ inbox' = Tail(inbox)
      /\ UNCHANGED <<pc, port, sent, replies, up, silent, lines, fresh>>
      /\ Entry(Known(Head(inbox).src), Head(inbox).src) # {}
      /\ table' = RemoveClient(Known(Head(inbox).src), Head(inbox).src)
  BY DEF HandleShutdown, history, servers
<1>2. Head(inbox).src \in Ports
  BY <1>1, HeadFacts
<1>3. /\ table' \in Seq(Row)
      /\ \A j, k \in DOMAIN table' : table'[j].port = table'[k].port => j = k
      /\ \A k \in DOMAIN table' : \E j \in DOMAIN table : table'[k] = table[j]
      /\ \A j \in DOMAIN table : table[j].port # Head(inbox).src =>
                                 \E k \in DOMAIN table' : table'[k] = table[j]
  BY <1>1, <1>2, RemoveFacts
<1> QED
  BY <1>1, <1>3, TakeStep

\* An answer goes out for the head of the inbox, with the row's count one higher.
LEMMA AnswerStep ==
    ASSUME IInv, up, inbox # << >>, Head(inbox).data.kind = "text",
           UNCHANGED <<pc, port, sent, up, silent, lines, fresh>>,
           NEW k \in Entry(Known(Head(inbox).src), Head(inbox).src),
           ~ EndOfCircle(Known(Head(inbox).src), k, Head(inbox).data),
           table' = [Known(Head(inbox).src) EXCEPT ![k].counter = @ + 1],
           NEW missed,
           SendTo(Datagram(ServerPort, Head(inbox).src, "text", Head(inbox).data.who,
                           Head(inbox).data.line, Known(Head(inbox).src)[k].counter + 1),
                  Tail(inbox), missed)
    PROVE  IInv'
<1> DEFINE p == Head(inbox).src
           said == Head(inbox).data
           d == Datagram(ServerPort, p, "text", said.who, said.line, Known(p)[k].counter + 1)
<1>1. /\ 1 \in DOMAIN inbox /\ Head(inbox) = inbox[1] /\ Head(inbox) \in Packet
      /\ p = port[said.who] /\ p \in Ports
      /\ said.who \in Clients /\ said.line \in Nat
      /\ Tail(inbox) \in Seq(Packet)
      /\ \A m \in DOMAIN Tail(inbox) : m + 1 \in DOMAIN inbox /\ Tail(inbox)[m] = inbox[m + 1]
      /\ \A m \in DOMAIN inbox :
           m # 1 => m - 1 \in DOMAIN Tail(inbox) /\ Tail(inbox)[m - 1] = inbox[m]
  BY HeadFacts, PacketFacts
<1>2. /\ DOMAIN inbox \subseteq Nat /\ DOMAIN Tail(inbox) \subseteq Nat \ {0}
      /\ DOMAIN Tail(inbox) = 1 .. Len(Tail(inbox)) /\ Len(Tail(inbox)) \in Nat
  BY <1>1, LenProperties DEF IInv, Types
<1>3. /\ Known(p) \in Seq(Row)
      /\ \A i, j \in DOMAIN Known(p) : Known(p)[i].port = Known(p)[j].port => i = j
      /\ \A j \in DOMAIN table : j \in DOMAIN Known(p) /\ Known(p)[j] = table[j]
      /\ \A j \in DOMAIN Known(p) : j \in DOMAIN table
           \/ (Entry(table, p) = {} /\ Known(p)[j] = [port |-> p, counter |-> 0])
  BY <1>1, KnownFacts
<1>4. /\ k \in DOMAIN Known(p) /\ Known(p)[k].port = p
      /\ \A j \in DOMAIN Known(p) : Known(p)[j] \in Row
  BY <1>3, ElementOfSeq, LenProperties DEF Entry
<1>5. /\ Known(p)[k].counter \in Nat
      /\ Known(p)[k] = [port |-> p, counter |-> Known(p)[k].counter]
  BY <1>4 DEF Row
<1>6. /\ table' \in Seq(Row) /\ DOMAIN table' = DOMAIN Known(p)
      /\ table'[k] = [port |-> p, counter |-> Known(p)[k].counter + 1]
      /\ \A j \in DOMAIN Known(p) \ {k} : table'[j] = Known(p)[j]
  <2> DEFINE r == [port |-> p, counter |-> Known(p)[k].counter + 1]
  <2>1. r \in Row
    BY <1>1, <1>5 DEF Row
  <2>2. table' = [Known(p) EXCEPT ![k] = r]
    BY <1>4, <1>5
  <2>3. k \in 1 .. Len(Known(p))
    BY <1>3, <1>4, LenProperties
  <2> HIDE DEF r
  <2>4. [Known(p) EXCEPT ![k] = r] \in Seq(Row)
    BY <1>3, <2>1, <2>3, ExceptSeq
  <2>5. r = [port |-> p, counter |-> Known(p)[k].counter + 1]
    BY DEF r
  <2> QED
    BY <1>4, <2>2, <2>4, <2>5
<1>7. \A j \in DOMAIN table' : table'[j].port = Known(p)[j].port
  BY <1>4, <1>6
<1>8. /\ d \in Packet
      /\ d.src = ServerPort /\ d.dst = p
      /\ d.data = [kind |-> "text", who |-> said.who, line |-> said.line,
                   count |-> Known(p)[k].counter + 1]
  BY <1>1, <1>5 DEF Datagram, Packet, Data
<1>9. SendTo(d, Tail(inbox), missed)
  OBVIOUS
<1> HIDE DEF d, p, said
<1> USE DEF IInv
<1>10. /\ ServerPort \in Hearers(d) <=> p = ServerPort
       /\ \A c \in Clients : c \in Hearers(d) <=> (Alive(c) /\ p = port[c])
  BY <1>8, HearersFacts
<1>11. /\ missed \subseteq Hearers(d)
       /\ inbox' = IF ServerPort \in Hearers(d) \ missed THEN Append(Tail(inbox), d) ELSE Tail(inbox)
       /\ inbox' \in Seq(Packet)
       /\ replies' \in [Clients -> Seq(Packet)]
       /\ \A o \in Clients : pc'[o] = "gone" => replies'[o] = << >>
       /\ \A o \in Clients : pc'[o] # "gone" =>
            replies'[o] = IF o \in Hearers(d) \ missed THEN Append(replies[o], d) ELSE replies[o]
  BY <1>1, <1>8, <1>9, SendToFacts
<1>12. /\ \A m \in DOMAIN Tail(inbox) :
            m \in DOMAIN Append(Tail(inbox), d) /\ Append(Tail(inbox), d)[m] = Tail(inbox)[m]
       /\ \A m \in DOMAIN Append(Tail(inbox), d) : m \in DOMAIN Tail(inbox) \/ m = Len(Tail(inbox)) + 1
       /\ Append(Tail(inbox), d)[Len(Tail(inbox)) + 1] = d
  BY <1>1, <1>8, AppendFacts
<1>13. /\ \A m \in DOMAIN Tail(inbox) : m \in DOMAIN inbox' /\ inbox'[m] = Tail(inbox)[m]
       /\ \A m \in DOMAIN inbox' :
            \/ m \in DOMAIN Tail(inbox)
            \/ inbox'[m] = d /\ p = ServerPort
  BY <1>10, <1>11, <1>12
<1>14. Types'
  BY <1>6, <1>11 DEF Types
<1>15. ProcessInv'
  <2>1. \A o \in Clients : Alive(o)' \/ replies'[o] = << >>
    BY <1>10, <1>11 DEF ProcessInv, Alive
  <2> QED
    BY <2>1 DEF ProcessInv
<1>16. AddressInv'
  <2>1. ASSUME NEW m \in DOMAIN inbox'
        PROVE  inbox'[m].src = port[inbox'[m].data.who] /\ inbox'[m].src # NoPort
    <3>1. CASE m \in DOMAIN Tail(inbox)
      BY <1>1, <1>13, <3>1 DEF AddressInv
    <3>2. CASE inbox'[m] = d /\ p = ServerPort
      <4>1. d.src = ServerPort /\ d.data.who = said.who
        BY <1>8
      <4>2. port[said.who] = ServerPort /\ ServerPort # NoPort
        BY <1>1, <3>2, PortsAssumption
      <4> QED
        BY <3>2, <4>1, <4>2
    <3> QED
      BY <1>13, <3>1, <3>2
  <2>2. ASSUME NEW o \in Clients, NEW m \in DOMAIN replies'[o]
        PROVE  port[replies'[o][m].data.who] = port[o]
    <3>1. pc[o] # "gone"
      BY <1>11, <2>2, EmptySeq
    <3>2. CASE o \in Hearers(d) \ missed
      <4>1. replies[o] \in Seq(Packet)
        BY DEF Types
      <4>2. replies'[o] = Append(replies[o], d) /\ port[o] = p
        BY <1>10, <1>11, <3>1, <3>2
      <4>3. \/ m \in DOMAIN replies[o] /\ replies'[o][m] = replies[o][m]
            \/ replies'[o][m] = d
        BY <1>8, <2>2, <4>1, <4>2, AppendFacts
      <4> QED
        BY <1>1, <1>8, <4>2, <4>3 DEF AddressInv
    <3>3. CASE o \notin Hearers(d) \ missed
      BY <1>11, <2>2, <3>1, <3>3 DEF AddressInv
    <3> QED
      BY <3>2, <3>3
  <2> QED
    BY <2>1, <2>2 DEF AddressInv
<1>17. TableInv'
  <2>1. ASSUME NEW j \in DOMAIN table' PROVE \E c \in Clients : port[c] = table'[j].port
    <3>1. CASE j \in DOMAIN table
      BY <1>3, <1>7, <3>1 DEF TableInv
    <3>2. CASE Known(p)[j] = [port |-> p, counter |-> 0]
      BY <1>1, <1>7, <3>2
    <3> QED
      BY <1>3, <1>6, <3>1, <3>2
  <2>2. \A i, j \in DOMAIN table' : table'[i].port = table'[j].port => i = j
    BY <1>3, <1>6, <1>7
  <2> QED
    BY <2>1, <2>2 DEF TableInv
<1>18. ShutdownInv'
  <2> SUFFICES ASSUME NEW m \in DOMAIN inbox', inbox'[m].src # ServerPort,
                      ~ Alive(inbox[m].data.who)', inbox'[m].data.who \notin silent
               PROVE  \E n \in DOMAIN inbox' : /\ m <= n
                                               /\ inbox'[n].data.kind = "SHUTDOWN"
                                               /\ inbox'[n].data.who = inbox'[m].data.who
    BY DEF ShutdownInv, Alive
  <2>1. m \in DOMAIN Tail(inbox)
    BY <1>8, <1>13
  <2>2. m + 1 \in DOMAIN inbox /\ inbox'[m] = inbox[m + 1]
    BY <1>1, <1>13, <2>1
  <2>3. PICK n \in DOMAIN inbox : /\ m + 1 <= n
                                 /\ inbox[n].data.kind = "SHUTDOWN"
                                 /\ inbox[n].data.who = inbox[m + 1].data.who
    BY <2>2 DEF ShutdownInv, Alive
  <2>4. n # 1 /\ m \in Nat /\ n \in Nat
    BY <1>2, <2>1, <2>3
  <2>5. n - 1 \in DOMAIN Tail(inbox) /\ Tail(inbox)[n - 1] = inbox[n] /\ m <= n - 1
    BY <1>1, <2>3, <2>4
  <2>6. n - 1 \in DOMAIN inbox' /\ inbox'[n - 1] = inbox[n]
    BY <1>13, <2>5
  <2> QED
    BY <2>2, <2>3, <2>5, <2>6
<1>19. StepInv'
  <2> SUFFICES ASSUME NEW o \in Clients, Alive(o), Alone(o)
               PROVE  InStep(o)'
    BY DEF StepInv, Alone, Alive
  <2>1. InStep(o)
    BY DEF StepInv
  <2>2. \A m \in Mine(o)' : m \in DOMAIN Tail(inbox) /\ m + 1 \in Mine(o) /\ inbox'[m] = inbox[m + 1]
    <3> SUFFICES ASSUME NEW m \in DOMAIN inbox', inbox'[m].data.who = o
                 PROVE  m \in DOMAIN Tail(inbox) /\ m + 1 \in Mine(o) /\ inbox'[m] = inbox[m + 1]
      BY DEF Mine
    <3>1. ~ (inbox'[m] = d /\ p = ServerPort)
      BY <1>1, <1>8 DEF Alone
    <3> QED
      BY <1>1, <1>13, <3>1 DEF Mine
  <2>3. CASE port[o] = p
    <3>1. said.who = o
      BY <1>1, <2>3 DEF Alone
    <3>2. 1 \in Mine(o)
      BY <1>1, <3>1 DEF Mine, said
    <3>3. /\ pc[o] = "wait" /\ replies[o] = << >> /\ said.line = sent[o]
          /\ o \notin fresh /\ Counted(o, lines[o] - 1) /\ lines[o] > 0 /\ lines[o] \in Nat
      BY <1>1, <2>1, <3>2 DEF InStep, Types, said
    <3>4. Mine(o)' = {}
      <4>1. ASSUME NEW m \in Mine(o)' PROVE FALSE
        <5>1. m + 1 = 1 /\ m \in Nat \ {0}
          BY <1>2, <2>1, <2>2, <3>2, <4>1 DEF InStep
        <5> QED
          BY <5>1
      <4> QED
        BY <4>1
    <3>5. Known(p)[k].counter = lines[o] - 1
      <4>1. CASE k \in DOMAIN table
        BY <1>3, <1>4, <2>3, <3>3, <4>1 DEF Counted
      <4>2. CASE Entry(table, p) = {} /\ Known(p)[k] = [port |-> p, counter |-> 0]
        <5>1. ~ \E j \in DOMAIN table : table[j].port = port[o]
          BY <2>3, <4>2 DEF Entry
        <5>2. ~ (lines[o] - 1 > 0)
          BY <3>3, <5>1 DEF Counted
        <5> QED
          BY <3>3, <4>2, <5>2
      <4> QED
        BY <1>3, <1>4, <4>1, <4>2
    <3>6. Known(p)[k].counter + 1 = lines[o]
      BY <3>3, <3>5
    <3>7. \A j \in DOMAIN table' : table'[j].port = port[o] => table'[j].counter = lines[o]
      <4>1. \A j \in DOMAIN table' : table'[j].port = port[o] => j = k
        BY <1>3, <1>4, <1>6, <1>7, <2>3
      <4> QED
        BY <1>6, <3>6, <4>1
    <3>8. Counted(o, Heard(o))'
      BY <1>4, <1>6, <1>7, <2>3, <3>3, <3>7 DEF Counted, Heard
    <3>9. replies'[o] # << >> =>
            /\ Len(replies'[o]) = 1
            /\ replies'[o][1].data = [kind |-> "text", who |-> o, line |-> sent[o], count |-> lines[o]]
      <4>1. << >> \in Seq(Packet) /\ Len(<< >>) = 0
        BY EmptySeq
      <4>2. Len(Append(<< >>, d)) = 1 /\ Append(<< >>, d)[1] = d
        BY <1>8, <4>1, AppendProperties
      <4>3. replies'[o] # << >> => replies'[o] = Append(<< >>, d)
        BY <1>11, <3>3
      <4> QED
        BY <1>8, <3>1, <3>3, <3>6, <4>2, <4>3
    <3> QED
      BY <3>3, <3>4, <3>8, <3>9 DEF InStep
  <2>4. CASE port[o] # p
    <3>1. replies'[o] = replies[o]
      BY <1>10, <1>11, <2>4 DEF Alive
    <3>2. \A n : Counted(o, n) => Counted(o, n)'
      <4>1. \A j \in DOMAIN table' : table'[j].port = port[o] =>
                                      j \in DOMAIN table /\ table'[j] = table[j]
        BY <1>3, <1>4, <1>6, <1>7, <2>4
      <4>2. \A j \in DOMAIN table : table[j].port = port[o] => j \in DOMAIN table' /\ table'[j] = table[j]
        BY <1>3, <1>4, <1>6, <2>4
      <4> SUFFICES ASSUME NEW n, Counted(o, n) PROVE Counted(o, n)'
        OBVIOUS
      <4>3. n > 0 => \E l \in DOMAIN table' : table'[l].port = port'[o]
        BY <1>10, <4>2 DEF Counted
      <4>4. \A l \in DOMAIN table' : table'[l].port = port'[o] => table'[l].counter = n
        <5> SUFFICES ASSUME NEW l \in DOMAIN table', table'[l].port = port'[o]
                     PROVE  table'[l].counter = n
          OBVIOUS
        <5>1. l \in DOMAIN table /\ table'[l] = table[l] /\ table[l].port = port[o]
          BY <1>10, <4>1
        <5> QED
          BY <5>1 DEF Counted
      <4> QED
        BY <4>3, <4>4 DEF Counted
    <3>3. /\ \A m \in Mine(o)' : inbox'[m].data.line = sent[o]
          /\ Mine(o)' # {} => Mine(o) # {}
      <4>1. ASSUME NEW m \in Mine(o)' PROVE inbox'[m].data.line = sent[o]
        <5>1. m + 1 \in Mine(o) /\ inbox'[m] = inbox[m + 1]
          BY <2>2, <4>1
        <5> QED
          BY <2>1, <5>1 DEF InStep
      <4> QED
        BY <2>2, <4>1
    <3>4. ASSUME NEW m \in Mine(o)', NEW n \in Mine(o)' PROVE m = n
      <4>1. m + 1 \in Mine(o) /\ n + 1 \in Mine(o) /\ m \in Nat /\ n \in Nat
        BY <1>2, <2>2, <3>4
      <4>2. m + 1 = n + 1
        BY <2>1, <4>1 DEF InStep
      <4> QED
        BY <4>1, <4>2
    <3> QED
      BY <2>1, <3>1, <3>2, <3>3, <3>4 DEF InStep, Heard
  <2> QED
    BY <2>3, <2>4
<1> QED
  BY <1>14, <1>15, <1>16, <1>17, <1>18, <1>19

LEMMA EchoStep ==
    ASSUME IInv, Echo
    PROVE  IInv'
<1>1. /\ up /\ inbox # << >> /\ Head(inbox).data.kind = "text"
      /\ UNCHANGED <<pc, port, sent, up, silent, lines, fresh>>
  BY DEF Echo, servers
<1>2. PICK k \in Entry(Known(Head(inbox).src), Head(inbox).src) :
        IF EndOfCircle(Known(Head(inbox).src), k, Head(inbox).data)
        THEN inbox' = Tail(inbox) /\ UNCHANGED <<replies, table>>
        ELSE /\ table' = [Known(Head(inbox).src) EXCEPT ![k].counter = @ + 1]
             /\ \E missed :
                  SendTo(Datagram(ServerPort, Head(inbox).src, "text", Head(inbox).data.who,
                                  Head(inbox).data.line, Known(Head(inbox).src)[k].counter + 1),
                         Tail(inbox), missed)
  BY DEF Echo
<1>3. CASE EndOfCircle(Known(Head(inbox).src), k, Head(inbox).data)
  <2>1. /\ table \in Seq(Row)
        /\ \A i, j \in DOMAIN table : table[i].port = table[j].port => i = j
    BY DEF IInv, Types, TableInv
  <2> QED
    BY <1>1, <1>2, <1>3, <2>1, TakeStep
<1>4. CASE ~ EndOfCircle(Known(Head(inbox).src), k, Head(inbox).data)
  <2>1. PICK missed :
          SendTo(Datagram(ServerPort, Head(inbox).src, "text", Head(inbox).data.who,
                          Head(inbox).data.line, Known(Head(inbox).src)[k].counter + 1),
                 Tail(inbox), missed)
    BY <1>2, <1>4
  <2> QED
    BY <1>1, <1>2, <1>4, <2>1, AnswerStep
<1> QED
  BY <1>3, <1>4

LEMMA ServerStopsStep ==
    ASSUME IInv, ServerStops
    PROVE  IInv'
<1> USE DEF IInv
<1>1. /\ UNCHANGED <<pc, port, sent, replies, silent, lines>>
      /\ up' = FALSE /\ inbox' = << >> /\ table' = << >> /\ fresh' = Clients
  BY DEF ServerStops
<1>2. inbox' \in Seq(Packet) /\ table' \in Seq(Row) /\ DOMAIN inbox' = {} /\ DOMAIN table' = {}
  BY <1>1, EmptySeq
<1>3. Types'
  BY <1>1, <1>2 DEF Types
<1>4. ProcessInv'
  BY <1>1 DEF ProcessInv, Alive
<1>5. AddressInv' /\ TableInv' /\ ShutdownInv'
  BY <1>1, <1>2 DEF AddressInv, TableInv, ShutdownInv
<1>6. StepInv'
  <2> SUFFICES ASSUME NEW o \in Clients, Alive(o), Alone(o)
               PROVE  InStep(o)'
    BY <1>1 DEF StepInv, Alone, Alive
  <2>1. InStep(o)
    BY DEF StepInv
  <2>2. Mine(o)' = {} /\ Heard(o)' = 0 /\ Counted(o, 0)'
    BY <1>1, <1>2 DEF Mine, Heard, Counted
  <2> QED
    BY <1>1, <2>1, <2>2 DEF InStep, Counted
<1> QED
  BY <1>3, <1>4, <1>5, <1>6

\* A new server knows of no line, as the table says since the last one stopped.
LEMMA ServerStartsStep ==
    ASSUME IInv, ServerStarts
    PROVE  IInv'
<1> USE DEF IInv
<1>1. /\ UNCHANGED <<pc, port, sent, replies, inbox, table, silent, lines, fresh>>
      /\ up' = TRUE /\ ~ up
  BY DEF ServerStarts, history, servers
<1>2. Types' /\ ProcessInv'
  BY <1>1 DEF Types, ProcessInv, Alive
<1>3. AddressInv' /\ TableInv' /\ ShutdownInv'
  BY <1>1 DEF AddressInv, TableInv, ShutdownInv, Alive
<1>4. StepInv'
  <2> SUFFICES ASSUME NEW o \in Clients, Alive(o), Alone(o)
               PROVE  InStep(o)'
    BY <1>1 DEF StepInv, Alone, Alive
  <2>1. InStep(o)
    BY DEF StepInv
  <2> QED
    BY <1>1, <2>1 DEF InStep, Counted, Mine, Heard
<1> QED
  BY <1>2, <1>3, <1>4

-----------------------------------------------------------------------------
(* The clients' actions as instances of the steps above.                    *)

LEMMA TypeStep ==
    ASSUME IInv, NEW c \in Clients, NEW kind \in {"text", "SHUTDOWN"}, Type(c, kind)
    PROVE  IInv'
<1>1. /\ pc[c] = "prompt" /\ Alive(c)
      /\ pc' = [pc EXCEPT ![c] = "wait"]
      /\ sent' = [sent EXCEPT ![c] = @ + 1]
      /\ lines' = [lines EXCEPT ![c] = IF c \in fresh THEN 1 ELSE @ + 1]
      /\ fresh' = fresh \ {c}
      /\ UNCHANGED <<port, table, up>> /\ silent' = silent
  BY DEF Type, Alive, serverVars
<1>2. PICK missed : SendTo(Datagram(port[c], ServerPort, kind, c, sent[c] + 1, 0), inbox, missed)
  BY DEF Type
<1>3. sent[c] + 1 \in Nat
  BY DEF IInv, Types
<1> QED
  BY <1>1, <1>2, <1>3, SendStep

LEMMA SendShutdownStep ==
    ASSUME IInv, NEW c \in Clients, Alive(c), SendShutdown(c)
    PROVE  IInv'
<1>1. /\ pc' = [pc EXCEPT ![c] = "gone"]
      /\ UNCHANGED <<port, table, up, sent, lines, fresh>>
  BY DEF SendShutdown, serverVars, servers
<1>2. PICK missed :
        /\ SendTo(Datagram(port[c], ServerPort, "SHUTDOWN", c, 0, 0), inbox, missed)
        /\ silent' = IF ServerPort \in missed THEN silent \cup {c} ELSE silent
  BY DEF SendShutdown
<1>3. 0 \in Nat /\ "SHUTDOWN" \in {"text", "SHUTDOWN"}
  OBVIOUS
<1> QED
  BY <1>1, <1>2, <1>3, SendStep

LEMMA ClientStep ==
    ASSUME IInv, NEW c \in Clients, Client(c)
    PROVE  IInv'
<1>1. CASE Start(c)
  BY <1>1, StartStep
<1>2. CASE \E kind \in {"text", "SHUTDOWN"} : Type(c, kind)
  BY <1>2, TypeStep
<1>3. CASE ReadReply(c)
  BY <1>3, QuietStep DEF ReadReply, Alive, serverVars, history, servers
<1>4. CASE Quit(c)
  BY <1>4, QuietStep DEF Quit, Alive, serverVars, history, servers
<1>5. CASE Leave(c)
  BY <1>5, SendShutdownStep DEF Leave, Alive
<1>6. CASE Interrupt(c)
  <2>1. CASE pc[c] \in {"prompt", "wait"} /\ SendShutdown(c)
    BY <2>1, SendShutdownStep DEF Alive
  <2>2. CASE pc[c] = "leave" /\ ~ SendShutdown(c)
    BY <1>6, <2>2, QuietStep DEF Interrupt, Alive, serverVars, servers
  <2>3. CASE pc[c] = "leave" /\ SendShutdown(c)
    BY <2>3, SendShutdownStep DEF Alive
  <2> QED
    BY <1>6, <2>1, <2>2, <2>3 DEF Interrupt
<1>7. CASE Kill(c)
  BY <1>7, QuietStep DEF Kill, serverVars, servers
<1> QED
  BY <1>1, <1>2, <1>3, <1>4, <1>5, <1>6, <1>7 DEF Client

LEMMA StutterStep == IInv /\ UNCHANGED vars => IInv'
<1> SUFFICES ASSUME IInv, UNCHANGED vars PROVE IInv'
  OBVIOUS
<1>1. UNCHANGED <<pc, port, sent, replies, inbox, table, up, silent, lines, fresh>>
  BY DEF vars, serverVars, history, servers
<1>2. Types' /\ ProcessInv' /\ AddressInv' /\ TableInv'
  BY <1>1 DEF IInv, Types, ProcessInv, AddressInv, TableInv, Alive
<1>3. ShutdownInv'
  BY <1>1 DEF IInv, ShutdownInv, Alive
<1>4. StepInv'
  <2> SUFFICES ASSUME NEW c \in Clients, Alive(c), Alone(c)
               PROVE  InStep(c)'
    BY <1>1 DEF StepInv, Alive, Alone
  <2>1. InStep(c)
    BY DEF IInv, StepInv
  <2> QED
    BY <1>1, <2>1 DEF InStep, Counted, Mine, Heard
<1> QED
  BY <1>2, <1>3, <1>4 DEF IInv

LEMMA NextInv == IInv /\ [Next]_vars => IInv'
<1> SUFFICES ASSUME IInv, [Next]_vars PROVE IInv'
  OBVIOUS
<1>1. CASE \E c \in Clients : Client(c)
  BY <1>1, ClientStep
<1>2. CASE Server
  BY <1>2, DropDatagramStep, HandleShutdownStep, EchoStep DEF Server
<1>3. CASE ServerStops
  BY <1>3, ServerStopsStep
<1>4. CASE ServerStarts
  BY <1>4, ServerStartsStep
<1>5. CASE UNCHANGED vars
  BY <1>5, StutterStep
<1> QED
  BY <1>1, <1>2, <1>3, <1>4, <1>5 DEF Next

LEMMA Invariance == Spec => []IInv
BY InitInv, NextInv, PTL DEF Spec

\* A client whose port no other ever had, now or before, gets the answer to its last line
\* and no other, with the count of its lines to the server that answers: whatever is lost
\* or killed, however often the server is stopped and started again while the client goes
\* on, and however many other clients share ports (client.c:202-227; server.c:24-25).
THEOREM StepTheorem == Spec => []AnswersInStep
<1>1. IInv => AnswersInStep
  BY DEF IInv, StepInv, InStep, AnswersInStep
<1> QED
  BY <1>1, Invariance, PTL

-----------------------------------------------------------------------------
(* Owners and waiting clients.                                              *)

\* What a client's step does to all clients: it adds to the inbox, and who stops running
\* leaves a SHUTDOWN there or is silent.
LEMMA ClientEffects ==
    ASSUME IInv, NEW c \in Clients, Client(c)
    PROVE  /\ UNCHANGED <<table, up>>
           /\ \A o \in Clients : port[o] # NoPort => port'[o] = port[o]
           /\ \A m \in DOMAIN inbox : m \in DOMAIN inbox' /\ inbox'[m] = inbox[m]
           /\ silent \subseteq silent'
           /\ \A o \in Clients : Alive(o) /\ up =>
                \/ Alive(o)' \/ o \in silent'
                \/ \E m \in DOMAIN inbox' : inbox'[m].data.who = o
           /\ \A o \in Clients \ {c} : o \in abandoned => o \in abandoned'
           /\ \A o \in Clients \ {c} : pc'[o] = pc[o]
           /\ \A o \in Clients \ {c} : pc[o] = "wait" /\ replies[o] # << >> => replies'[o] # << >>
           /\ pc'[c] = "wait" /\ c \notin abandoned' =>
                up /\ \E m \in DOMAIN inbox' : inbox'[m].data.who = c /\ inbox'[m].data.kind = "text"
<1> USE DEF IInv
<1>1. CASE Start(c) \/ ReadReply(c) \/ Quit(c) \/ Kill(c) \/ (pc[c] = "leave" /\ ~ SendShutdown(c) /\ Interrupt(c))
  <2>1. /\ UNCHANGED <<table, up, inbox, abandoned>>
        /\ port' = port \/ (pc[c] = "off" /\ \E p \in Ports : port' = [port EXCEPT ![c] = p])
        /\ \E where \in {"prompt", "leave", "gone"} :
             pc' = [pc EXCEPT ![c] = where] /\ (where = "gone" => silent' = silent \cup {c})
        /\ replies' = replies \/ \E q : replies' = [replies EXCEPT ![c] = q]
        /\ silent \subseteq silent'
    BY <1>1 DEF Start, ReadReply, Quit, Kill, Interrupt, serverVars, history
  <2>2. \A o \in Clients : port[o] # NoPort => port'[o] = port[o]
    BY <2>1 DEF Types, ProcessInv
  <2>3. /\ \A o \in Clients \ {c} : pc'[o] = pc[o] /\ replies'[o] = replies[o]
        /\ pc'[c] \in {"prompt", "leave", "gone"} /\ (pc'[c] = "gone" => c \in silent')
    BY <2>1 DEF Types
  <2>4. \A o \in Clients : Alive(o) => Alive(o)' \/ o \in silent'
    BY <2>3 DEF Alive
  <2> QED
    BY <2>1, <2>2, <2>3, <2>4
<1>2. ASSUME NEW kind \in {"text", "SHUTDOWN"}, NEW line \in Nat, NEW where \in {"wait", "gone"}, NEW missed,
             Alive(c),
             SendTo(Datagram(port[c], ServerPort, kind, c, line, 0), inbox, missed),
             pc' = [pc EXCEPT ![c] = where], UNCHANGED <<port, table, up>>,
             where = "gone" => /\ abandoned' = abandoned
                               /\ silent' = IF ServerPort \in missed THEN silent \cup {c} ELSE silent,
             where = "wait" =>
               /\ silent' = silent
               /\ abandoned' =
                    IF kind = "SHUTDOWN"
                       \/ ServerPort \notin Hearers(Datagram(port[c], ServerPort, kind, c, line, 0)) \ missed
                    THEN abandoned \cup {c} ELSE abandoned \ {c}
      PROVE  /\ UNCHANGED <<table, up>>
             /\ \A o \in Clients : port[o] # NoPort => port'[o] = port[o]
             /\ \A m \in DOMAIN inbox : m \in DOMAIN inbox' /\ inbox'[m] = inbox[m]
             /\ silent \subseteq silent'
             /\ \A o \in Clients : Alive(o) /\ up =>
                  \/ Alive(o)' \/ o \in silent'
                  \/ \E m \in DOMAIN inbox' : inbox'[m].data.who = o
             /\ \A o \in Clients \ {c} : o \in abandoned => o \in abandoned'
             /\ \A o \in Clients \ {c} : pc'[o] = pc[o]
             /\ \A o \in Clients \ {c} : pc[o] = "wait" /\ replies[o] # << >> => replies'[o] # << >>
             /\ pc'[c] = "wait" /\ c \notin abandoned' =>
                  up /\ \E m \in DOMAIN inbox' : inbox'[m].data.who = c /\ inbox'[m].data.kind = "text"
  <2> DEFINE d == Datagram(port[c], ServerPort, kind, c, line, 0)
  <2>1. port[c] \in Ports
    BY <1>2 DEF Types, ProcessInv, Alive
  <2>2. /\ d \in Packet /\ d.dst = ServerPort
        /\ d.data = [kind |-> kind, who |-> c, line |-> line, count |-> 0]
    BY <1>2, <2>1 DEF Datagram, Packet, Data
  <2>3. SendTo(d, inbox, missed) /\ inbox \in Seq(Packet)
    BY <1>2 DEF Types
  <2>4. where = "wait" => abandoned' = IF kind = "SHUTDOWN" \/ ServerPort \notin Hearers(d) \ missed
                                       THEN abandoned \cup {c} ELSE abandoned \ {c}
    BY <1>2
  <2> HIDE DEF d
  <2>5. ServerPort \in Hearers(d) <=> up
    BY <2>2, HearersFacts
  <2>6. /\ missed \subseteq Hearers(d)
        /\ inbox' = IF ServerPort \in Hearers(d) \ missed THEN Append(inbox, d) ELSE inbox
        /\ \A o \in Clients : pc'[o] # "gone" =>
             replies'[o] = IF o \in Hearers(d) \ missed THEN Append(replies[o], d) ELSE replies[o]
    BY <2>2, <2>3, SendToFacts
  <2>7. /\ \A m \in DOMAIN inbox : m \in DOMAIN Append(inbox, d) /\ Append(inbox, d)[m] = inbox[m]
        /\ Len(inbox) + 1 \in DOMAIN Append(inbox, d)
        /\ Append(inbox, d)[Len(inbox) + 1] = d
    <3>1. /\ Len(inbox) \in Nat
          /\ DOMAIN Append(inbox, d) = 1 .. Len(inbox) + 1
          /\ \A m \in DOMAIN inbox : m \in DOMAIN Append(inbox, d) /\ Append(inbox, d)[m] = inbox[m]
          /\ Append(inbox, d)[Len(inbox) + 1] = d
      BY <2>2, <2>3, AppendFacts
    <3> QED
      BY <3>1
  <2>8. \A m \in DOMAIN inbox : m \in DOMAIN inbox' /\ inbox'[m] = inbox[m]
    BY <2>6, <2>7
  <2>9. /\ \A o \in Clients \ {c} : pc'[o] = pc[o] /\ (Alive(o) => Alive(o)')
        /\ pc'[c] = where
    BY <1>2 DEF Types, Alive
  <2>10. ServerPort \in Hearers(d) \ missed =>
           \E m \in DOMAIN inbox' : inbox'[m].data.who = c /\ inbox'[m].data.kind = kind
    BY <2>2, <2>6, <2>7
  <2>11. Alive(c) /\ up => \/ Alive(c)' \/ c \in silent'
                           \/ \E m \in DOMAIN inbox' : inbox'[m].data.who = c
    BY <1>2, <2>5, <2>9, <2>10 DEF Alive
  <2>12. \A o \in Clients \ {c} : pc[o] = "wait" /\ replies[o] # << >> => replies'[o] # << >>
    <3> SUFFICES ASSUME NEW o \in Clients \ {c}, pc[o] = "wait", replies[o] # << >>
                 PROVE  replies'[o] # << >>
      OBVIOUS
    <3>1. replies[o] \in Seq(Packet) /\ pc'[o] # "gone"
      BY <2>9 DEF Types
    <3>2. Append(replies[o], d) # << >>
      BY <2>2, <3>1, AppendProperties
    <3> QED
      BY <2>6, <3>1, <3>2
  <2>13. /\ \A o \in Clients \ {c} : o \in abandoned => o \in abandoned'
         /\ silent \subseteq silent'
    BY <1>2, <2>4
  <2>14. pc'[c] = "wait" /\ c \notin abandoned' => kind = "text" /\ ServerPort \in Hearers(d) \ missed
    BY <1>2, <2>4, <2>9
  <2>15. pc'[c] = "wait" /\ c \notin abandoned' =>
           up /\ \E m \in DOMAIN inbox' : inbox'[m].data.who = c /\ inbox'[m].data.kind = "text"
    BY <2>5, <2>10, <2>14
  <2>16. \A o \in Clients : Alive(o) /\ up =>
           \/ Alive(o)' \/ o \in silent'
           \/ \E m \in DOMAIN inbox' : inbox'[m].data.who = o
    BY <2>9, <2>11
  <2> QED
    BY <1>2, <2>8, <2>9, <2>12, <2>13, <2>15, <2>16
<1>3. CASE \E kind \in {"text", "SHUTDOWN"} : Type(c, kind)
  <2>1. PICK kind \in {"text", "SHUTDOWN"} : Type(c, kind)
    BY <1>3
  <2>2. sent[c] + 1 \in Nat /\ Alive(c)
    BY <2>1 DEF Types, Type, Alive
  <2>3. PICK missed :
          /\ SendTo(Datagram(port[c], ServerPort, kind, c, sent[c] + 1, 0), inbox, missed)
          /\ abandoned' =
               IF kind = "SHUTDOWN"
                  \/ ServerPort \notin Hearers(Datagram(port[c], ServerPort, kind, c, sent[c] + 1, 0)) \ missed
               THEN abandoned \cup {c} ELSE abandoned \ {c}
    BY <2>1 DEF Type
  <2>4. pc' = [pc EXCEPT ![c] = "wait"] /\ UNCHANGED <<port, table, up>> /\ silent' = silent
    BY <2>1 DEF Type, serverVars
  <2> QED
    BY <1>2, <2>2, <2>3, <2>4
<1>4. CASE Alive(c) /\ SendShutdown(c)
  <2>1. PICK missed :
          /\ SendTo(Datagram(port[c], ServerPort, "SHUTDOWN", c, 0, 0), inbox, missed)
          /\ silent' = IF ServerPort \in missed THEN silent \cup {c} ELSE silent
    BY <1>4 DEF SendShutdown
  <2>2. pc' = [pc EXCEPT ![c] = "gone"] /\ UNCHANGED <<port, table, up>> /\ abandoned' = abandoned
    BY <1>4 DEF SendShutdown, serverVars
  <2>3. 0 \in Nat /\ "SHUTDOWN" \in {"text", "SHUTDOWN"} /\ "gone" \in {"wait", "gone"} /\ "gone" # "wait"
    OBVIOUS
  <2> QED
    BY <1>2, <1>4, <2>1, <2>2, <2>3
<1> QED
  BY <1>1, <1>3, <1>4 DEF Client, Leave, Interrupt, Alive

\* What a step of the server does: the head of the inbox is gone, and a row is an old one
\* of another port, or the row of the text at the head.
LEMMA ServerEffects ==
    ASSUME IInv, Server
    PROVE  /\ up /\ inbox # << >> /\ UNCHANGED <<pc, port, silent, up>>
           /\ abandoned \subseteq abandoned'
           /\ \A m \in DOMAIN inbox : m # 1 => m - 1 \in DOMAIN inbox' /\ inbox'[m - 1] = inbox[m]
           /\ \A k \in DOMAIN table' :
                IF table'[k].port = Head(inbox).src THEN Head(inbox).data.kind = "text"
                ELSE \E j \in DOMAIN table : table[j].port = table'[k].port
           /\ \A o \in Clients : pc[o] = "wait" /\ replies[o] # << >> => replies'[o] # << >>
           /\ \A o \in Clients :
                pc[o] = "wait" /\ Head(inbox).data.kind = "text" /\ Head(inbox).data.who = o =>
                  o \in abandoned' \/ replies'[o] # << >>
<1> DEFINE p == Head(inbox).src
<1> USE DEF IInv
<1>1. /\ up /\ inbox # << >> /\ UNCHANGED <<pc, port, silent, up>>
  BY DEF Server, DropDatagram, HandleShutdown, Echo, serverVars, history
<1>2. /\ Head(inbox) = inbox[1] /\ Head(inbox) \in Packet
      /\ p = port[Head(inbox).data.who] /\ p \in Ports
      /\ Head(inbox).data.who \in Clients
      /\ Tail(inbox) \in Seq(Packet)
      /\ \A m \in DOMAIN inbox :
           m # 1 => m - 1 \in DOMAIN Tail(inbox) /\ Tail(inbox)[m - 1] = inbox[m]
  BY <1>1, HeadFacts
<1>3. CASE DropDatagram
  <2>1. /\ Entry(Known(p), p) = {} /\ inbox' = Tail(inbox) /\ UNCHANGED <<table, replies>>
        /\ abandoned' = IF Head(inbox).data.kind = "text"
                        THEN abandoned \cup {Head(inbox).data.who} ELSE abandoned
    BY <1>3 DEF DropDatagram, serverVars
  <2>2. \A k \in DOMAIN table : table[k].port # p
    BY <1>2, <2>1, KnownFacts DEF Entry
  <2> QED
    BY <1>1, <1>2, <2>1, <2>2
<1>4. CASE HandleShutdown
  <2>1. /\ Head(inbox).data.kind = "SHUTDOWN" /\ Entry(Known(p), p) # {} /\ inbox' = Tail(inbox)
        /\ table' = RemoveClient(Known(p), p) /\ UNCHANGED <<replies, abandoned>>
    BY <1>4 DEF HandleShutdown, history
  <2> HIDE DEF p
  <2>2. \A k \in DOMAIN table' : table'[k].port # p /\ \E j \in DOMAIN table : table'[k] = table[j]
    BY <1>2, <2>1, RemoveFacts
  <2> QED
    BY <1>1, <1>2, <2>1, <2>2 DEF p
<1>5. CASE Echo
  <2> DEFINE said == Head(inbox).data
             Answer(k) == Datagram(ServerPort, p, "text", said.who, said.line, Known(p)[k].counter + 1)
  <2>1. PICK k \in Entry(Known(p), p) :
          IF EndOfCircle(Known(p), k, said)
          THEN /\ inbox' = Tail(inbox) /\ abandoned' = abandoned \cup {said.who}
               /\ UNCHANGED <<replies, table>>
          ELSE /\ table' = [Known(p) EXCEPT ![k].counter = @ + 1]
               /\ \E missed \in SUBSET Hearers(Answer(k)) :
                    /\ SendTo(Answer(k), Tail(inbox), missed)
                    /\ abandoned' = IF said.who \in missed THEN abandoned \cup {said.who} ELSE abandoned
    BY <1>5 DEF Echo
  <2>2. said.kind = "text" /\ said.who \in Clients /\ said.line \in Nat
    BY <1>2, <1>5, PacketFacts DEF Echo
  <2>3. /\ Known(p) \in Seq(Row)
        /\ \A j \in DOMAIN Known(p) : j \in DOMAIN table
             \/ (Entry(table, p) = {} /\ Known(p)[j] = [port |-> p, counter |-> 0])
        /\ \A j \in DOMAIN table : Known(p)[j] = table[j]
    BY <1>2, KnownFacts
  <2>4. k \in DOMAIN Known(p) /\ Known(p)[k].port = p /\ Known(p)[k] \in Row
    BY <2>3, ElementOfSeq, LenProperties DEF Entry
  <2>5. CASE EndOfCircle(Known(p), k, said)
    <3>1. /\ inbox' = Tail(inbox) /\ abandoned' = abandoned \cup {said.who}
          /\ UNCHANGED <<replies, table>>
      BY <2>1, <2>5
    <3> QED
      BY <1>1, <1>2, <2>2, <3>1
  <2>6. CASE ~ EndOfCircle(Known(p), k, said)
    <3>1. /\ table' = [Known(p) EXCEPT ![k].counter = @ + 1]
          /\ \E missed \in SUBSET Hearers(Answer(k)) :
               /\ SendTo(Answer(k), Tail(inbox), missed)
               /\ abandoned' = IF said.who \in missed THEN abandoned \cup {said.who} ELSE abandoned
      BY <2>1, <2>6
    <3> DEFINE d == Answer(k)
    <3>2. PICK missed \in SUBSET Hearers(d) :
            /\ SendTo(d, Tail(inbox), missed)
            /\ abandoned' = IF said.who \in missed THEN abandoned \cup {said.who} ELSE abandoned
      BY <3>1
    <3>3. Known(p)[k].counter \in Nat
      BY <2>4 DEF Row
    <3>4. d \in Packet /\ d.src = ServerPort /\ d.dst = p
      BY <1>2, <2>2, <3>3 DEF Datagram, Packet, Data
    <3>5. \A j \in DOMAIN table' : j \in DOMAIN Known(p) /\ table'[j].port = Known(p)[j].port
      BY <2>4, <3>1 DEF Row
    <3> HIDE DEF d, Answer
    <3>6. \A o \in Clients : o \in Hearers(d) <=> (Alive(o) /\ p = port[o])
      BY <3>4, HearersFacts
    <3>7. /\ inbox' = IF ServerPort \in Hearers(d) \ missed THEN Append(Tail(inbox), d) ELSE Tail(inbox)
          /\ \A o \in Clients : pc'[o] # "gone" =>
               replies'[o] = IF o \in Hearers(d) \ missed THEN Append(replies[o], d) ELSE replies[o]
      BY <1>2, <3>2, <3>4, SendToFacts
    <3>8. \A m \in DOMAIN Tail(inbox) : m \in DOMAIN inbox' /\ inbox'[m] = Tail(inbox)[m]
      <4>1. \A m \in DOMAIN Tail(inbox) : m \in DOMAIN Append(Tail(inbox), d)
                                         /\ Append(Tail(inbox), d)[m] = Tail(inbox)[m]
        BY <1>2, <3>4, AppendFacts
      <4> QED
        BY <3>7, <4>1
    <3>9. \A o \in Clients : replies[o] \in Seq(Packet) /\ Append(replies[o], d) # << >>
      <4> SUFFICES ASSUME NEW o \in Clients
                   PROVE  replies[o] \in Seq(Packet) /\ Append(replies[o], d) # << >>
        OBVIOUS
      <4>1. replies[o] \in Seq(Packet)
        BY DEF Types
      <4> QED
        BY <3>4, <4>1, AppendProperties
    <3>10. \A o \in Clients : pc[o] = "wait" /\ replies[o] # << >> => replies'[o] # << >>
      BY <1>1, <3>7, <3>9
    <3>11. pc[said.who] = "wait" => said.who \in abandoned' \/ replies'[said.who] # << >>
      BY <1>1, <1>2, <2>2, <3>2, <3>6, <3>7, <3>9 DEF Alive
    <3>12. \A j \in DOMAIN table' : table'[j].port # p => \E i \in DOMAIN table : table[i].port = table'[j].port
      <4> SUFFICES ASSUME NEW j \in DOMAIN table', table'[j].port # p
                   PROVE  \E i \in DOMAIN table : table[i].port = table'[j].port
        OBVIOUS
      <4>1. j \in DOMAIN table
        BY <2>3, <3>5
      <4> QED
        BY <2>3, <3>5, <4>1
    <3> QED
      BY <1>1, <1>2, <2>2, <3>2, <3>8, <3>10, <3>11, <3>12
  <2> QED
    BY <2>5, <2>6
<1> QED
  BY <1>3, <1>4, <1>5 DEF Server

LEMMA OwnerStep == IInv /\ EntryHasOwner /\ [Next]_vars => EntryHasOwner'
<1> SUFFICES ASSUME IInv, EntryHasOwner, [Next]_vars,
                    NEW k \in DOMAIN table', table'[k].port # ServerPort
             PROVE  \E c \in Clients :
                      /\ port'[c] = table'[k].port
                      /\ \/ Alive(c)' \/ c \in silent'
                         \/ \E m \in DOMAIN inbox' : inbox'[m].data.who = c
  BY DEF EntryHasOwner
<1> USE DEF IInv
<1>1. CASE \E c \in Clients : Client(c)
  <2>1. PICK c \in Clients : Client(c)
    BY <1>1
  <2>2. /\ UNCHANGED <<table, up>>
        /\ \A o \in Clients : port[o] # NoPort => port'[o] = port[o]
        /\ \A m \in DOMAIN inbox : m \in DOMAIN inbox' /\ inbox'[m] = inbox[m]
        /\ silent \subseteq silent'
        /\ \A o \in Clients : Alive(o) /\ up =>
             \/ Alive(o)' \/ o \in silent'
             \/ \E m \in DOMAIN inbox' : inbox'[m].data.who = o
    BY <2>1, ClientEffects
  <2>3. k \in DOMAIN table /\ table[k] \in Row /\ up
    BY <2>2, ElementOfSeq, EmptySeq, LenProperties DEF Types, ProcessInv
  <2>4. table[k].port # NoPort
    BY <2>3, PortsAssumption DEF Row
  <2>5. PICK o \in Clients :
          /\ port[o] = table[k].port
          /\ \/ Alive(o) \/ o \in silent
             \/ \E m \in DOMAIN inbox : inbox[m].data.who = o
    BY <2>2, <2>3 DEF EntryHasOwner
  <2>6. port'[o] = table'[k].port
    BY <2>2, <2>4, <2>5
  <2>7. \/ Alive(o)' \/ o \in silent'
        \/ \E m \in DOMAIN inbox' : inbox'[m].data.who = o
    BY <2>2, <2>3, <2>5
  <2> QED
    BY <2>6, <2>7
<1>2. CASE Server
  <2>1. /\ inbox # << >> /\ UNCHANGED <<pc, port, silent, up>>
        /\ \A m \in DOMAIN inbox : m # 1 => m - 1 \in DOMAIN inbox' /\ inbox'[m - 1] = inbox[m]
        /\ \A j \in DOMAIN table' :
             IF table'[j].port = Head(inbox).src THEN Head(inbox).data.kind = "text"
             ELSE \E i \in DOMAIN table : table[i].port = table'[j].port
    BY <1>2, ServerEffects
  <2>2. /\ 1 \in DOMAIN inbox /\ Head(inbox) = inbox[1]
        /\ Head(inbox).src = port[Head(inbox).data.who]
        /\ Head(inbox).data.who \in Clients
    BY <2>1, HeadFacts
  <2>3. CASE table'[k].port = Head(inbox).src
    <3>0. PICK o \in Clients : o = Head(inbox).data.who
      BY <2>2
    <3>1. inbox[1].data.kind = "text" /\ inbox[1].src # ServerPort
      BY <2>1, <2>2, <2>3
    <3>2. \/ Alive(o) \/ o \in silent
          \/ \E n \in DOMAIN inbox : inbox[n].data.kind = "SHUTDOWN" /\ inbox[n].data.who = o
      BY <2>2, <3>0, <3>1 DEF ShutdownInv
    <3>3. \/ Alive(o)' \/ o \in silent'
          \/ \E m \in DOMAIN inbox' : inbox'[m].data.who = o
      <4>1. CASE \E n \in DOMAIN inbox : inbox[n].data.kind = "SHUTDOWN" /\ inbox[n].data.who = o
        <5>1. PICK n \in DOMAIN inbox : inbox[n].data.kind = "SHUTDOWN" /\ inbox[n].data.who = o
          BY <4>1
        <5>2. n # 1
          BY <3>1, <5>1
        <5> QED
          BY <2>1, <5>1, <5>2
      <4> QED
        BY <2>1, <3>2, <4>1 DEF Alive
    <3>4. port'[o] = table'[k].port
      BY <2>1, <2>2, <2>3, <3>0
    <3> QED
      BY <3>3, <3>4
  <2>4. CASE table'[k].port # Head(inbox).src
    <3>1. PICK j \in DOMAIN table : table[j].port = table'[k].port
      BY <2>1, <2>4
    <3>2. PICK o \in Clients :
            /\ port[o] = table[j].port
            /\ \/ Alive(o) \/ o \in silent
               \/ \E m \in DOMAIN inbox : inbox[m].data.who = o
      BY <3>1 DEF EntryHasOwner
    <3>3. o # Head(inbox).data.who
      BY <2>2, <2>4, <3>1, <3>2
    <3>4. \A m \in DOMAIN inbox : inbox[m].data.who = o => m # 1
      BY <2>2, <3>3
    <3>5. \/ Alive(o)' \/ o \in silent'
          \/ \E m \in DOMAIN inbox' : inbox'[m].data.who = o
      BY <2>1, <3>2, <3>4 DEF Alive
    <3> QED
      BY <2>1, <3>1, <3>2, <3>5
  <2> QED
    BY <2>3, <2>4
<1>3. CASE ServerStops
  BY <1>3, EmptySeq DEF ServerStops
<1>4. CASE ServerStarts
  BY <1>4 DEF ServerStarts, history, EntryHasOwner, Alive
<1>5. CASE UNCHANGED vars
  BY <1>5 DEF vars, serverVars, history, EntryHasOwner, Alive
<1> QED
  BY <1>1, <1>2, <1>3, <1>4, <1>5 DEF Next

\* An entry of the table can be traced to a client that runs, has its SHUTDOWN on the
\* way, or left without one getting through, also where clients share a port
\* (server.c:28-37, 155-170; client.c:70, 103).
THEOREM OwnerTheorem == Spec => []EntryHasOwner
<1>1. Init => EntryHasOwner
  BY EmptySeq DEF Init, EntryHasOwner
<1> QED
  BY <1>1, OwnerStep, Invariance, PTL DEF Spec

LEMMA WaitStep == IInv /\ WaitsForSomething /\ [Next]_vars => WaitsForSomething'
<1> SUFFICES ASSUME IInv, WaitsForSomething, [Next]_vars,
                    NEW o \in Clients, pc'[o] = "wait", o \notin abandoned', replies'[o] = << >>
             PROVE  up' /\ \E m \in DOMAIN inbox' : inbox'[m].data.who = o
                                                   /\ inbox'[m].data.kind = "text"
  BY DEF WaitsForSomething
<1>1. CASE \E c \in Clients : Client(c)
  <2>1. PICK c \in Clients : Client(c)
    BY <1>1
  <2>2. /\ UNCHANGED <<table, up>>
        /\ \A m \in DOMAIN inbox : m \in DOMAIN inbox' /\ inbox'[m] = inbox[m]
        /\ \A x \in Clients \ {c} : x \in abandoned => x \in abandoned'
        /\ \A x \in Clients \ {c} : pc'[x] = pc[x]
        /\ \A x \in Clients \ {c} : pc[x] = "wait" /\ replies[x] # << >> => replies'[x] # << >>
        /\ pc'[c] = "wait" /\ c \notin abandoned' =>
             up /\ \E m \in DOMAIN inbox' : inbox'[m].data.who = c /\ inbox'[m].data.kind = "text"
    BY <2>1, ClientEffects
  <2>3. CASE o = c
    BY <2>2, <2>3
  <2>4. CASE o # c
    <3>1. pc[o] = "wait" /\ o \notin abandoned /\ replies[o] = << >>
      BY <2>2, <2>4
    <3>2. up /\ \E m \in DOMAIN inbox : inbox[m].data.who = o /\ inbox[m].data.kind = "text"
      BY <3>1 DEF WaitsForSomething
    <3> QED
      BY <2>2, <3>2
  <2> QED
    BY <2>3, <2>4
<1>2. CASE Server
  <2>1. /\ up /\ inbox # << >> /\ UNCHANGED <<pc, up>>
        /\ abandoned \subseteq abandoned'
        /\ \A m \in DOMAIN inbox : m # 1 => m - 1 \in DOMAIN inbox' /\ inbox'[m - 1] = inbox[m]
        /\ \A x \in Clients : pc[x] = "wait" /\ replies[x] # << >> => replies'[x] # << >>
        /\ \A x \in Clients :
             pc[x] = "wait" /\ Head(inbox).data.kind = "text" /\ Head(inbox).data.who = x =>
               x \in abandoned' \/ replies'[x] # << >>
    BY <1>2, ServerEffects
  <2>2. pc[o] = "wait" /\ o \notin abandoned /\ replies[o] = << >>
    BY <2>1
  <2>3. PICK m \in DOMAIN inbox : inbox[m].data.who = o /\ inbox[m].data.kind = "text"
    BY <2>2 DEF WaitsForSomething
  <2>4. m # 1
    BY <2>1, <2>2, <2>3, HeadFacts
  <2> QED
    BY <2>1, <2>3, <2>4
<1>3. CASE ServerStops
  BY <1>3 DEF ServerStops
<1>4. CASE ServerStarts
  BY <1>4 DEF ServerStarts, history, WaitsForSomething, IInv, ProcessInv
<1>5. CASE UNCHANGED vars
  BY <1>5 DEF vars, serverVars, history, WaitsForSomething
<1> QED
  BY <1>1, <1>2, <1>3, <1>4, <1>5 DEF Next

\* A client waits for ever only if a datagram was lost, the table was full, its line was
\* SHUTDOWN or the server stopped: otherwise its line is in the server's socket or the
\* answer in its own (client.c:202-227; server.c:155-172).
THEOREM WaitTheorem == Spec => []WaitsForSomething
<1>1. Init => WaitsForSomething
  BY DEF Init, WaitsForSomething
<1> QED
  BY <1>1, WaitStep, Invariance, PTL DEF Spec

=============================================================================
