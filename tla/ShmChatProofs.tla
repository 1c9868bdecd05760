--------------------------- MODULE ShmChatProofs ---------------------------
(***************************************************************************)
(* Proofs about ShmChat for any number of clients and names and any size    *)
(* of the table and of the ring: who holds the semaphore, what the windows  *)
(* show, and that the table is the membership of the chat.                  *)
(***************************************************************************)
EXTENDS ShmChat, TLAPS, SequenceTheorems, FiniteSetTheorems, WellFoundedInduction

RecvLocs == {"none", "snapWait", "snap", "readWait", "read", "usersWait", "users", "done", "lost"}
SendLocs == {"none", "type", "sayWait", "say", "leaveWait", "leave", "unmap", "close", "exited",
             "lost"}
AllNames == Names \cup {NoName}
Message == [what : {"say", "join", "leave"}, name : AllNames]

\* A client's threads exist while it is in the chat, and are lost with it.
PlacesInv ==
    /\ main \in [Clients -> {"out", "wait", "reg", "in", "gone", "lost"}]
    /\ recv \in [Clients -> RecvLocs]
    /\ send \in [Clients -> SendLocs]
    /\ running \in [Clients -> BOOLEAN]
    /\ my_name \in [Clients -> AllNames]
    /\ \A c \in Clients :
         /\ main[c] \in {"out", "wait", "reg"} => recv[c] = "none" /\ send[c] = "none"
         /\ In(c) => recv[c] \notin {"none", "lost"} /\ send[c] \notin {"none", "lost"}

\* One who leaves has stopped the loops, and only its own receiver can be lost
\* unless it was killed.
LeavingInv ==
    \A c \in Clients :
        /\ send[c] \in {"leaveWait", "leave", "unmap", "close", "exited"} => ~running[c]
        /\ c \notin killed =>
             /\ main[c] # "lost" /\ send[c] # "lost"
             /\ recv[c] = "lost" => ~running[c]

\* The three parts of Holders.
MainHolders == {c \in Clients : main[c] \in {"reg", "lost"}}
RecvHolders == {c \in Clients : recv[c] \in Holding \cup {"lost"}}
SendHolders == {c \in Clients : send[c] \in Holding \cup {"lost"}}

Nobody == MainHolders = {} /\ RecvHolders = {} /\ SendHolders = {}
OneThread ==
    \E c \in Clients :
        \/ MainHolders = {c} /\ RecvHolders = {} /\ SendHolders = {}
        \/ MainHolders = {} /\ RecvHolders = {c} /\ SendHolders = {}
        \/ MainHolders = {} /\ RecvHolders = {} /\ SendHolders = {c}

\* The semaphore is free, or held by the server, or held by one client thread.
HolderInv ==
    \/ mutex = 1 /\ server \notin {"locked", "jammed"} /\ Nobody
    \/ mutex = 0 /\ server \in {"locked", "jammed"} /\ Nobody
    \/ mutex = 0 /\ server \notin {"locked", "jammed"} /\ OneThread

\* The head stays at 0, so the tail is the number of messages.
RingInv ==
    /\ msg_count \in 0 .. MAX_MESSAGES - 1
    /\ msg_tail = msg_count
    /\ messages \in [Positions -> Message]

\* Only a registered client has shown anything.
ReaderTypes ==
    /\ processed_count \in [Clients -> Nat]
    /\ current_count \in [Clients -> Nat]
    /\ current_tail \in [Clients -> Nat]
    /\ shown \in [Clients -> Seq(Message)]
    /\ client_id \in [Clients -> Nat \cup {-1}]
    /\ next_id \in Nat
    /\ \A c \in Clients :
         /\ ~In(c) => processed_count[c] = 0 /\ shown[c] = <<>>
         /\ main[c] \in {"out", "wait", "reg"} => client_id[c] = -1
         /\ In(c) => client_id[c] # -1

\* A snapshot never passes the log, which only grows.
SnapshotGood(c) ==
    In(c) /\ recv[c] \in {"readWait", "read"} =>
        /\ processed_count[c] < current_count[c]
        /\ current_count[c] <= msg_count
        /\ current_tail[c] = current_count[c]

\* The first p of the messages in m.
First(m, p) == [k \in 1 .. p |-> m[k - 1]]

\* What the window of c shows is the beginning of the log.
ViewGood(c) ==
    processed_count[c] <= msg_count /\ shown[c] = First(messages, processed_count[c])

WindowInv == \A c \in Clients \ wiped : ViewGood(c) /\ SnapshotGood(c)

\* Once the server is up, ids count upwards; each member has one of its own.
TableTypes ==
    /\ client_count \in Int
    /\ clients \in [Slots -> [id : Nat, name : AllNames, active : BOOLEAN]]

IdsInv ==
    server = "up" /\ wiped = {} =>
        /\ \A s \in ActiveSlots : clients[s].id < next_id
        /\ \A c \in Clients : client_id[c] < next_id
        /\ \A c, d \in Clients : In(c) /\ In(d) /\ client_id[c] = client_id[d] => c = d

IInv == PlacesInv /\ LeavingInv /\ HolderInv /\ RingInv /\ ReaderTypes /\ WindowInv
\* The two halves of Membership.
ListInv == {clients[s].name : s \in ActiveSlots} \subseteq user_list

MembersInv ==
    server = "up" /\ wiped = {} =>
        /\ client_count = Cardinality(ActiveSlots)
        /\ \A s, t \in ActiveSlots : s # t => /\ clients[s].name # clients[t].name
                                              /\ clients[s].id # clients[t].id
        /\ \A c \in Clients : Registered(c) =>
             \E s \in ActiveSlots : clients[s].id = client_id[c] /\ clients[s].name = my_name[c]

MInv == IInv /\ TableTypes /\ IdsInv /\ ListInv /\ MembersInv

-----------------------------------------------------------------------------
\* Every step is one of these; the proofs below go through them.
LEMMA StepCases ==
    ASSUME Next
    PROVE  \/ ServerLock \/ ServerInit \/ ServerStop
           \/ \E c \in Clients, n \in Names : Open(c, n)
           \/ \E c \in Clients :
                \/ RegisterLock(c) \/ Refuse(c) \/ Register(c) \/ Finish(c) \/ RecvLock(c)
                \/ Snapshot(c) \/ Read(c) \/ ReadUsers(c) \/ Crash(c) \/ TypeLine(c)
                \/ PressEsc(c) \/ SendLock(c) \/ Say(c) \/ Leave(c) \/ Unmap(c) \/ Close(c)
                \/ Kill(c)
  BY DEF Next, RecvStep, SendStep

LEMMA EmptyView == \A m : First(m, 0) = <<>>
  BY DEF First

LEMMA InitInv == Init => IInv
<1> SUFFICES ASSUME Init PROVE IInv
  OBVIOUS
<1> USE SizesAssumption DEF Init
<1>1. PlacesInv
  BY DEF PlacesInv, AllNames, RecvLocs, SendLocs, In
<1>2. LeavingInv
  BY DEF LeavingInv
<1>3. HolderInv
  BY DEF HolderInv, Nobody, MainHolders, RecvHolders, SendHolders, Holding
<1>4. RingInv
  BY DEF RingInv, NoMessages, Message, AllNames
<1>5. ReaderTypes
  BY DEF ReaderTypes, In
<1>6. WindowInv
  BY EmptyView DEF WindowInv, ViewGood, SnapshotGood, In
<1> QED
  BY <1>1, <1>2, <1>3, <1>4, <1>5, <1>6 DEF IInv

-----------------------------------------------------------------------------
\* Where the threads are.
LEMMA PlacesStep == PlacesInv /\ [Next]_vars => PlacesInv'
<1> SUFFICES ASSUME PlacesInv, [Next]_vars PROVE PlacesInv'
  OBVIOUS
<1> USE DEF PlacesInv, RecvLocs, SendLocs, In, Goto, locals
<1>1. CASE ServerLock \/ ServerInit \/ ServerStop
  BY <1>1 DEF ServerLock, ServerInit, ServerStop
<1>2. ASSUME NEW c \in Clients, NEW n \in Names, Open(c, n) PROVE PlacesInv'
  BY <1>2 DEF Open, AllNames
<1>3. ASSUME NEW c \in Clients, RegisterLock(c) \/ Refuse(c) PROVE PlacesInv'
  BY <1>3 DEF RegisterLock, Refuse
<1>4. ASSUME NEW c \in Clients, Register(c) PROVE PlacesInv'
  BY <1>4 DEF Register
<1>5. ASSUME NEW c \in Clients, Ends(c) PROVE PlacesInv'
  BY <1>5 DEF Ends, Holding
<1>6. ASSUME NEW c \in Clients, RecvLock(c) PROVE PlacesInv'
  BY <1>6 DEF RecvLock, RecvOnly, NoReading
<1>7. ASSUME NEW c \in Clients, Snapshot(c) \/ Read(c) \/ ReadUsers(c) PROVE PlacesInv'
  BY <1>7 DEF Snapshot, Read, ReadUsers, RecvOnly, MoreToRead, AfterRound
<1>8. ASSUME NEW c \in Clients, TypeLine(c) \/ PressEsc(c) \/ SendLock(c) PROVE PlacesInv'
  BY <1>8 DEF TypeLine, PressEsc, SendLock, SendOnly
<1>9. ASSUME NEW c \in Clients, Say(c) \/ Leave(c) \/ Unmap(c) \/ Close(c) PROVE PlacesInv'
  BY <1>9 DEF Say, Leave, Unmap, Close, SendOnly
<1>10. CASE UNCHANGED vars
  BY <1>10 DEF vars
<1> QED
  BY <1>1, <1>2, <1>3, <1>4, <1>5, <1>6, <1>7, <1>8, <1>9, <1>10, StepCases
     DEF Finish, Crash, Kill

LEMMA LeavingStep == PlacesInv /\ LeavingInv /\ [Next]_vars => LeavingInv'
<1> SUFFICES ASSUME PlacesInv, LeavingInv, [Next]_vars PROVE LeavingInv'
  OBVIOUS
<1> USE DEF PlacesInv, LeavingInv, RecvLocs, SendLocs, In, Goto, locals
<1>1. CASE ServerLock \/ ServerInit \/ ServerStop
  BY <1>1 DEF ServerLock, ServerInit, ServerStop
<1>2. ASSUME NEW c \in Clients, NEW n \in Names, Open(c, n) PROVE LeavingInv'
  BY <1>2 DEF Open
<1>3. ASSUME NEW c \in Clients, RegisterLock(c) \/ Refuse(c) PROVE LeavingInv'
  BY <1>3 DEF RegisterLock, Refuse
<1>4. ASSUME NEW c \in Clients, Register(c) PROVE LeavingInv'
  BY <1>4 DEF Register
<1>5. ASSUME NEW c \in Clients, Finish(c) PROVE LeavingInv'
  BY <1>5 DEF Finish, Ends, Holding
<1>6. ASSUME NEW c \in Clients, RecvLock(c) PROVE LeavingInv'
  BY <1>6 DEF RecvLock, RecvOnly, NoReading
<1>7. ASSUME NEW c \in Clients, Snapshot(c) \/ Read(c) \/ ReadUsers(c) PROVE LeavingInv'
  BY <1>7 DEF Snapshot, Read, ReadUsers, RecvOnly, MoreToRead, AfterRound
<1>8. ASSUME NEW c \in Clients, Crash(c) PROVE LeavingInv'
  <2>1. send[c] \in {"close", "exited"}
    BY <1>8 DEF Crash, Mapped, SemOpen
  <2> QED
    BY <1>8, <2>1 DEF Crash, Ends, Holding
<1>9. ASSUME NEW c \in Clients, TypeLine(c) \/ PressEsc(c) \/ SendLock(c) PROVE LeavingInv'
  BY <1>9 DEF TypeLine, PressEsc, SendLock, SendOnly
<1>10. ASSUME NEW c \in Clients, Say(c) \/ Leave(c) \/ Unmap(c) \/ Close(c) PROVE LeavingInv'
  BY <1>10 DEF Say, Leave, Unmap, Close, SendOnly
<1>11. ASSUME NEW c \in Clients, Kill(c) PROVE LeavingInv'
  BY <1>11 DEF Kill, Ends
<1>12. CASE UNCHANGED vars
  BY <1>12 DEF vars
<1> QED
  BY <1>1, <1>2, <1>3, <1>4, <1>5, <1>6, <1>7, <1>8, <1>9, <1>10, <1>11, <1>12, StepCases

-----------------------------------------------------------------------------
\* The semaphore: who takes it, gives it back or keeps it forever.
HolderSets == <<MainHolders, RecvHolders, SendHolders>>

\* A thread comes in.
Entered(c) ==
    \/ MainHolders' = MainHolders \cup {c} /\ UNCHANGED <<RecvHolders, SendHolders>>
    \/ RecvHolders' = RecvHolders \cup {c} /\ UNCHANGED <<MainHolders, SendHolders>>
    \/ SendHolders' = SendHolders \cup {c} /\ UNCHANGED <<MainHolders, RecvHolders>>

\* A thread that is inside goes out.
Left(c) ==
    \/ /\ c \in MainHolders /\ MainHolders' = MainHolders \ {c}
       /\ UNCHANGED <<RecvHolders, SendHolders>>
    \/ /\ c \in RecvHolders /\ RecvHolders' = RecvHolders \ {c}
       /\ UNCHANGED <<MainHolders, SendHolders>>
    \/ /\ c \in SendHolders /\ SendHolders' = SendHolders \ {c}
       /\ UNCHANGED <<MainHolders, RecvHolders>>

LEMMA TakeSemaphore ==
    ASSUME HolderInv, NEW c \in Clients, Acquire, UNCHANGED server, Entered(c)
    PROVE  HolderInv'
  BY DEF HolderInv, Acquire, Entered, Nobody, OneThread

LEMMA GiveSemaphore ==
    ASSUME HolderInv, NEW c \in Clients, Release, UNCHANGED server, Left(c)
    PROVE  HolderInv'
  BY DEF HolderInv, Release, Left, Nobody, OneThread

LEMMA KeepSemaphore ==
    ASSUME HolderInv, UNCHANGED <<mutex, server, HolderSets>>
    PROVE  HolderInv'
  BY DEF HolderInv, HolderSets, Nobody, OneThread

LEMMA HolderStep == PlacesInv /\ HolderInv /\ [Next]_vars => HolderInv'
<1> SUFFICES ASSUME PlacesInv, HolderInv, [Next]_vars PROVE HolderInv'
  OBVIOUS
<1> USE DEF PlacesInv, RecvLocs, SendLocs, In, Goto, MainHolders, RecvHolders, SendHolders,
            Holding, locals
<1>1. CASE ServerLock
  BY <1>1 DEF ServerLock, Acquire, HolderInv, Nobody
<1>2. CASE ServerInit
  BY <1>2 DEF ServerInit, Release, HolderInv, Nobody
<1>3. CASE ServerStop
  BY <1>3 DEF ServerStop, HolderInv, Nobody, OneThread
<1>4. ASSUME NEW c \in Clients, NEW n \in Names, Open(c, n) PROVE HolderInv'
  <2>1. UNCHANGED <<mutex, server, HolderSets>>
    BY <1>4 DEF Open, HolderSets
  <2> QED
    BY <2>1, KeepSemaphore
<1>5. ASSUME NEW c \in Clients, RegisterLock(c) PROVE HolderInv'
  <2>1. Entered(c) /\ Acquire /\ UNCHANGED server
    BY <1>5 DEF RegisterLock, Entered
  <2> QED
    BY <2>1, TakeSemaphore
<1>6. ASSUME NEW c \in Clients, Refuse(c) \/ Register(c) PROVE HolderInv'
  <2>1. Left(c) /\ Release /\ UNCHANGED server
    BY <1>6 DEF Refuse, Register, Left
  <2> QED
    BY <2>1, GiveSemaphore
<1>7. ASSUME NEW c \in Clients, Ends(c), UNCHANGED <<mutex, server>>, main[c] \in {"wait", "reg", "in"}
      PROVE  HolderInv'
  <2>1. UNCHANGED <<mutex, server, HolderSets>>
    BY <1>7 DEF Ends, HolderSets
  <2> QED
    BY <2>1, KeepSemaphore
<1>8. ASSUME NEW c \in Clients, RecvLock(c) PROVE HolderInv'
  <2>1. Entered(c) /\ Acquire /\ UNCHANGED server
    BY <1>8 DEF RecvLock, RecvOnly, NoReading, Entered
  <2> QED
    BY <2>1, TakeSemaphore
<1>9. ASSUME NEW c \in Clients, Snapshot(c) \/ Read(c) \/ ReadUsers(c) PROVE HolderInv'
  <2>1. Left(c) /\ Release /\ UNCHANGED server
    BY <1>9 DEF Snapshot, Read, ReadUsers, RecvOnly, MoreToRead, AfterRound, Left
  <2> QED
    BY <2>1, GiveSemaphore
<1>10. ASSUME NEW c \in Clients, TypeLine(c) \/ PressEsc(c) \/ Unmap(c) \/ Close(c)
       PROVE  HolderInv'
  <2>1. UNCHANGED <<mutex, server, HolderSets>>
    BY <1>10 DEF TypeLine, PressEsc, Unmap, Close, SendOnly, HolderSets
  <2> QED
    BY <2>1, KeepSemaphore
<1>11. ASSUME NEW c \in Clients, SendLock(c) PROVE HolderInv'
  <2>1. Entered(c) /\ Acquire /\ UNCHANGED server
    BY <1>11 DEF SendLock, SendOnly, Entered
  <2> QED
    BY <2>1, TakeSemaphore
<1>12. ASSUME NEW c \in Clients, Say(c) \/ Leave(c) PROVE HolderInv'
  <2>1. Left(c) /\ Release /\ UNCHANGED server
    BY <1>12 DEF Say, Leave, SendOnly, Left
  <2> QED
    BY <2>1, GiveSemaphore
<1>13. CASE UNCHANGED vars
  <2>1. UNCHANGED <<mutex, server, HolderSets>>
    BY <1>13 DEF vars, HolderSets
  <2> QED
    BY <2>1, KeepSemaphore
<1> QED
  BY <1>1, <1>2, <1>3, <1>4, <1>5, <1>6, <1>7, <1>8, <1>9, <1>10, <1>11, <1>12, <1>13, StepCases
     DEF Finish, Crash, Kill

\* One holder is one element of Holders.
LEMMA HoldersCounted == HolderInv => SemaphoreConserved
<1> SUFFICES ASSUME HolderInv PROVE SemaphoreConserved
  OBVIOUS
<1> USE DEF MainHolders, RecvHolders, SendHolders
<1>1. CASE Nobody
  <2>1. Holders = {}
    BY <1>1 DEF Nobody, Holders
  <2> QED
    BY <1>1, <2>1, FS_EmptySet DEF HolderInv, SemaphoreConserved, Nobody, OneThread
<1>2. CASE ~Nobody
  <2>1. mutex = 0 /\ server \notin {"locked", "jammed"} /\ OneThread
    BY <1>2 DEF HolderInv
  <2>2. \E h : Holders = {h}
    <3>1. PICK c \in Clients :
            \/ MainHolders = {c} /\ RecvHolders = {} /\ SendHolders = {}
            \/ MainHolders = {} /\ RecvHolders = {c} /\ SendHolders = {}
            \/ MainHolders = {} /\ RecvHolders = {} /\ SendHolders = {c}
      BY <2>1 DEF OneThread
    <3>2. \/ Holders = {<<c, "main">>} \/ Holders = {<<c, "recv">>} \/ Holders = {<<c, "send">>}
      BY <3>1 DEF Holders
    <3> QED
      BY <3>2
  <2>3. Cardinality(Holders) = 1
    BY <2>2, FS_Singleton
  <2> QED
    BY <2>1, <2>3 DEF SemaphoreConserved
<1> QED
  BY <1>1, <1>2

-----------------------------------------------------------------------------
\* The ring and the windows.

\* The ring's arithmetic: an index of the ring is its own remainder, and the
\* one after the last is 0.
LEMMA ModIndex ==
    ASSUME NEW a \in 0 .. MAX_MESSAGES
    PROVE  a % MAX_MESSAGES = IF a < MAX_MESSAGES THEN a ELSE 0
<1>1. MAX_MESSAGES \in Nat \ {0}
  BY SizesAssumption
<1>2. CASE a < MAX_MESSAGES
  BY <1>1, <1>2, SMT
<1>3. CASE a = MAX_MESSAGES
  <2>1. a = MAX_MESSAGES * 1 + 0
    BY <1>1, <1>3
  <2> QED
    BY <1>1, <1>3, <2>1, SMT
<1> QED
  BY <1>1, <1>2, <1>3

LEMMA LogIsFirst == Log = First(messages, msg_count) /\ Log' = First(messages', msg_count')
  BY DEF Log, First

LEMMA FirstOfFirst ==
    ASSUME NEW m, NEW n \in Nat, \A k \in 0 .. n - 1 : m[k] \in Message, NEW p \in 0 .. n
    PROVE  SubSeq(First(m, n), 1, p) = First(m, p) /\ First(m, p) \in Seq(Message)
<1>1. \A k \in 1 .. n : First(m, n)[k] = m[k - 1] /\ m[k - 1] \in Message
  BY DEF First
<1>2. First(m, p) \in Seq(Message)
  <2>1. \A k \in 1 .. p : m[k - 1] \in Message
    BY <1>1
  <2> QED
    BY <2>1, IsASeq DEF First
<1>3. /\ SubSeq(First(m, n), 1, p) \in Seq(Message)
      /\ Len(SubSeq(First(m, n), 1, p)) = IF 1 <= p THEN p - 1 + 1 ELSE 0
      /\ \A i \in 1 .. p - 1 + 1 : SubSeq(First(m, n), 1, p)[i] = First(m, n)[1 + i - 1]
  <2>1. \A k \in 1 .. p : First(m, n)[k] \in Message
    BY <1>1
  <2> QED
    BY <2>1, SubSeqProperties
<1>4. /\ Len(SubSeq(First(m, n), 1, p)) = p
      /\ \A i \in 1 .. p : SubSeq(First(m, n), 1, p)[i] = m[i - 1]
  BY <1>1, <1>3
<1>5. Len(First(m, p)) = p /\ \A i \in 1 .. p : First(m, p)[i] = m[i - 1]
  BY <1>2, LenProperties DEF First
<1> QED
  BY <1>2, <1>3, <1>4, <1>5, SeqEqual

LEMMA FirstGrows ==
    ASSUME NEW m, NEW p \in Nat, \A k \in 0 .. p : m[k] \in Message
    PROVE  First(m, p + 1) = Append(First(m, p), m[p])
<1>1. First(m, p) \in Seq(Message) /\ First(m, p + 1) \in Seq(Message) /\ m[p] \in Message
  BY FirstOfFirst
<1>2. Len(First(m, p)) = p /\ Len(First(m, p + 1)) = p + 1
  BY <1>1, LenProperties DEF First
<1>3. /\ Append(First(m, p), m[p]) \in Seq(Message)
      /\ Len(Append(First(m, p), m[p])) = p + 1
      /\ \A i \in 1 .. p : Append(First(m, p), m[p])[i] = First(m, p)[i]
      /\ Append(First(m, p), m[p])[p + 1] = m[p]
  BY <1>1, <1>2, AppendProperties
<1>4. \A i \in 1 .. p + 1 : First(m, p + 1)[i] = Append(First(m, p), m[p])[i]
  BY <1>3 DEF First
<1> QED
  BY <1>1, <1>2, <1>3, <1>4, SeqEqual

\* What is written stays as it was.
LogGrows ==
    /\ msg_count <= msg_count'
    /\ \A k \in 0 .. msg_count - 1 : messages'[k] = messages[k]

LEMMA PostEffect ==
    ASSUME RingInv, NEW what \in {"say", "join", "leave"}, NEW n \in AllNames, Post(what, n)
    PROVE  RingInv' /\ LogGrows
<1> USE SizesAssumption DEF RingInv, Positions, LogGrows
<1>1. NextTail = IF msg_count + 1 < MAX_MESSAGES THEN msg_count + 1 ELSE 0
  <2>1. msg_count + 1 \in 0 .. MAX_MESSAGES /\ msg_tail = msg_count
    OBVIOUS
  <2>2. (msg_count + 1) % MAX_MESSAGES = IF msg_count + 1 < MAX_MESSAGES THEN msg_count + 1 ELSE 0
    BY <2>1, ModIndex
  <2> QED
    BY <2>1, <2>2 DEF NextTail
<1>2. CASE msg_count + 1 < MAX_MESSAGES
  <2>1. /\ messages' = [messages EXCEPT ![msg_count] = [what |-> what, name |-> n]]
        /\ msg_tail' = msg_count + 1 /\ msg_count' = msg_count + 1
    BY <1>1, <1>2 DEF Post, msg_head
  <2>2. [what |-> what, name |-> n] \in Message
    BY DEF Message
  <2> QED
    BY <1>2, <2>1, <2>2
<1>3. CASE ~(msg_count + 1 < MAX_MESSAGES)
  BY <1>1, <1>3 DEF Post, msg_head
<1> QED
  BY <1>2, <1>3

\* Unless the server sets the segment up, the log only grows.
LEMMA RingStep ==
    ASSUME PlacesInv, RingInv, [Next]_vars
    PROVE  RingInv' /\ (~ServerInit => LogGrows)
<1> USE DEF RingInv, LogGrows, segment
<1>1. CASE ServerInit
  BY <1>1, SizesAssumption DEF ServerInit, NoMessages, Message, AllNames
<1>2. CASE UNCHANGED segment
  BY <1>2
<1>3. CASE ServerStop
  BY <1>3 DEF ServerStop
<1>4. ASSUME NEW c \in Clients, Register(c) PROVE RingInv' /\ LogGrows
  <2>1. my_name[c] \in AllNames /\ Post("join", my_name[c])
    BY <1>4 DEF Register, PlacesInv
  <2> QED
    BY <2>1, PostEffect
<1>5. ASSUME NEW c \in Clients, Say(c) \/ Leave(c) PROVE RingInv' /\ LogGrows
  <2>1. my_name[c] \in AllNames
    BY DEF PlacesInv
  <2>2. CASE \E what \in {"say", "leave"} : Post(what, my_name[c])
    BY <2>1, <2>2, PostEffect
  <2>3. CASE UNCHANGED <<messages, msg_tail, msg_count>>
    BY <2>3
  <2> QED
    BY <1>5, <2>2, <2>3 DEF Say, Leave
<1>6. ASSUME NEW c \in Clients,
             \/ RegisterLock(c) \/ Refuse(c) \/ Finish(c) \/ RecvLock(c) \/ Crash(c) \/ Kill(c)
             \/ Snapshot(c) \/ Read(c) \/ ReadUsers(c)
             \/ TypeLine(c) \/ PressEsc(c) \/ SendLock(c) \/ Unmap(c) \/ Close(c)
      PROVE  UNCHANGED segment
  BY <1>6 DEF RegisterLock, Refuse, Finish, RecvLock, Crash, Kill, RecvOnly, Snapshot, Read,
              ReadUsers, TypeLine, PressEsc, SendLock, Unmap, Close, SendOnly
<1>7. CASE ServerLock \/ \E c \in Clients, n \in Names : Open(c, n)
  BY <1>7, <1>2 DEF ServerLock, Open
<1> QED
  BY <1>1, <1>2, <1>3, <1>4, <1>5, <1>6, <1>7, StepCases DEF vars

LEMMA ViewIsGood ==
    ASSUME RingInv, ReaderTypes
    PROVE  ViewIsPrefix <=> \A c \in Clients \ wiped : ViewGood(c)
<1>1. msg_count \in Nat /\ \A k \in 0 .. msg_count - 1 : messages[k] \in Message
  BY SizesAssumption DEF RingInv, Positions
<1>2. ASSUME NEW c \in Clients, processed_count[c] <= msg_count
      PROVE  SubSeq(Log, 1, processed_count[c]) = First(messages, processed_count[c])
  <2>1. processed_count[c] \in 0 .. msg_count
    BY <1>1, <1>2 DEF ReaderTypes
  <2> QED
    BY <1>1, <2>1, FirstOfFirst, LogIsFirst
<1> QED
  BY <1>2 DEF ViewIsPrefix, ViewGood

\* A step that reads nothing leaves what the windows show, and the snapshots.
LEMMA ViewStays ==
    ASSUME RingInv, RingInv', LogGrows, ReaderTypes, NEW c \in Clients, ViewGood(c),
           processed_count'[c] = processed_count[c], shown'[c] = shown[c]
    PROVE  ViewGood(c)'
<1>1. msg_count \in Nat /\ msg_count' \in Nat /\ processed_count[c] \in Nat
  BY SizesAssumption DEF RingInv, ReaderTypes
<1>2. First(messages', processed_count[c]) = First(messages, processed_count[c])
  BY <1>1 DEF First, LogGrows, ViewGood
<1> QED
  BY <1>1, <1>2 DEF ViewGood, LogGrows

-----------------------------------------------------------------------------
LEMMA ReaderTypesStep ==
    ASSUME PlacesInv, RingInv, ReaderTypes, [Next]_vars
    PROVE  ReaderTypes'
<1> USE DEF PlacesInv, ReaderTypes, In, Goto, locals, segment
<1>1. CASE ServerLock \/ ServerInit \/ ServerStop
  BY <1>1 DEF ServerLock, ServerInit, ServerStop
<1>2. ASSUME NEW c \in Clients, NEW n \in Names, Open(c, n) PROVE ReaderTypes'
  BY <1>2 DEF Open
<1>3. ASSUME NEW c \in Clients, RegisterLock(c) \/ Refuse(c) PROVE ReaderTypes'
  BY <1>3 DEF RegisterLock, Refuse
<1>4. ASSUME NEW c \in Clients, Register(c) PROVE ReaderTypes'
  BY <1>4 DEF Register
<1>5. ASSUME NEW c \in Clients, Ends(c), next_id' = next_id, main[c] \notin {"out"}
      PROVE  ReaderTypes'
  <2>1. <<>> \in Seq(Message)
    OBVIOUS
  <2> QED
    BY <1>5, <2>1 DEF Ends
<1>6. ASSUME NEW c \in Clients, RecvLock(c) PROVE ReaderTypes'
  BY <1>6 DEF RecvLock, RecvOnly, NoReading
<1>7. ASSUME NEW c \in Clients, Snapshot(c) PROVE ReaderTypes'
  BY <1>7, SizesAssumption DEF Snapshot, RecvOnly, RingInv
<1>8. ASSUME NEW c \in Clients, Read(c) PROVE ReaderTypes'
  <2>1. ReadPos(c) \in Positions
    BY SizesAssumption DEF ReadPos, msg_head, Positions
  <2>2. messages[ReadPos(c)] \in Message
    BY <2>1 DEF RingInv
  <2>3. Append(shown[c], messages[ReadPos(c)]) \in Seq(Message)
    <3>1. shown[c] \in Seq(Message)
      OBVIOUS
    <3> QED
      BY ONLY <2>2, <3>1, AppendProperties
  <2>4. shown' \in [Clients -> Seq(Message)] /\ processed_count' \in [Clients -> Nat]
    <3>1. CASE ReadPos(c) # current_tail[c]
      <4>1. shown' = [shown EXCEPT ![c] = Append(shown[c], messages[ReadPos(c)])]
        BY <1>8, <3>1 DEF Read
      <4>2. processed_count' = [processed_count EXCEPT ![c] = processed_count[c] + 1]
        BY <1>8, <3>1 DEF Read
      <4> QED
        BY <2>3, <4>1, <4>2
    <3>2. CASE ~(ReadPos(c) # current_tail[c])
      BY <1>8, <3>2 DEF Read
    <3> QED
      BY <3>1, <3>2
  <2>5. \A d \in Clients : ~In(d) => UNCHANGED <<processed_count[d], shown[d]>>
    BY <1>8 DEF Read
  <2>6. UNCHANGED <<main, client_id, next_id, current_count, current_tail>>
    BY <1>8 DEF Read, RecvOnly
  <2> QED
    BY <2>4, <2>5, <2>6
<1>9. ASSUME NEW c \in Clients, ReadUsers(c) PROVE ReaderTypes'
  BY <1>9 DEF ReadUsers, RecvOnly
<1>10. ASSUME NEW c \in Clients,
              TypeLine(c) \/ PressEsc(c) \/ SendLock(c) \/ Unmap(c) \/ Close(c)
       PROVE  ReaderTypes'
  BY <1>10 DEF TypeLine, PressEsc, SendLock, Unmap, Close, SendOnly
<1>11. ASSUME NEW c \in Clients, Say(c) \/ Leave(c) PROVE ReaderTypes'
  BY <1>11 DEF Say, Leave, SendOnly
<1>12. CASE UNCHANGED vars
  BY <1>12 DEF vars
<1> QED
  BY <1>1, <1>2, <1>3, <1>4, <1>5, <1>6, <1>7, <1>8, <1>9, <1>10, <1>11, <1>12, StepCases
     DEF Finish, Crash, Kill

\* Nothing that this reader works with has changed but the log, which grew.
LEMMA WindowStays ==
    ASSUME RingInv, RingInv', LogGrows, ReaderTypes, NEW c \in Clients,
           ViewGood(c), SnapshotGood(c),
           UNCHANGED <<processed_count[c], shown[c], current_count[c], current_tail[c]>>,
           SnapshotGood(c)' \/ UNCHANGED <<main[c], recv[c]>>
    PROVE  ViewGood(c)' /\ SnapshotGood(c)'
<1>1. ViewGood(c)'
  BY ViewStays
<1>2. msg_count <= msg_count' /\ msg_count \in Nat /\ msg_count' \in Nat
  BY SizesAssumption DEF LogGrows, RingInv
<1>3. ASSUME UNCHANGED <<main[c], recv[c]>> PROVE SnapshotGood(c)'
  BY <1>2, <1>3 DEF SnapshotGood, In, ReaderTypes
<1> QED
  BY <1>1, <1>3

\* The shared part of the steps below: the other readers are not disturbed.
LEMMA OthersStay ==
    ASSUME RingInv, RingInv', LogGrows, ReaderTypes, WindowInv, NEW c \in Clients,
           UNCHANGED wiped,
           \A d \in Clients \ {c} :
               UNCHANGED <<main[d], recv[d], processed_count[d], shown[d], current_count[d],
                           current_tail[d]>>,
           c \notin wiped => ViewGood(c)' /\ SnapshotGood(c)'
    PROVE  WindowInv'
<1>1. ASSUME NEW d \in Clients \ wiped, d # c PROVE ViewGood(d)' /\ SnapshotGood(d)'
  BY <1>1, WindowStays DEF WindowInv
<1> QED
  BY <1>1 DEF WindowInv

LEMMA ReadShows ==
    ASSUME PlacesInv, RingInv, ReaderTypes, NEW c \in Clients, ViewGood(c), SnapshotGood(c),
           Read(c)
    PROVE  ViewGood(c)' /\ SnapshotGood(c)'
<1> DEFINE p == processed_count[c]
<1>1. /\ p \in Nat /\ msg_count \in Nat /\ current_count[c] \in Nat
      /\ p < current_count[c] /\ current_count[c] <= msg_count /\ msg_count < MAX_MESSAGES
      /\ current_tail[c] = current_count[c]
      /\ \A k \in 0 .. p : messages[k] \in Message
  BY SizesAssumption DEF ReaderTypes, RingInv, SnapshotGood, Read, Positions
<1>2. ReadPos(c) = p
  <2>1. p \in 0 .. MAX_MESSAGES /\ 0 + p = p /\ p < MAX_MESSAGES
    BY <1>1, SizesAssumption
  <2> QED
    BY <2>1, ModIndex DEF ReadPos, msg_head
<1>3. /\ shown' = [shown EXCEPT ![c] = Append(shown[c], messages[p])]
      /\ processed_count' = [processed_count EXCEPT ![c] = p + 1]
  BY <1>1, <1>2 DEF Read
<1>4. shown'[c] = Append(shown[c], messages[p]) /\ processed_count'[c] = p + 1
  BY <1>3 DEF ReaderTypes
<1>5. UNCHANGED <<messages, msg_count, main, current_count, current_tail>>
  BY DEF Read, RecvOnly, segment
<1>6. ViewGood(c)'
  <2>1. shown'[c] = First(messages, p + 1)
    BY <1>1, <1>4, FirstGrows DEF ViewGood
  <2> QED
    BY <1>1, <1>4, <1>5, <2>1 DEF ViewGood
<1>7. SnapshotGood(c)'
  <2>1. recv' = Goto(recv, c, MoreToRead(c, p + 1, current_count[c]))
    BY <1>4 DEF Read
  <2>2. CASE p + 1 < current_count[c]
    BY <1>1, <1>4, <1>5, <2>2 DEF SnapshotGood, In
  <2>3. CASE ~(p + 1 < current_count[c])
    <3>1. recv' = [recv EXCEPT ![c] = "usersWait"]
      BY <2>1, <2>3 DEF MoreToRead, Goto
    <3>2. recv'[c] # "readWait" /\ recv'[c] # "read"
      BY <3>1 DEF PlacesInv
    <3> QED
      BY <3>2 DEF SnapshotGood
  <2> QED
    BY <2>2, <2>3
<1> QED
  BY <1>6, <1>7

LEMMA WindowStep ==
    ASSUME PlacesInv, RingInv, RingInv', ReaderTypes, WindowInv, [Next]_vars
    PROVE  WindowInv'
<1>1. CASE ServerInit
  <2>1. ASSUME NEW c \in Clients \ wiped' PROVE ViewGood(c)' /\ SnapshotGood(c)'
    <3>1. ~In(c) /\ UNCHANGED <<main, processed_count, shown>>
      BY <1>1, <2>1 DEF ServerInit, ReaderTypes, locals
    <3>2. processed_count'[c] = 0 /\ shown'[c] = <<>> /\ ~In(c)'
      BY <3>1 DEF ReaderTypes, In
    <3>3. 0 <= msg_count'
      BY SizesAssumption DEF RingInv
    <3> QED
      BY <3>2, <3>3, EmptyView DEF ViewGood, SnapshotGood
  <2> QED
    BY <2>1 DEF WindowInv
<1>2. CASE ~ServerInit
  <2> USE DEF PlacesInv, ReaderTypes, WindowInv, In, Goto, locals
  <2>0. LogGrows
    BY <1>2, RingStep
  <2>1. ASSUME UNCHANGED <<wiped, main, recv, processed_count, shown, current_count, current_tail>>
        PROVE  WindowInv'
    BY <2>0, <2>1, WindowStays
  <2>2. CASE ServerLock \/ ServerStop
    BY <2>1, <2>2 DEF ServerLock, ServerStop
  <2>3. ASSUME NEW c \in Clients, Ends(c), UNCHANGED wiped, main[c] # "out" PROVE WindowInv'
    <3>1. processed_count'[c] = 0 /\ shown'[c] = <<>> /\ ~In(c)'
      BY <2>3 DEF Ends
    <3>2. 0 <= msg_count'
      BY SizesAssumption DEF RingInv
    <3>3. ViewGood(c)' /\ SnapshotGood(c)'
      BY <3>1, <3>2, EmptyView DEF ViewGood, SnapshotGood
    <3> QED
      BY <2>0, <2>3, <3>3, OthersStay DEF Ends
  <2>4. ASSUME NEW c \in Clients,
               UNCHANGED <<wiped, processed_count, shown, current_count, current_tail>>,
               \A d \in Clients \ {c} : UNCHANGED <<main[d], recv[d]>>,
               c \notin wiped => SnapshotGood(c)'
        PROVE  WindowInv'
    <3>1. c \notin wiped => ViewGood(c)' /\ SnapshotGood(c)'
      BY <2>0, <2>4, WindowStays
    <3> QED
      BY <2>0, <2>4, <3>1, OthersStay
  <2>5. ASSUME NEW c \in Clients, NEW n \in Names, Open(c, n) PROVE WindowInv'
    BY <2>4, <2>5 DEF Open, SnapshotGood
  <2>6. ASSUME NEW c \in Clients, RegisterLock(c) \/ Refuse(c) PROVE WindowInv'
    BY <2>4, <2>6 DEF RegisterLock, Refuse, SnapshotGood
  <2>7. ASSUME NEW c \in Clients, Register(c) PROVE WindowInv'
    BY <2>4, <2>7 DEF Register, SnapshotGood
  <2>8. ASSUME NEW c \in Clients, RecvLock(c) PROVE WindowInv'
    <3>1. c \notin wiped => SnapshotGood(c)'
      BY <2>8 DEF RecvLock, RecvOnly, NoReading, SnapshotGood, segment
    <3> QED
      BY <2>4, <2>8, <3>1 DEF RecvLock, RecvOnly, NoReading
  <2>9. ASSUME NEW c \in Clients, Snapshot(c) PROVE WindowInv'
    <3>1. c \notin wiped => ViewGood(c)' /\ SnapshotGood(c)'
      <4>1. /\ current_count'[c] = msg_count /\ current_tail'[c] = msg_count
            /\ recv'[c] = MoreToRead(c, processed_count[c], msg_count)
            /\ UNCHANGED <<messages, msg_count, main, processed_count, shown>>
        BY <2>9 DEF Snapshot, RecvOnly, RingInv, segment
      <4>2. recv'[c] \in {"readWait", "read"} => processed_count[c] < msg_count
        BY <4>1 DEF MoreToRead
      <4>3. msg_count <= msg_count
        BY SizesAssumption DEF RingInv
      <4> QED
        BY <4>1, <4>2, <4>3 DEF ViewGood, SnapshotGood
    <3>2. \A d \in Clients \ {c} :
               UNCHANGED <<main[d], recv[d], processed_count[d], shown[d], current_count[d],
                           current_tail[d]>>
      BY <2>9 DEF Snapshot, RecvOnly
    <3> QED
      BY <2>0, <2>9, <3>1, <3>2, OthersStay DEF Snapshot, RecvOnly
  <2>10. ASSUME NEW c \in Clients, Read(c) PROVE WindowInv'
    <3>1. c \notin wiped => ViewGood(c)' /\ SnapshotGood(c)'
      BY <2>10, ReadShows
    <3>2. \A d \in Clients \ {c} :
               UNCHANGED <<main[d], recv[d], processed_count[d], shown[d], current_count[d],
                           current_tail[d]>>
      BY <2>10 DEF Read, RecvOnly
    <3> QED
      BY <2>0, <2>10, <3>1, <3>2, OthersStay DEF Read, RecvOnly
  <2>11. ASSUME NEW c \in Clients, ReadUsers(c) PROVE WindowInv'
    <3>1. c \notin wiped => ViewGood(c)' /\ SnapshotGood(c)'
      <4>1. recv'[c] = AfterRound(c) /\ UNCHANGED <<messages, msg_count, processed_count, shown>>
        BY <2>11 DEF ReadUsers, RecvOnly, segment
      <4> QED
        BY <4>1 DEF AfterRound, ViewGood, SnapshotGood
    <3>2. \A d \in Clients \ {c} :
               UNCHANGED <<main[d], recv[d], processed_count[d], shown[d], current_count[d],
                           current_tail[d]>>
      BY <2>11 DEF ReadUsers, RecvOnly
    <3> QED
      BY <2>0, <2>11, <3>1, <3>2, OthersStay DEF ReadUsers, RecvOnly
  <2>12. ASSUME NEW c \in Clients,
                \/ TypeLine(c) \/ PressEsc(c) \/ SendLock(c) \/ Say(c) \/ Leave(c) \/ Unmap(c)
                \/ Close(c)
         PROVE  WindowInv'
    BY <2>1, <2>12 DEF TypeLine, PressEsc, SendLock, Say, Leave, Unmap, Close, SendOnly
  <2>13. CASE UNCHANGED vars
    BY <2>1, <2>13 DEF vars
  <2> QED
    BY <1>2, <2>2, <2>3, <2>5, <2>6, <2>7, <2>8, <2>9, <2>10, <2>11, <2>12, <2>13, StepCases
       DEF Finish, Crash, Kill
<1> QED
  BY <1>1, <1>2

-----------------------------------------------------------------------------
LEMMA IInvHolds == Spec => []IInv
<1>1. IInv /\ [Next]_vars => IInv'
  BY PlacesStep, LeavingStep, HolderStep, RingStep, ReaderTypesStep, WindowStep DEF IInv
<1> QED
  BY InitInv, <1>1, PTL DEF Spec

\* The semaphore is given back on every path: it is 1 when no thread of any
\* process is inside a critical section, and at most one is.
THEOREM SemaphoreTheorem == Spec => []SemaphoreConserved
<1>1. IInv => SemaphoreConserved
  BY HoldersCounted DEF IInv
<1> QED
  BY IInvHolds, <1>1, PTL

\* A client nobody killed takes the semaphore with it only on its way out,
\* when cleanup has unmapped the segment under receive_messages.
THEOREM WayOutTheorem == Spec => []LostOnlyOnTheWayOut
<1>1. IInv => LostOnlyOnTheWayOut
  BY DEF IInv, LeavingInv, LostOnlyOnTheWayOut
<1> QED
  BY IInvHolds, <1>1, PTL

\* Every window shows the beginning of the log, whatever the clients that
\* come, go and die.
THEOREM ViewTheorem == Spec => []ViewIsPrefix
<1>1. IInv => ViewIsPrefix
  BY ViewIsGood DEF IInv, WindowInv
<1> QED
  BY IInvHolds, <1>1, PTL

\* The loop over the new messages (191-201) never finds the tail of its
\* snapshot before the last message it counted.
THEOREM SpinTheorem == Spec => []ReaderNeverSpins
<1>1. ASSUME IInv PROVE ReaderNeverSpins
  <2> SUFFICES ASSUME NEW c \in Clients, In(c), recv[c] \in {"readWait", "read"}, c \notin wiped
               PROVE  ReadPos(c) # current_tail[c]
    BY DEF ReaderNeverSpins
  <2>1. /\ processed_count[c] \in Nat /\ msg_count \in Nat /\ current_count[c] \in Nat
        /\ processed_count[c] < current_count[c] /\ current_count[c] <= msg_count
        /\ current_tail[c] = current_count[c] /\ msg_count < MAX_MESSAGES
    BY <1>1, SizesAssumption DEF IInv, ReaderTypes, RingInv, WindowInv, SnapshotGood
  <2>2. processed_count[c] \in 0 .. MAX_MESSAGES /\ processed_count[c] < MAX_MESSAGES
    BY <2>1, SizesAssumption
  <2>3. ReadPos(c) = processed_count[c]
    BY <2>1, <2>2, ModIndex DEF ReadPos, msg_head
  <2> QED
    BY <2>1, <2>3
<1> QED
  BY IInvHolds, <1>1, PTL

-----------------------------------------------------------------------------
\* The table.

\* A non-empty set of slots has a smallest one: of the sets of the slots below
\* each of its members, take a minimal one.
LEMMA SmallestSlot ==
    ASSUME NEW S \in SUBSET Slots, S # {}
    PROVE  Min(S) \in S
<1> DEFINE Below(x) == {y \in S : y < x}
           Sets == {Below(x) : x \in S}
<1>1. IsFiniteSet(S) /\ S \subseteq Int
  <2>1. IsFiniteSet(Slots)
    BY FS_Interval, SizesAssumption DEF Slots
  <2>2. IsFiniteSet(S)
    BY <2>1, FS_Subset
  <2>3. \A x \in Slots : x \in Int
    BY SizesAssumption DEF Slots
  <2> QED
    BY <2>2, <2>3
<1>2. Sets \subseteq FiniteSubsetsOf(S) /\ Sets # {}
  <2>1. FiniteSubsetsOf(S) = SUBSET S
    BY <1>1, FS_FiniteSubsetsOfFinite
  <2>2. \A x \in S : Below(x) \in SUBSET S
    OBVIOUS
  <2>3. \A B \in Sets : B \in SUBSET S
    BY <2>2
  <2>4. PICK e \in S : TRUE
    OBVIOUS
  <2>5. Below(e) \in Sets
    OBVIOUS
  <2> HIDE DEF Sets
  <2> QED
    BY <2>1, <2>3, <2>5
<1>3. PICK B \in Sets : \A C \in Sets : ~(<<C, B>> \in StrictSubsetOrdering(S))
  BY <1>2, FS_StrictSubsetOrderingWellFounded, WFMin
<1>4. PICK x \in S : B = Below(x)
  OBVIOUS
<1>5. ASSUME NEW y \in S, y < x PROVE FALSE
  <2>1. Below(y) \subseteq Below(x) /\ y \in Below(x) /\ y \notin Below(y)
    <3>1. \A z \in S : z \in Int /\ (z < y => z < x) /\ ~(y < y)
      <4>1. x \in Int /\ y \in Int /\ \A z \in S : z \in Int
        BY <1>1
      <4> QED
        BY <4>1, <1>5
    <3> QED
      BY <3>1, <1>5
  <2>2. Below(y) # Below(x)
    BY <2>1
  <2>3. Below(y) \in SUBSET S /\ Below(x) \in SUBSET S
    OBVIOUS
  <2>4. <<Below(y), Below(x)>> \in StrictSubsetOrdering(S)
    BY <2>1, <2>2, <2>3 DEF StrictSubsetOrdering
  <2>5. Below(y) \in Sets
    OBVIOUS
  <2> QED
    BY <1>3, <1>4, <2>4, <2>5
<1>6. \A y \in S : x <= y
  BY <1>1, <1>5
<1> QED
  BY <1>6 DEF Min

LEMMA SlotsFinite == IsFiniteSet(ActiveSlots) /\ Cardinality(ActiveSlots) \in Nat
<1>1. IsFiniteSet(Slots)
  BY FS_Interval, SizesAssumption DEF Slots
<1> QED
  BY <1>1, FS_Subset, FS_CardinalityType DEF ActiveSlots

LEMMA MInit == Init => MInv
<1> SUFFICES ASSUME Init PROVE MInv
  OBVIOUS
<1>1. TableTypes
  BY DEF Init, TableTypes, NoClients, AllNames
<1>2. ActiveSlots = {}
  BY DEF Init, ActiveSlots, NoClients
<1>3. IdsInv /\ MembersInv
  BY DEF Init, IdsInv, MembersInv
<1> QED
  BY <1>1, <1>2, <1>3, InitInv DEF MInv, ListInv

\* The table stays, and nobody new is a member of the chat.
LEMMA MembersStay ==
    ASSUME TableTypes, IdsInv, ListInv, MembersInv,
           UNCHANGED <<segment, client_id, wiped>>, server' = "up" => server = "up",
           \A d \in Clients : In(d)' => In(d),
           \A d \in Clients : Registered(d)' => Registered(d) /\ my_name'[d] = my_name[d]
    PROVE  (TableTypes /\ IdsInv /\ ListInv /\ MembersInv)'
<1> USE DEF segment
<1>1. UNCHANGED <<ActiveSlots, clients, client_count, user_list, next_id>>
  BY DEF ActiveSlots
<1>2. TableTypes' /\ ListInv'
  BY <1>1 DEF TableTypes, ListInv
<1>3. IdsInv'
  BY <1>1 DEF IdsInv
<1>4. MembersInv'
  BY <1>1 DEF MembersInv
<1> QED
  BY <1>2, <1>3, <1>4

LEMMA MembersRegister ==
    ASSUME PlacesInv, ReaderTypes, TableTypes, IdsInv, ListInv, MembersInv,
           NEW c \in Clients, Register(c)
    PROVE  (TableTypes /\ IdsInv /\ ListInv /\ MembersInv)'
<1> DEFINE f == FirstFree
           n == my_name[c]
           new == [id |-> next_id, name |-> n, active |-> TRUE]
<1> USE DEF ReaderTypes
<1>1. f \in Slots \ ActiveSlots
  <2>1. Slots \ ActiveSlots \in SUBSET Slots /\ Slots \ ActiveSlots # {}
    BY DEF Register, ActiveSlots
  <2> HIDE DEF f
  <2>2. Min(Slots \ ActiveSlots) \in Slots \ ActiveSlots
    BY <2>1, SmallestSlot
  <2> QED
    BY <2>2 DEF FirstFree, f
<1>2. /\ clients' = [clients EXCEPT ![f] = new]
      /\ user_list' = NewUserList(n)
      /\ client_id' = [client_id EXCEPT ![c] = next_id]
      /\ next_id' = next_id + 1 /\ client_count' = client_count + 1
      /\ main' = [main EXCEPT ![c] = "in"] /\ send' = [send EXCEPT ![c] = "type"]
      /\ UNCHANGED <<server, my_name, wiped>> /\ ~NameTaken(n)
  BY DEF Register, Goto
<1>3. n \in AllNames /\ next_id \in Nat /\ new \in [id : Nat, name : AllNames, active : BOOLEAN]
  BY DEF PlacesInv
<1> HIDE DEF f, n, new
<1>4. TableTypes'
  BY <1>1, <1>2, <1>3 DEF TableTypes
<1>5. /\ \A s \in Slots : clients'[s] = IF s = f THEN new ELSE clients[s]
      /\ new.id = next_id /\ new.name = n /\ new.active
  BY <1>1, <1>2 DEF TableTypes, new
<1>6. ActiveSlots' = ActiveSlots \cup {f}
  BY <1>1, <1>5 DEF ActiveSlots
<1>7. ListInv'
  BY <1>2, <1>5, <1>6 DEF ListInv, NewUserList, ActiveSlots
<1>8. ASSUME server = "up", wiped = {} PROVE IdsInv'
  <2>1. \A s \in ActiveSlots' : clients'[s].id < next_id'
    <3>1. \A s \in ActiveSlots : clients[s].id \in Nat
      BY DEF TableTypes, ActiveSlots
    <3> QED
      BY <1>2, <1>3, <1>5, <1>6, <1>8, <3>1 DEF IdsInv, ActiveSlots
  <2>2. \A d \in Clients : client_id'[d] < next_id' /\ (d # c => client_id'[d] < next_id)
    <3>1. \A d \in Clients : client_id[d] < next_id /\ client_id[d] \in Int
      BY <1>8 DEF IdsInv
    <3>2. \A d \in Clients : client_id'[d] = IF d = c THEN next_id ELSE client_id[d]
      BY <1>2
    <3>3. next_id' = next_id + 1
      BY <1>2
    <3> QED
      BY ONLY <1>3, <3>1, <3>2, <3>3
  <2>3. \A d \in Clients : In(d)' /\ d # c => In(d)
    BY <1>2 DEF In, PlacesInv
  <2>4. client_id'[c] = next_id /\ \A d \in Clients : d # c => client_id'[d] = client_id[d]
    BY <1>2
  <2>5. \A d, e \in Clients : In(d)' /\ In(e)' /\ client_id'[d] = client_id'[e] => d = e
    <3>1. \A d \in Clients : d # c => client_id'[d] # next_id
      BY <2>2, <1>3
    <3> QED
      BY <1>8, <2>3, <2>4, <3>1 DEF IdsInv
  <2> QED
    BY <2>1, <2>2, <2>5 DEF IdsInv
<1>9. ASSUME server = "up", wiped = {} PROVE MembersInv'
  <2>1. client_count' = Cardinality(ActiveSlots')
    <3>1. Cardinality(ActiveSlots \cup {f}) = Cardinality(ActiveSlots) + 1
      BY <1>1, SlotsFinite, FS_AddElement
    <3> QED
      BY <1>2, <1>6, <1>9, <3>1 DEF MembersInv
  <2>2. \A s, t \in ActiveSlots' : s # t => /\ clients'[s].name # clients'[t].name
                                            /\ clients'[s].id # clients'[t].id
    <3>1. \A s \in ActiveSlots : /\ s # f /\ s \in Slots
                                   /\ clients[s].name # n /\ clients[s].id # next_id
      <4>1. \A s \in ActiveSlots : clients[s].id \in Nat /\ clients[s].id < next_id
        BY <1>9 DEF TableTypes, ActiveSlots, IdsInv
      <4>2. \A s \in ActiveSlots : clients[s].id # next_id
        BY <4>1, <1>3
      <4> QED
        BY <1>1, <1>2, <4>2 DEF NameTaken, ActiveSlots
    <3>2. \A s \in ActiveSlots : clients'[s] = clients[s]
      BY <1>5, <3>1
    <3>3. clients'[f] = new
      BY <1>1, <1>5
    <3>4. \A s \in ActiveSlots : /\ clients'[f].name # clients'[s].name
                                   /\ clients'[f].id # clients'[s].id
      BY <1>5, <3>1, <3>2, <3>3
    <3>5. \A s, t \in ActiveSlots : s # t => /\ clients'[s].name # clients'[t].name
                                               /\ clients'[s].id # clients'[t].id
      <4>1. \A s, t \in ActiveSlots : s # t => /\ clients[s].name # clients[t].name
                                                 /\ clients[s].id # clients[t].id
        BY <1>9 DEF MembersInv
      <4> QED
        BY <3>2, <4>1
    <3> QED
      BY <1>6, <3>4, <3>5
  <2>3. ASSUME NEW d \in Clients, Registered(d)'
        PROVE  \E s \in ActiveSlots' : /\ clients'[s].id = client_id'[d]
                                       /\ clients'[s].name = my_name'[d]
    <3>1. CASE d = c
      BY <1>1, <1>2, <1>5, <1>6, <3>1 DEF n
    <3>2. CASE d # c
      <4>1. Registered(d)
        BY <1>2, <2>3, <3>2 DEF Registered, In, PlacesInv
      <4>2. PICK s \in ActiveSlots : clients[s].id = client_id[d] /\ clients[s].name = my_name[d]
        BY <1>9, <4>1 DEF MembersInv
      <4>3. s \in ActiveSlots' /\ clients'[s] = clients[s]
        BY <1>1, <1>5, <1>6 DEF ActiveSlots
      <4> QED
        BY <1>2, <3>2, <4>2, <4>3
    <3> QED
      BY <3>1, <3>2
  <2> QED
    BY <2>1, <2>2, <2>3 DEF MembersInv
<1> QED
  BY <1>2, <1>4, <1>7, <1>8, <1>9 DEF IdsInv, MembersInv

LEMMA MembersLeave ==
    ASSUME PlacesInv, ReaderTypes, TableTypes, IdsInv, ListInv, MembersInv,
           NEW c \in Clients, Leave(c)
    PROVE  (TableTypes /\ IdsInv /\ ListInv /\ MembersInv)'
<1>1. /\ UNCHANGED <<server, main, client_id, my_name, wiped, next_id, user_list>>
      /\ send' = [send EXCEPT ![c] = "unmap"] /\ In(c) /\ send[c] = "leave"
  BY DEF Leave, SendOnly, Goto
<1>2. \A d \in Clients : Registered(d)' => Registered(d) /\ d # c
  BY <1>1 DEF Registered, In, PlacesInv
<1>3. CASE OwnSlots(c) = {}
  <2>1. UNCHANGED <<clients, client_count>>
    BY <1>3 DEF Leave
  <2>2. UNCHANGED ActiveSlots
    BY <2>1 DEF ActiveSlots
  <2>3. TableTypes' /\ ListInv' /\ IdsInv'
    BY <1>1, <2>1, <2>2 DEF TableTypes, ListInv, IdsInv, In
  <2>4. MembersInv'
    BY <1>1, <1>2, <2>1, <2>2 DEF MembersInv
  <2> QED
    BY <2>3, <2>4
<1>4. CASE OwnSlots(c) # {}
  <2> DEFINE o == Min(OwnSlots(c))
  <2>1. o \in OwnSlots(c)
    <3>1. OwnSlots(c) \in SUBSET Slots
      BY DEF OwnSlots, ActiveSlots
    <3> QED
      BY <1>4, <3>1, SmallestSlot
  <2>2. clients' = [clients EXCEPT ![o].active = FALSE] /\ client_count' = client_count - 1
    BY <1>4 DEF Leave
  <2> HIDE DEF o
  <2>3. o \in ActiveSlots /\ o \in Slots /\ clients[o].id = client_id[c]
    BY <2>1 DEF OwnSlots, ActiveSlots
  <2>4. TableTypes'
    <3> DEFINE Record == [id : Nat, name : AllNames, active : BOOLEAN]
    <3>1. [clients[o] EXCEPT !.active = FALSE] \in Record
      BY <2>3 DEF TableTypes
    <3>2. clients' = [clients EXCEPT ![o] = [clients[o] EXCEPT !.active = FALSE]]
      BY <2>2
    <3>3. clients \in [Slots -> Record] /\ client_count' \in Int
      BY <2>2 DEF TableTypes
    <3>4. clients' \in [Slots -> Record]
      <4> HIDE DEF Record
      <4> QED
        BY <3>1, <3>2, <3>3
    <3> QED
      BY <3>3, <3>4 DEF TableTypes
  <2>5. /\ \A s \in Slots : /\ clients'[s].id = clients[s].id /\ clients'[s].name = clients[s].name
                            /\ clients'[s].active <=> (clients[s].active /\ s # o)
    BY <2>2 DEF TableTypes
  <2>6. ActiveSlots' = ActiveSlots \ {o}
    BY <2>5 DEF ActiveSlots
  <2>7. \A s \in ActiveSlots' : /\ s \in ActiveSlots /\ clients'[s].id = clients[s].id
                                /\ clients'[s].name = clients[s].name
    BY <2>5, <2>6 DEF ActiveSlots
  <2>8. ListInv'
    BY <1>1, <2>7 DEF ListInv
  <2>9. IdsInv'
    BY <1>1, <2>7 DEF IdsInv, In
  <2>10. ASSUME server = "up", wiped = {} PROVE MembersInv'
    <3>1. client_count' = Cardinality(ActiveSlots')
      <4>1. Cardinality(ActiveSlots \ {o}) = Cardinality(ActiveSlots) - 1
        BY <2>3, SlotsFinite, FS_RemoveElement
      <4> QED
        BY <2>2, <2>6, <2>10, <4>1 DEF MembersInv
    <3>2. \A s, t \in ActiveSlots' : s # t => /\ clients'[s].name # clients'[t].name
                                              /\ clients'[s].id # clients'[t].id
      BY <2>7, <2>10 DEF MembersInv
    <3>3. ASSUME NEW d \in Clients, Registered(d)'
          PROVE  \E s \in ActiveSlots' : /\ clients'[s].id = client_id'[d]
                                         /\ clients'[s].name = my_name'[d]
      <4>1. Registered(d) /\ d # c
        BY <1>2, <3>3
      <4>2. PICK s \in ActiveSlots : clients[s].id = client_id[d] /\ clients[s].name = my_name[d]
        BY <2>10, <4>1 DEF MembersInv
      <4>3. client_id[d] # client_id[c]
        BY <1>1, <2>10, <4>1 DEF IdsInv, Registered
      <4>4. s # o
        BY <2>3, <4>2, <4>3
      <4> QED
        BY <1>1, <2>6, <2>7, <4>2, <4>4
    <3> QED
      BY <3>1, <3>2, <3>3 DEF MembersInv
  <2> QED
    BY <1>1, <2>4, <2>8, <2>9, <2>10 DEF MembersInv
<1> QED
  BY <1>3, <1>4

LEMMA MembersStep ==
    ASSUME IInv, TableTypes, IdsInv, ListInv, MembersInv, [Next]_vars
    PROVE  (TableTypes /\ IdsInv /\ ListInv /\ MembersInv)'
<1> DEFINE Kept == (TableTypes /\ IdsInv /\ ListInv /\ MembersInv)'
<1> USE DEF IInv
<1>1. CASE ServerInit
  <2>1. /\ clients' = NoClients /\ client_count' = 0 /\ next_id' = 1
        /\ wiped' = {c \in Clients : client_id[c] # -1}
        /\ UNCHANGED <<main, client_id>>
    BY <1>1 DEF ServerInit, locals
  <2>2. ActiveSlots' = {}
    BY <2>1 DEF ActiveSlots, NoClients
  <2>3. TableTypes' /\ ListInv'
    BY <2>1, <2>2 DEF TableTypes, NoClients, AllNames, ListInv
  <2>4. ASSUME wiped' = {} PROVE \A c \in Clients : client_id'[c] = -1 /\ ~In(c)'
    BY <2>1, <2>4 DEF ReaderTypes, In
  <2>5. IdsInv' /\ MembersInv'
    BY <2>1, <2>2, <2>4, FS_EmptySet DEF IdsInv, MembersInv, Registered
  <2> QED
    BY <2>3, <2>5
<1>2. CASE ServerStop
  <2>1. /\ server' # "up" /\ UNCHANGED <<client_count, user_list>>
        /\ clients' = [s \in Slots |-> [clients[s] EXCEPT !.active = FALSE]]
    BY <1>2 DEF ServerStop
  <2>2. \A s \in Slots : [clients[s] EXCEPT !.active = FALSE] \in
                             [id : Nat, name : AllNames, active : BOOLEAN]
    BY DEF TableTypes
  <2>3. TableTypes'
    BY <2>1, <2>2 DEF TableTypes
  <2>4. \A s \in Slots : ~clients'[s].active
    BY <2>1 DEF TableTypes
  <2>5. ActiveSlots' = {}
    BY <2>4 DEF ActiveSlots
  <2> QED
    BY <2>1, <2>3, <2>5 DEF ListInv, IdsInv, MembersInv
<1>3. ASSUME NEW c \in Clients, Register(c) PROVE Kept
  BY <1>3, MembersRegister
<1>4. ASSUME NEW c \in Clients, Leave(c) PROVE Kept
  BY <1>4, MembersLeave
<1>5. ASSUME NEW c \in Clients, Say(c) PROVE Kept
  <2>1. UNCHANGED <<clients, client_count, next_id, user_list, client_id, my_name, wiped, server,
                     main>>
    BY <1>5 DEF Say, SendOnly
  <2>2. UNCHANGED ActiveSlots
    BY <2>1 DEF ActiveSlots
  <2>3. \A d \in Clients : Registered(d)' => Registered(d)
    BY <1>5, <2>1 DEF Say, Goto, Registered, In, PlacesInv
  <2> QED
    BY <2>1, <2>2, <2>3 DEF TableTypes, IdsInv, ListInv, MembersInv, In
<1> USE DEF PlacesInv, Registered, In, Goto, locals
<1>6. CASE ServerLock
  BY <1>6, MembersStay DEF ServerLock
<1>7. ASSUME NEW c \in Clients, NEW n \in Names, Open(c, n) PROVE Kept
  BY <1>7, MembersStay DEF Open
<1>8. ASSUME NEW c \in Clients, RegisterLock(c) \/ Refuse(c) PROVE Kept
  BY <1>8, MembersStay DEF RegisterLock, Refuse
<1>9. ASSUME NEW c \in Clients, Ends(c), UNCHANGED <<server, segment, wiped>> PROVE Kept
  BY <1>9, MembersStay DEF Ends
<1>10. ASSUME NEW c \in Clients, RecvLock(c) \/ Snapshot(c) \/ Read(c) \/ ReadUsers(c) PROVE Kept
  BY <1>10, MembersStay DEF RecvLock, Snapshot, Read, ReadUsers, RecvOnly
<1>11. ASSUME NEW c \in Clients, TypeLine(c) \/ PressEsc(c) \/ SendLock(c) PROVE Kept
  BY <1>11, MembersStay DEF TypeLine, PressEsc, SendLock, SendOnly
<1>12. ASSUME NEW c \in Clients, Unmap(c) \/ Close(c) PROVE Kept
  BY <1>12, MembersStay DEF Unmap, Close, SendOnly
<1>13. CASE UNCHANGED vars
  BY <1>13, MembersStay DEF vars
<1> QED
  BY <1>1, <1>2, <1>3, <1>4, <1>5, <1>6, <1>7, <1>8, <1>9, <1>10, <1>11, <1>12, <1>13, StepCases
     DEF Finish, Crash, Kill

\* While the server is up, and unless it started over somebody, the table is
\* the membership of the chat; user_list misses nobody at any time.
THEOREM MembershipTheorem == Spec => []Membership
<1>1. Init => MInv
  BY MInit
<1>2. MInv /\ [Next]_vars => MInv'
  <2>1. IInv /\ [Next]_vars => IInv'
    BY PlacesStep, LeavingStep, HolderStep, RingStep, ReaderTypesStep, WindowStep DEF IInv
  <2> QED
    BY <2>1, MembersStep DEF MInv
<1>3. MInv => Membership
  BY DEF MInv, ListInv, MembersInv, Membership
<1> QED
  BY <1>1, <1>2, <1>3, PTL DEF Spec

=============================================================================
