------------------------------ MODULE ShmChat ------------------------------
(***************************************************************************)
(* lab14/chat_client.c and lab14/chat_server.c: a chat in shared memory.   *)
(* The server creates the segment and its semaphore; each client process   *)
(* registers, and then runs a thread that shows new messages (recv) and    *)
(* one that reads the keyboard (send).  All of them work on the segment    *)
(* under the semaphore `mutex`, except the server when it stops.  msg_head *)
(* is never advanced: the ring is a log that fills up once.                *)
(*                                                                         *)
(* A critical section is two steps: sem_wait, then the body with sem_post. *)
(* In between the process may die, or the other thread may unmap what the  *)
(* body is about to read.  The semaphore msg_count only wakes the server's *)
(* dispatcher, which does nothing, and is left out.                        *)
(***************************************************************************)
EXTENDS Integers, FiniteSets, SequencesExt

CONSTANTS
    Clients,     \* the client processes, each started once
    Names,       \* the names their users enter
    NoName,      \* the empty string
    MAX_CLIENTS,
    MAX_MESSAGES,
    MaxFaults    \* bound: clients killed from outside, and stops of the server

ASSUME SizesAssumption ==
    MAX_CLIENTS \in Nat \ {0} /\ MAX_MESSAGES \in Nat \ {0, 1}
ASSUME BoundsAssumption == MaxFaults \in Nat
ASSUME NamesAssumption == NoName \notin Names

VARIABLES
    server,        \* where the server is; "jammed" if it stopped inside its section
    mutex,         \* the value of the semaphore
    clients,       \* the table of registered clients
    client_count, next_id, msg_count, msg_tail,
    messages,      \* the ring
    user_list,     \* the names in user_list
    main,          \* where the main thread of each client is; "gone" ends all three,
                   \* and "lost" too, killed inside its section
    recv, send,    \* where receive_messages and send_messages are
    my_name, client_id, running,
    processed_count, current_count, current_tail,
    shown,         \* history: the messages add_message has displayed
    faults,        \* kills and stops so far
    killed,        \* history: clients killed from outside
    wiped          \* history: clients whose registration the server erased

segment == <<clients, client_count, next_id, msg_count, msg_tail, messages, user_list>>
locals == <<my_name, client_id, running, processed_count, current_count, current_tail, shown>>
vars == <<server, mutex, segment, main, recv, send, locals, faults, killed, wiped>>

Slots == 0 .. MAX_CLIENTS - 1
Positions == 0 .. MAX_MESSAGES - 1
msg_head == 0

\* What ftruncate and memset leave: zero bytes.
NoClients == [s \in Slots |-> [id |-> 0, name |-> NoName, active |-> FALSE]]
NoMessages == [p \in Positions |-> [what |-> "say", name |-> NoName]]

\* The locations of a thread inside a critical section, and before one.
Waiting == {"snapWait", "readWait", "usersWait", "sayWait", "leaveWait"}
Holding == {"snap", "read", "users", "say", "leave"}

Init ==
    /\ server = "created" /\ mutex = 1
    /\ clients = NoClients /\ messages = NoMessages
    /\ client_count = 0 /\ next_id = 0 /\ msg_count = 0 /\ msg_tail = 0
    /\ user_list = {}
    /\ main = [c \in Clients |-> "out"]
    /\ recv = [c \in Clients |-> "none"] /\ send = [c \in Clients |-> "none"]
    /\ my_name = [c \in Clients |-> NoName]
    /\ client_id = [c \in Clients |-> -1]
    /\ running = [c \in Clients |-> TRUE]
    /\ processed_count = [c \in Clients |-> 0]
    /\ current_count = [c \in Clients |-> 0] /\ current_tail = [c \in Clients |-> 0]
    /\ shown = [c \in Clients |-> <<>>]
    /\ faults = 0 /\ killed = {} /\ wiped = {}

-----------------------------------------------------------------------------
(* The semaphore and the ring.                                              *)

Acquire == mutex = 1 /\ mutex' = 0
Release == mutex' = mutex + 1

Goto(thread, c, loc) == [thread EXCEPT ![c] = loc]

\* The threads of c run, and c has not yet unmapped the segment or closed the
\* semaphores (156-170).
In(c) == main[c] = "in"
Mapped(c) == send[c] \notin {"close", "exited"}
SemOpen(c) == send[c] # "exited"

NextTail == (msg_tail + 1) % MAX_MESSAGES

\* Append a message unless the ring is full.
Mut_Post(what, n) ==
    /\ messages' = [messages EXCEPT ![msg_tail] = [what |-> what, name |-> n]]
    /\ msg_tail' = NextTail
    /\ msg_count' = IF msg_count < MAX_MESSAGES - 1 THEN msg_count + 1 ELSE msg_count

Post(what, n) ==
    IF NextTail # msg_head
    THEN /\ messages' = [messages EXCEPT ![msg_tail] = [what |-> what, name |-> n]]
         /\ msg_tail' = NextTail
         /\ msg_count' = msg_count + 1
    ELSE UNCHANGED <<messages, msg_tail, msg_count>>

\* The process of c ends, and its memory with it.  A thread that was inside a
\* critical section is "lost": it never posts the semaphore.
Ends(c) ==
    /\ main' = Goto(main, c, IF main[c] = "reg" THEN "lost" ELSE "gone")
    /\ recv' = Goto(recv, c, IF recv[c] \in Holding THEN "lost" ELSE "none")
    /\ send' = Goto(send, c, IF send[c] \in Holding THEN "lost" ELSE "none")
    /\ processed_count' = [processed_count EXCEPT ![c] = 0]
    /\ current_count' = [current_count EXCEPT ![c] = 0]
    /\ current_tail' = [current_tail EXCEPT ![c] = 0]
    /\ shown' = [shown EXCEPT ![c] = <<>>]
    /\ UNCHANGED <<my_name, client_id, running>>

-----------------------------------------------------------------------------
(* The server (chat_server.c).                                              *)

\* Segment and semaphores exist: clients may come in before this section.
ServerLock ==
    /\ server = "created" /\ Acquire
    /\ server' = "locked"
    /\ UNCHANGED <<segment, main, recv, send, locals, faults, killed, wiped>>

ServerInit ==
    /\ server = "locked" /\ Release
    /\ server' = "up"
    /\ clients' = NoClients /\ messages' = NoMessages
    /\ client_count' = 0 /\ next_id' = 1 /\ msg_count' = 0 /\ msg_tail' = 0
    /\ user_list' = {}
    /\ wiped' = {c \in Clients : client_id[c] # -1}
    /\ UNCHANGED <<main, recv, send, locals, faults, killed>>

\* Ctrl+C at any time: deactivate everyone, without the semaphore, and unlink.
ServerStop ==
    /\ server \in {"created", "locked", "up"} /\ faults < MaxFaults
    /\ faults' = faults + 1
    /\ server' = IF server = "locked" THEN "jammed" ELSE "stopped"
    /\ clients' = [s \in Slots |-> [clients[s] EXCEPT !.active = FALSE]]
    /\ UNCHANGED <<mutex, client_count, next_id, msg_count, msg_tail, messages, user_list,
                   main, recv, send, locals, killed, wiped>>

-----------------------------------------------------------------------------
(* A client's main thread.                                                  *)

\* A name is entered and the server's objects opened; they must exist.
Open(c, n) ==
    /\ main[c] = "out"
    /\ server \in {"created", "locked", "up"}
    /\ main' = Goto(main, c, "wait")
    /\ my_name' = [my_name EXCEPT ![c] = n]
    /\ UNCHANGED <<server, mutex, segment, recv, send, client_id, running, processed_count,
                   current_count, current_tail, shown, faults, killed, wiped>>

RegisterLock(c) ==
    /\ main[c] = "wait" /\ Acquire
    /\ main' = Goto(main, c, "reg")
    /\ UNCHANGED <<server, segment, recv, send, locals, faults, killed, wiped>>

ActiveSlots == {s \in Slots : clients[s].active}

Mut_NameTaken(n) == \E s \in ActiveSlots \ {0} : clients[s].name = n

NameTaken(n) == \E s \in ActiveSlots : clients[s].name = n
FirstFree == Min(Slots \ ActiveSlots)

\* user_list is rebuilt from the active slots, the new one among them.
NewUserList(n) == {clients[s].name : s \in ActiveSlots} \cup {n}

Mut_Refuse(c) ==
    /\ main[c] = "reg"
    /\ NameTaken(my_name[c]) \/ ActiveSlots = Slots
    /\ UNCHANGED mutex
    /\ main' = Goto(main, c, "gone")
    /\ UNCHANGED <<server, segment, recv, send, locals, faults, killed, wiped>>

\* The name is taken or the table is full: release, clean up and exit(1).
Refuse(c) ==
    /\ main[c] = "reg"
    /\ NameTaken(my_name[c]) \/ ActiveSlots = Slots
    /\ Release
    /\ main' = Goto(main, c, "gone")
    /\ UNCHANGED <<server, segment, recv, send, locals, faults, killed, wiped>>

\* Take the first free slot, rebuild user_list, announce the newcomer; then
\* the windows are made and the two threads start.
Register(c) ==
    /\ main[c] = "reg"
    /\ ~NameTaken(my_name[c]) /\ ActiveSlots # Slots
    /\ Release
    /\ LET n == my_name[c]
       IN /\ clients' = [clients EXCEPT ![FirstFree] =
                           [id |-> next_id, name |-> n, active |-> TRUE]]
          /\ user_list' = NewUserList(n)
          /\ Post("join", n)
    /\ client_id' = [client_id EXCEPT ![c] = next_id]
    /\ next_id' = next_id + 1 /\ client_count' = client_count + 1
    /\ main' = Goto(main, c, "in")
    /\ recv' = Goto(recv, c, "snapWait") /\ send' = Goto(send, c, "type")
    /\ UNCHANGED <<server, my_name, running, processed_count, current_count, current_tail,
                   shown, faults, killed, wiped>>

\* Both threads are joined; cleanup() runs once more, on the semaphore it has
\* already closed, and the process ends there with SIGSEGV (132).
Finish(c) ==
    /\ In(c)
    /\ recv[c] = "done" /\ send[c] = "exited"
    /\ Ends(c)
    /\ UNCHANGED <<server, mutex, segment, faults, killed, wiped>>

-----------------------------------------------------------------------------
(* receive_messages.                                                        *)

RecvOnly == UNCHANGED <<server, segment, main, send, my_name, client_id, running, faults, killed, wiped>>
NoReading == UNCHANGED <<processed_count, current_count, current_tail, shown>>

\* The loops test `running` and the counts right after a section; only this
\* client's ESC changes what they test, so the test is made with the section.
AfterRound(c) == IF running[c] THEN "snapWait" ELSE "done"

MoreToRead(c, processed, count) ==
    IF processed < count /\ running[c] THEN "readWait" ELSE "usersWait"

RecvLock(c) ==
    /\ In(c) /\ SemOpen(c)
    /\ \/ recv[c] = "snapWait"  /\ recv' = Goto(recv, c, "snap")
       \/ recv[c] = "readWait"  /\ recv' = Goto(recv, c, "read")
       \/ recv[c] = "usersWait" /\ recv' = Goto(recv, c, "users")
    /\ Acquire
    /\ RecvOnly /\ NoReading

Snapshot(c) ==
    /\ In(c) /\ recv[c] = "snap" /\ Mapped(c)
    /\ Release
    /\ current_count' = [current_count EXCEPT ![c] = msg_count]
    /\ current_tail' = [current_tail EXCEPT ![c] = msg_tail]
    /\ recv' = Goto(recv, c, MoreToRead(c, processed_count[c], msg_count))
    /\ RecvOnly /\ UNCHANGED <<processed_count, shown>>

ReadPos(c) == (msg_head + processed_count[c]) % MAX_MESSAGES

Mut_Read(c) ==
    /\ In(c) /\ recv[c] = "read" /\ Mapped(c)
    /\ Release
    /\ shown' = [shown EXCEPT ![c] = Append(@, messages[(msg_tail + MAX_MESSAGES - 1) % MAX_MESSAGES])]
    /\ processed_count' = [processed_count EXCEPT ![c] = @ + 1]
    /\ recv' = Goto(recv, c, MoreToRead(c, processed_count'[c], current_count[c]))
    /\ RecvOnly /\ UNCHANGED <<current_count, current_tail>>

\* Show the next message, unless its place is the tail of the snapshot.
Read(c) ==
    /\ In(c) /\ recv[c] = "read" /\ Mapped(c)
    /\ Release
    /\ IF ReadPos(c) # current_tail[c]
       THEN /\ shown' = [shown EXCEPT ![c] = Append(@, messages[ReadPos(c)])]
            /\ processed_count' = [processed_count EXCEPT ![c] = @ + 1]
       ELSE UNCHANGED <<shown, processed_count>>
    /\ recv' = Goto(recv, c, MoreToRead(c, processed_count'[c], current_count[c]))
    /\ RecvOnly /\ UNCHANGED <<current_count, current_tail>>

\* update_user_list copies user_list into the window; the locals of this round
\* of the loop end with it.
ReadUsers(c) ==
    /\ In(c) /\ recv[c] = "users" /\ Mapped(c)
    /\ Release
    /\ recv' = Goto(recv, c, AfterRound(c))
    /\ current_count' = [current_count EXCEPT ![c] = 0]
    /\ current_tail' = [current_tail EXCEPT ![c] = 0]
    /\ RecvOnly /\ UNCHANGED <<processed_count, shown>>

\* The other thread has unmapped the segment or closed the semaphore under
\* this one: SIGSEGV ends the process, and what this thread holds stays held.
Crash(c) ==
    /\ In(c)
    /\ \/ recv[c] \in Holding /\ ~Mapped(c)
       \/ recv[c] \in Waiting /\ ~SemOpen(c)
    /\ Ends(c)
    /\ UNCHANGED <<server, mutex, segment, faults, killed, wiped>>

-----------------------------------------------------------------------------
(* send_messages.                                                           *)

SendOnly == UNCHANGED <<server, main, recv, my_name, client_id, processed_count, current_count,
                        current_tail, shown, faults, killed, wiped>>

\* A line is typed, or ESC, which also ends receive_messages's loops.
TypeLine(c) ==
    /\ In(c) /\ send[c] = "type"
    /\ send' = Goto(send, c, "sayWait")
    /\ SendOnly /\ UNCHANGED <<mutex, segment, running>>

Mut_PressEsc(c) ==
    /\ In(c) /\ send[c] = "type"
    /\ send' = Goto(send, c, "leaveWait")
    /\ UNCHANGED running
    /\ SendOnly /\ UNCHANGED <<mutex, segment>>

PressEsc(c) ==
    /\ In(c) /\ send[c] = "type"
    /\ send' = Goto(send, c, "leaveWait")
    /\ running' = [running EXCEPT ![c] = FALSE]
    /\ SendOnly /\ UNCHANGED <<mutex, segment>>

SendLock(c) ==
    /\ In(c)
    /\ \/ send[c] = "sayWait"   /\ send' = Goto(send, c, "say")
       \/ send[c] = "leaveWait" /\ send' = Goto(send, c, "leave")
    /\ Acquire
    /\ SendOnly /\ UNCHANGED <<segment, running>>

Say(c) ==
    /\ In(c) /\ send[c] = "say"
    /\ Release
    /\ Post("say", my_name[c])
    /\ send' = Goto(send, c, "type")
    /\ SendOnly /\ UNCHANGED <<clients, client_count, next_id, user_list, running>>

OwnSlots(c) == {s \in ActiveSlots : clients[s].id = client_id[c]}

\* cleanup's section: free the slot and announce it; user_list stays as it is.
Leave(c) ==
    /\ In(c) /\ send[c] = "leave"
    /\ Release
    /\ IF OwnSlots(c) = {}
       THEN UNCHANGED <<clients, client_count, messages, msg_tail, msg_count>>
       ELSE /\ clients' = [clients EXCEPT ![Min(OwnSlots(c))].active = FALSE]
            /\ client_count' = client_count - 1
            /\ Post("leave", my_name[c])
    /\ send' = Goto(send, c, "unmap")
    /\ SendOnly /\ UNCHANGED <<next_id, user_list, running>>

\* The rest of cleanup, without the semaphore: munmap, then sem_close; then
\* pthread_exit.
Unmap(c) ==
    /\ In(c) /\ send[c] = "unmap"
    /\ send' = Goto(send, c, "close")
    /\ SendOnly /\ UNCHANGED <<mutex, segment, running>>

Close(c) ==
    /\ In(c) /\ send[c] = "close"
    /\ send' = Goto(send, c, "exited")
    /\ SendOnly /\ UNCHANGED <<mutex, segment, running>>

-----------------------------------------------------------------------------
\* A client is killed from outside, wherever it is.
Kill(c) ==
    /\ main[c] \in {"wait", "reg", "in"}
    /\ faults < MaxFaults
    /\ faults' = faults + 1
    /\ killed' = killed \cup {c}
    /\ Ends(c)
    /\ UNCHANGED <<server, mutex, segment, wiped>>

RecvStep(c) == Snapshot(c) \/ Read(c) \/ ReadUsers(c)

SendStep(c) == Say(c) \/ Leave(c) \/ Unmap(c) \/ Close(c)

Next ==
    \/ ServerLock \/ ServerInit \/ ServerStop
    \/ \E c \in Clients :
         \/ \E n \in Names : Open(c, n)
         \/ RegisterLock(c) \/ Refuse(c) \/ Register(c) \/ Finish(c)
         \/ RecvLock(c) \/ RecvStep(c) \/ Crash(c)
         \/ TypeLine(c) \/ PressEsc(c) \/ SendLock(c) \/ SendStep(c)
         \/ Kill(c)

Spec == Init /\ [][Next]_vars

-----------------------------------------------------------------------------
(* Properties.                                                              *)

Dead(c) == main[c] \in {"gone", "lost"}

Holders ==
    {<<c, "main">> : c \in {d \in Clients : main[d] \in {"reg", "lost"}}}
    \cup {<<c, "recv">> : c \in {d \in Clients : recv[d] \in Holding \cup {"lost"}}}
    \cup {<<c, "send">> : c \in {d \in Clients : send[d] \in Holding \cup {"lost"}}}

\* The semaphore is given back on every path: at most one thread of all the
\* processes is inside a critical section, and it is 1 when none is.
SemaphoreConserved ==
    mutex + Cardinality(Holders) + (IF server \in {"locked", "jammed"} THEN 1 ELSE 0) = 1

\* A client that nobody killed takes the semaphore to its grave only on its
\* way out, in receive_messages, when cleanup (156-170) has pulled the segment
\* from under it; never while it chats, registers, speaks or leaves.
LostOnlyOnTheWayOut ==
    \A c \in Clients \ killed : Dead(c) =>
        /\ main[c] # "lost" /\ send[c] # "lost"
        /\ recv[c] = "lost" => ~running[c]

\* " Enter message (ESC to exit) " (chat_client.c:420): one who leaves with ESC
\* does not end holding the semaphore, which would stop everybody else.
EscReleases ==
    \A c \in Clients \ killed : Dead(c) /\ ~running[c] => recv[c] # "lost"

Registered(c) == In(c) /\ send[c] \notin {"unmap", "close", "exited"}

\* While the server is up, and unless it erased someone when it started, the
\* table is the membership of the chat: one active slot with its own id and
\* name for everybody who registered and did not leave, no name or id twice,
\* and client_count counts them.  user_list, rebuilt only when somebody joins,
\* misses nobody at any time (it may name some who have left).
Membership ==
    /\ {clients[s].name : s \in ActiveSlots} \subseteq user_list
    /\ server = "up" /\ wiped = {} =>
        /\ client_count = Cardinality(ActiveSlots)
        /\ \A s, t \in ActiveSlots : s # t => /\ clients[s].name # clients[t].name
                                              /\ clients[s].id # clients[t].id
        /\ \A c \in Clients : Registered(c) =>
             \E s \in ActiveSlots : clients[s].id = client_id[c] /\ clients[s].name = my_name[c]

Log == [k \in 1 .. msg_count |-> messages[k - 1]]

\* Everyone sees one conversation: what a window shows is the beginning of the
\* log, nothing skipped, repeated or out of order, although receive_messages
\* reads with a count and a tail taken in an earlier section.
ViewIsPrefix ==
    \A c \in Clients \ wiped : /\ processed_count[c] <= msg_count
                               /\ shown[c] = SubSeq(Log, 1, processed_count[c])

\* A reader that was promised a message finds one: the inner loop (191-201),
\* which retries without a pause, never spins at the tail of its snapshot.
ReaderNeverSpins ==
    \A c \in Clients : In(c) /\ recv[c] \in {"readWait", "read"} /\ c \notin wiped =>
        ReadPos(c) # current_tail[c]

=============================================================================
