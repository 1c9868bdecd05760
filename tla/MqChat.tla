------------------------------- MODULE MqChat -------------------------------
(***************************************************************************)
(* lab13/chat_client.c and lab13/chat_server.c: a chat over POSIX message  *)
(* queues.  All clients write to the server's queue; the server's handler  *)
(* thread takes one request at a time and writes its texts to the queues   *)
(* of the clients.  Every queue holds Capacity messages, all of one        *)
(* priority, and mq_send waits while its queue is full: a client that does *)
(* not read stops the server, and a server that is stopped stops everyone. *)
(*                                                                         *)
(* A step of the handler is one mq_receive, one mq_open, one mq_send, or    *)
(* the end of a loop over the table; nobody else changes the table.        *)
(*                                                                         *)
(* Ctrl+C runs cleanup in the server's main thread beside the handler: it  *)
(* closes the descriptors of the members' queues and leaves the table as   *)
(* it is.  A descriptor is a number, a slot keeps it for ever, and mq_open *)
(* returns the lowest number that is free: a slot may come to lead to the  *)
(* queue of somebody else.                                                 *)
(***************************************************************************)
EXTENDS Integers, FiniteSets, SequencesExt

CONSTANTS
    Clients,     \* the client processes, each started once
    Nobody,      \* the client of a slot never used
    MAX_CLIENTS,
    Capacity,    \* mq_maxmsg
    MaxLines,    \* bound: lines typed by all clients
    MaxKills,    \* bound: clients killed
    MaxStops     \* bound: Ctrl+C of the server

ASSUME SizesAssumption == MAX_CLIENTS \in Nat \ {0} /\ Capacity \in Nat \ {0}
ASSUME BoundsAssumption == {MaxLines, MaxKills, MaxStops} \subseteq Nat
ASSUME NobodyAssumption == Nobody \notin Clients

VARIABLES
    clients, next_id,  \* the server's table
    handler,           \* where handle_clients is: in mq_receive, in mq_open, sending OK,
                       \* in send_to_all, in broadcast_user_list, or ended
    job,               \* what it works on: for whom, in which slot, whose id is passed over,
                       \* the text for all, and whether the list of users follows
    at,                \* the slot its loop has come to
    stopping,          \* the slot the server's cleanup is at, MAX_CLIENTS at the server's
                       \* own queue, one more when it is over; -1 before Ctrl+C
    doing,             \* what it does with that slot: test, send, close or unlink
    last,              \* whether main has called it again, when the handler had ended
    numbers,           \* the server's open descriptors: whose queue each number stands for
    held,              \* whose queue a thread is sending to although its number was closed
                       \* after it had entered mq_send
    unlinked,          \* whose queue's name is gone; Nobody's is the server's queue
    server_q,          \* requests on their way to the server
    client_q,          \* texts on their way to each client
    pc,                \* where main and send_messages of each client are
    reading,           \* whether receive_messages of each client is in its loop
    client_id, running,
    lines, kills, stops,  \* so far
    said,              \* history: the lines broadcast
    due,               \* history: the texts each member should get from the server
    heard              \* history: the texts each client has taken

cleanupVars == <<stopping, doing, last>>
serverVars == <<clients, next_id, handler, job, at, cleanupVars, numbers, held, unlinked,
                said, due>>
clientVars == <<pc, reading, client_id, running, heard>>
bounds == <<lines, kills, stops>>
vars == <<serverVars, clientVars, server_q, client_q, bounds>>

Slots == 0 .. MAX_CLIENTS - 1

\* The server's first descriptors: the terminal's, whose number is also that of a slot
\* never used, and that of its own queue.  Output and errors keep theirs.
Stdin == 0
ServerNumber == 1
Over == MAX_CLIENTS + 1
Threads == {"handler", "main"}

\* "REG", "MSG" and "QUIT".  `from` is a mark of the model: the sender.
Request(verb, c, n) == [verb |-> verb, from |-> c, id |-> client_id[c], n |-> n]

\* What the server writes: OK, joined, left, a line, the list, the shutdown.
Text(kind, of, n) == [kind |-> kind, of |-> of, n |-> n]

NoJob == [who |-> Nobody, slot |-> 0, sender |-> -1, text |-> Text("none", {}, 0), users |-> FALSE]

Init ==
    /\ clients = [s \in Slots |-> [who |-> Nobody, id |-> 0, queue |-> Stdin, active |-> FALSE]]
    /\ next_id = 0 /\ handler = "receive" /\ job = NoJob /\ at = 0
    /\ stopping = -1 /\ doing = "test" /\ last = FALSE
    /\ numbers = [d \in {Stdin, ServerNumber} |-> Nobody]
    /\ held = [t \in Threads |-> Nobody] /\ unlinked = {}
    /\ server_q = <<>> /\ client_q = [c \in Clients |-> <<>>]
    /\ pc = [c \in Clients |-> "out"]
    /\ reading = [c \in Clients |-> FALSE]
    /\ client_id = [c \in Clients |-> -1] /\ running = [c \in Clients |-> TRUE]
    /\ lines = 0 /\ kills = 0 /\ stops = 0
    /\ said = {} /\ due = [c \in Clients |-> <<>>] /\ heard = [c \in Clients |-> <<>>]

Goto(c, loc) == pc' = [pc EXCEPT ![c] = loc]

-----------------------------------------------------------------------------
(* The server's descriptors.                                                *)

\* mq_send waits without it.
Room(c) == Len(client_q[c]) < Capacity

\* The queue that a thread reaches with the number d: Nobody's if it is closed, or
\* not a client's.
Reaches(thread, d) ==
    IF held[thread] # Nobody THEN held[thread]
    ELSE IF d \in DOMAIN numbers THEN numbers[d]
    ELSE Nobody

\* One mq_send: it waits while the queue is full, and fails at once on a number that
\* is closed or the terminal's.
Deliver(thread, d, text) ==
    LET c == Reaches(thread, d)
    IN /\ IF c = Nobody
          THEN UNCHANGED client_q
          ELSE Room(c) /\ client_q' = [client_q EXCEPT ![c] = Append(@, text)]
       /\ held' = [held EXCEPT ![thread] = Nobody]

\* mq_open returns the lowest number that is free.
LowestFree == Min((0 .. Cardinality(DOMAIN numbers)) \ DOMAIN numbers)

Open(d, c) ==
    numbers' = [e \in DOMAIN numbers \cup {d} |-> IF e = d THEN c ELSE numbers[e]]

Active == {s \in Slots : clients[s].active}
Members == {clients[s].who : s \in Active}

Mut_Targets(place, from) ==
    {s \in Active : s > from /\ (place = "all" => clients[s].id # job.sender)}

\* The slots that a loop of the handler which has come to `from` still sends to.
Targets(place, from) ==
    {s \in Active : s >= from /\ (place = "all" => clients[s].id # job.sender)}

\* The slots whose queue a thread is about to send to, if it is not held already.
SendsTo(thread) ==
    IF thread = "main" THEN {s \in Slots : s = stopping /\ doing = "send"}
    ELSE IF handler = "ok" THEN {job.slot}
    ELSE IF handler \in {"all", "list"} /\ Targets(handler, at) # {}
         THEN {Min(Targets(handler, at))}
    ELSE {}

\* mq_close; the other thread may have entered its mq_send, and gets through with it.
Close(d, other) ==
    /\ numbers' = [e \in DOMAIN numbers \ {d} |-> numbers[e]]
    /\ \/ UNCHANGED held
       \/ /\ d \in DOMAIN numbers /\ held[other] = Nobody
          /\ \E s \in SendsTo(other) : clients[s].queue = d
          /\ held' = [held EXCEPT ![other] = numbers[d]]

-----------------------------------------------------------------------------
(* The server: handle_clients.                                              *)

Mut_FindById(id) == {s \in Active \ {0} : clients[s].id = id}

FindById(id) == {s \in Active : clients[s].id = id}

Mut_NextId == next_id

NextId == next_id + 1

UserList(t) == Text("list", {t[s].who : s \in {r \in Slots : t[r].active}}, 0)

\* What a client should hear of a text that goes to all, and of the list of users, if
\* it follows: all but its own.
Hears(c, text, users, t) ==
    (IF text.of = {c} THEN <<>> ELSE <<text>>) \o (IF users THEN <<UserList(t)>> ELSE <<>>)

\* The members of the table t should hear it.
Owed(text, users, t) ==
    [c \in Clients |-> IF \E s \in Slots : t[s].active /\ t[s].who = c
                       THEN due[c] \o Hears(c, text, users, t)
                       ELSE due[c]]

\* The next request is of this kind; a handler that has nothing to send looks
\* at `running` (here: stopping) and receives again.
Received(verb) ==
    /\ handler = "receive"
    /\ server_q # <<>> /\ Head(server_q).verb = verb
    /\ server_q' = Tail(server_q)

Rest ==
    /\ handler' = (IF stopping = -1 THEN "receive" ELSE "off")
    /\ job' = NoJob /\ at' = 0

\* send_to_all passes over the sender; with `users` broadcast_user_list comes after it.
Begin(place, c, slot, sender, text, users) ==
    /\ handler' = place /\ at' = 0
    /\ job' = [who |-> c, slot |-> slot, sender |-> sender, text |-> text, users |-> users]

\* A full table ignores the request.  The slot taken is active at once, and keeps the
\* number of its last queue until mq_open returns.
TakeSlot ==
    /\ Received("REG")
    /\ LET c == Head(server_q).from
       IN IF Active = Slots
          THEN Rest /\ UNCHANGED <<clients, next_id>>
          ELSE LET slot == Min(Slots \ Active)
               IN /\ clients' = [clients EXCEPT ![slot].who = c, ![slot].id = next_id,
                                                ![slot].active = TRUE]
                  /\ next_id' = NextId
                  /\ Begin("open", c, slot, next_id, Text("join", {c}, 0), TRUE)
    /\ UNCHANGED <<cleanupVars, numbers, held, unlinked, said, due, clientVars, client_q, bounds>>

OpenQueue ==
    /\ handler = "open" /\ job.who \notin unlinked
    /\ LET t == [clients EXCEPT ![job.slot].queue = LowestFree]
       IN /\ clients' = t
          /\ due' = [Owed(job.text, TRUE, t) EXCEPT
                       ![job.who] = <<Text("ok", {}, job.sender), UserList(t)>>]
    /\ Open(LowestFree, job.who)
    /\ handler' = "ok"
    /\ UNCHANGED <<next_id, job, at, cleanupVars, held, unlinked, said, clientVars, server_q,
                   client_q, bounds>>

\* Cleanup came between and has unlinked the queue of the slot that was already active.
OpenFails ==
    /\ handler = "open" /\ job.who \in unlinked
    /\ clients' = [clients EXCEPT ![job.slot].queue = -1, ![job.slot].active = FALSE]
    /\ Rest
    /\ UNCHANGED <<next_id, cleanupVars, numbers, held, unlinked, said, due, clientVars, server_q,
                   client_q, bounds>>

HandleMsg ==
    /\ Received("MSG")
    /\ LET m == Head(server_q)
       IN IF FindById(m.id) = {}
          THEN Rest /\ UNCHANGED <<said, due>>
          ELSE LET slot == Min(FindById(m.id))
                   c == clients[slot].who
                   say == Text("say", {c}, m.n)
               IN /\ Begin("all", c, slot, m.id, say, FALSE)
                  /\ said' = said \cup {m.n}
                  /\ due' = Owed(say, FALSE, clients)
    /\ UNCHANGED <<clients, next_id, cleanupVars, numbers, held, unlinked, clientVars, client_q,
                   bounds>>

HandleQuit ==
    /\ Received("QUIT")
    /\ LET m == Head(server_q)
       IN IF FindById(m.id) = {}
          THEN Rest /\ UNCHANGED <<clients, numbers, held, unlinked, due>>
          ELSE LET slot == Min(FindById(m.id))
                   c == clients[slot].who
                   t == [clients EXCEPT ![slot].active = FALSE]
                   leave == Text("leave", {c}, 0)
               IN /\ clients' = t
                  /\ Close(clients[slot].queue, "main")
                  /\ unlinked' = unlinked \cup {c}
                  /\ Begin("all", c, slot, m.id, leave, TRUE)
                  /\ due' = Owed(leave, TRUE, t)
    /\ UNCHANGED <<next_id, cleanupVars, said, clientVars, client_q, bounds>>

SendOk ==
    /\ handler = "ok"
    /\ Deliver("handler", clients[job.slot].queue, Text("ok", {}, job.sender))
    /\ handler' = "all"
    /\ UNCHANGED <<clients, next_id, job, at, cleanupVars, numbers, unlinked, said, due,
                   clientVars, server_q, bounds>>

\* The next turn of a loop that finds an active client.
SendNext ==
    /\ handler \in {"all", "list"} /\ Targets(handler, at) # {}
    /\ LET slot == Min(Targets(handler, at))
       IN /\ Deliver("handler", clients[slot].queue,
                     IF handler = "all" THEN job.text ELSE UserList(clients))
          /\ at' = slot + 1
    /\ UNCHANGED <<clients, next_id, handler, job, cleanupVars, numbers, unlinked, said, due,
                   clientVars, server_q, bounds>>

EndLoop ==
    /\ handler \in {"all", "list"} /\ Targets(handler, at) = {}
    /\ IF handler = "all" /\ job.users
       THEN handler' = "list" /\ at' = 0 /\ UNCHANGED job
       ELSE Rest
    /\ UNCHANGED <<clients, next_id, cleanupVars, numbers, held, unlinked, said, due, clientVars,
                   server_q, client_q, bounds>>

-----------------------------------------------------------------------------
(* The server: cleanup, in the main thread beside the handler.               *)

\* Ctrl+C; a second one finds the same cleanup, if the first is over.
Interrupt ==
    /\ stopping \in {-1, Over} /\ ~last /\ stops < MaxStops
    /\ stopping' = 0 /\ stops' = stops + 1
    /\ UNCHANGED <<clients, next_id, handler, job, at, doing, last, numbers, held, unlinked, said,
                   due, clientVars, server_q, client_q, lines, kills>>

ToNextSlot == stopping' = stopping + 1 /\ doing' = "test"

\* The table is read without a lock, and again at each of these steps.
TestSlot ==
    /\ stopping \in Slots /\ doing = "test"
    /\ IF stopping \in Active THEN doing' = "send" /\ UNCHANGED stopping ELSE ToNextSlot
    /\ UNCHANGED <<clients, next_id, handler, job, at, last, numbers, held, unlinked, said, due,
                   clientVars, server_q, client_q, bounds>>

SendDown ==
    /\ stopping \in Slots /\ doing = "send"
    /\ Deliver("main", clients[stopping].queue, Text("down", {}, 0))
    /\ doing' = "close"
    /\ UNCHANGED <<clients, next_id, handler, job, at, stopping, last, numbers, unlinked, said,
                   due, clientVars, server_q, bounds>>

CloseSlot ==
    /\ stopping \in Slots /\ doing = "close"
    /\ Close(clients[stopping].queue, "handler")
    /\ doing' = "unlink"
    /\ UNCHANGED <<clients, next_id, handler, job, at, stopping, last, unlinked, said, due,
                   clientVars, server_q, client_q, bounds>>

UnlinkSlot ==
    /\ stopping \in Slots /\ doing = "unlink"
    /\ unlinked' = unlinked \cup {clients[stopping].who}
    /\ ToNextSlot
    /\ UNCHANGED <<clients, next_id, handler, job, at, last, numbers, held, said, due, clientVars,
                   server_q, client_q, bounds>>

\* The server's own queue is closed and unlinked.
CloseServer ==
    /\ stopping = MAX_CLIENTS
    /\ Close(ServerNumber, "handler")
    /\ unlinked' = unlinked \cup {Nobody}
    /\ ToNextSlot
    /\ UNCHANGED <<clients, next_id, handler, job, at, last, said, due, clientVars, server_q,
                   client_q, bounds>>

\* A handler that was not yet inside mq_receive fails there and ends; one that was
\* may still get a request.
HandlerEnds ==
    /\ Nobody \in unlinked /\ handler = "receive"
    /\ handler' = "off"
    /\ UNCHANGED <<clients, next_id, job, at, cleanupVars, numbers, held, unlinked, said, due,
                   clientVars, server_q, client_q, bounds>>

\* main has joined the handler, cleans up again and returns.
LastCleanup ==
    /\ stopping = Over /\ handler = "off" /\ ~last
    /\ stopping' = 0 /\ last' = TRUE
    /\ UNCHANGED <<clients, next_id, handler, job, at, doing, numbers, held, unlinked, said, due,
                   clientVars, server_q, client_q, bounds>>

-----------------------------------------------------------------------------
(* The clients.                                                             *)

ServerOnly == UNCHANGED serverVars

\* mq_send to the server's queue, which waits while that queue is full.
ToServer(request) ==
    /\ Len(server_q) < Capacity
    /\ server_q' = Append(server_q, request)

\* The name is entered, the server's queue opened and the own one created.
Start(c) ==
    /\ pc[c] = "out"
    /\ Nobody \notin unlinked
    /\ Goto(c, "joining")
    /\ ServerOnly /\ UNCHANGED <<reading, client_id, running, heard, server_q, client_q, bounds>>

SendReg(c) ==
    /\ pc[c] = "joining"
    /\ ToServer(Request("REG", c, 0))
    /\ Goto(c, "waiting")
    /\ reading' = [reading EXCEPT ![c] = TRUE]
    /\ ServerOnly /\ UNCHANGED <<client_id, running, heard, client_q, bounds>>

\* The answer came: main goes to join the threads, and send_messages starts.
LoggedIn(c) ==
    /\ pc[c] = "waiting" /\ client_id[c] # -1
    /\ Goto(c, "typing")
    /\ ServerOnly /\ UNCHANGED <<reading, client_id, running, heard, server_q, client_q, bounds>>

\* Five seconds without one: the client says that it failed.
TimeOut(c) ==
    /\ pc[c] = "waiting" /\ client_id[c] = -1
    /\ Goto(c, "failing")
    /\ ServerOnly /\ UNCHANGED <<reading, client_id, running, heard, server_q, client_q, bounds>>

\* cleanup and exit: without QUIT, unless the answer has come meanwhile.  The queue stays.
Fail(c) ==
    /\ pc[c] = "failing"
    /\ running' = [running EXCEPT ![c] = FALSE]
    /\ IF client_id[c] = -1
       THEN Goto(c, "failed") /\ reading' = [reading EXCEPT ![c] = FALSE]
       ELSE Goto(c, "quitting") /\ UNCHANGED reading
    /\ ServerOnly /\ UNCHANGED <<client_id, heard, server_q, client_q, bounds>>

\* receive_messages takes one text; after ESC it may be in mq_receive for one
\* more, and then leaves its loop.
Receive(c) ==
    /\ reading[c] /\ client_q[c] # <<>>
    /\ client_q' = [client_q EXCEPT ![c] = Tail(@)]
    /\ heard' = [heard EXCEPT ![c] = Append(@, Head(client_q[c]))]
    /\ client_id' = [client_id EXCEPT ![c] = IF Head(client_q[c]).kind = "ok"
                                             THEN Head(client_q[c]).n ELSE @]
    /\ reading' = [reading EXCEPT ![c] = running[c]]
    /\ ServerOnly /\ UNCHANGED <<pc, running, server_q, bounds>>

Type(c) ==
    /\ pc[c] = "typing" /\ lines < MaxLines
    /\ lines' = lines + 1
    /\ Goto(c, "saying")
    /\ ServerOnly /\ UNCHANGED <<reading, client_id, running, heard, server_q, client_q, kills, stops>>

Say(c) ==
    /\ pc[c] = "saying"
    /\ ToServer(Request("MSG", c, lines))
    /\ Goto(c, "typing")
    /\ ServerOnly /\ UNCHANGED <<reading, client_id, running, heard, client_q, bounds>>

PressEsc(c) ==
    /\ pc[c] = "typing"
    /\ running' = [running EXCEPT ![c] = FALSE]
    /\ \/ UNCHANGED reading
       \/ reading' = [reading EXCEPT ![c] = FALSE]
    /\ Goto(c, "quitting")
    /\ ServerOnly /\ UNCHANGED <<client_id, heard, server_q, client_q, bounds>>

SendQuit(c) ==
    /\ pc[c] = "quitting"
    /\ ToServer(Request("QUIT", c, 0))
    /\ Goto(c, "sleeping")
    /\ ServerOnly /\ UNCHANGED <<reading, client_id, running, heard, client_q, bounds>>

\* A tenth of a second later the process exits.
Exit(c) ==
    /\ pc[c] = "sleeping"
    /\ Goto(c, "gone")
    /\ reading' = [reading EXCEPT ![c] = FALSE]
    /\ ServerOnly /\ UNCHANGED <<client_id, running, heard, server_q, client_q, bounds>>

Kill(c) ==
    /\ pc[c] \notin {"out", "failed", "gone"}
    /\ kills < MaxKills
    /\ kills' = kills + 1
    /\ Goto(c, "gone")
    /\ reading' = [reading EXCEPT ![c] = FALSE]
    /\ ServerOnly /\ UNCHANGED <<client_id, running, heard, server_q, client_q, lines, stops>>

Handler ==
    TakeSlot \/ OpenQueue \/ OpenFails \/ HandleMsg \/ HandleQuit \/ SendOk \/ SendNext \/ EndLoop

Cleanup == TestSlot \/ SendDown \/ CloseSlot \/ UnlinkSlot \/ CloseServer

Next ==
    \/ Handler \/ Interrupt \/ Cleanup \/ HandlerEnds \/ LastCleanup
    \/ \E c \in Clients :
         \/ Start(c) \/ SendReg(c) \/ LoggedIn(c) \/ TimeOut(c) \/ Fail(c) \/ Receive(c)
         \/ Type(c) \/ Say(c) \/ PressEsc(c) \/ SendQuit(c) \/ Exit(c) \/ Kill(c)

Spec == Init /\ [][Next]_vars

\* Processes that can go on do, and the kernel serves the senders that wait on
\* a full queue in turn.  Users and the five seconds promise nothing.
Fairness ==
    /\ WF_vars(Handler)
    /\ \A c \in Clients :
         /\ WF_vars(LoggedIn(c)) /\ WF_vars(Fail(c)) /\ WF_vars(Receive(c)) /\ WF_vars(Exit(c))
         /\ SF_vars(SendReg(c)) /\ SF_vars(Say(c)) /\ SF_vars(SendQuit(c))

FairSpec == Spec /\ Fairness

-----------------------------------------------------------------------------
(* Properties.                                                              *)

\* A loop that has come to `from` will still send to c.
Ahead(c, place, from) == \E s \in Targets(place, from) : clients[s].who = c

\* What the handler still has to send to c for the request in hand.
PendingFor(c) ==
    (IF handler = "ok" /\ job.who = c THEN <<Text("ok", {}, job.sender)>> ELSE <<>>)
      \o (IF handler \in {"ok", "all"} /\ Ahead(c, "all", at) THEN <<job.text>> ELSE <<>>)
      \o (IF \/ (handler \in {"ok", "all"} /\ job.users)
            \/ (handler = "list" /\ Ahead(c, "list", at))
          THEN <<UserList(clients)>> ELSE <<>>)

\* The number in a slot stands for the queue of its client.
LeadsHome(s) ==
    /\ clients[s].queue \in DOMAIN numbers
    /\ numbers[clients[s].queue] = clients[s].who

\* Another slot holds the same number; that of a slot still in mq_open does not count.
Shared(s) ==
    \E r \in Active \ {s} : /\ clients[r].queue = clients[s].queue
                            /\ ~(handler = "open" /\ r = job.slot)

Down == Text("down", {}, 0)

\* What has reached a client, taken or not.
Got(c) == heard[c] \o client_q[c]

\* What is due to the client of s is what it has taken, what waits in its queue and
\* what the handler still has to send, in order and once.
InOrder(s) ==
    LET c == clients[s].who
    IN due[c] = Got(c) \o PendingFor(c)

\* After Ctrl+C a member may have been told of it by cleanup (39), may have had its
\* number closed (40), or may have got a number which another slot holds too (115).
Excused(s) ==
    /\ stopping # -1
    /\ Down \in ToSet(Got(clients[s].who)) \/ ~LeadsHome(s) \/ Shared(s)

\* What has reached c is due to it, is the shutdown, or is its own join, sent to it
\* through the slot of another.
OnlyItsOwn(c) == ToSet(Got(c)) \subseteq ToSet(due[c]) \cup {Down, Text("join", {c}, 0)}

\* Nobody misses anything: a member gets first its id and then everything since it got
\* its slot but its own, in order and once, however joins, lines, leaves and full queues
\* interleave (chat_server.c:51-77, 104-163), until Ctrl+C puts an end to that.  Nobody
\* ever gets what is another's either, although numbers that cleanup has closed are given
\* out again (40, 115) while their slots are still active.
NothingMissed ==
    /\ \A s \in Active : InOrder(s) \/ Excused(s)
    /\ \A c \in Clients : OnlyItsOwn(c)

\* The id in a request leads to the slot of its sender or to none: no client
\* speaks for another or makes another leave, and no two members share an id.
IdsIdentify ==
    /\ \A s, t \in Active : clients[s].id = clients[t].id => s = t
    /\ \A k \in DOMAIN server_q : server_q[k].verb # "REG" =>
         \A s \in FindById(server_q[k].id) : clients[s].who = server_q[k].from

\* "Error: failed to register with server" (chat_client.c:282): a client that
\* says so is not a member of the chat afterwards.
FailedIsNoMember == \A c \in Clients : pc[c] = "failed" => c \notin Members

\* A member that does not read any more.
Lingers == \E c \in Members : ~reading[c]

\* With queues of any size nobody waits for ever for anybody, as long as no
\* member has stopped reading for good and the server is not stopped: a typed
\* line gets into the server's queue, and from there to everyone.
LinesGetThrough ==
    ([]<>~Lingers /\ [](stopping = -1)) =>
        /\ \A c \in Clients : (pc[c] = "saying") ~> (pc[c] # "saying")
        /\ \A n \in 1 .. MaxLines :
             (\E k \in DOMAIN server_q : server_q[k].verb = "MSG" /\ server_q[k].n = n)
                ~> n \in said

=============================================================================
