------------------------------ MODULE RawEcho ------------------------------
(***************************************************************************)
(* finalTask1: an echo server and its clients over raw sockets on one host    *)
(* (a client's datagrams always come from 127.0.0.1, client.c:80, 170).       *)
(*                                                                            *)
(* A raw socket gets a copy of every UDP datagram of the host, and each side  *)
(* filters by port; a datagram that finds a receive buffer full is lost for   *)
(* that socket.  Clients choose their port at random, so two may share one,   *)
(* and one may even take the server's.  The models keep, of what a socket     *)
(* receives, only what the filter lets through.                               *)
(***************************************************************************)
EXTENDS Naturals, FiniteSets, Sequences, SequencesExt

CONSTANTS
    Clients,      \* client processes
    Ports,        \* what client_port may be
    ServerPort,   \* SERVER_PORT
    NoPort,       \* of a client that has not started
    MAX_CLIENTS,
    MaxLines,     \* bound: lines a client types
    MaxLosses,    \* bound: datagrams lost at a socket
    MaxKills,     \* bound: processes that die without a word
    MaxCount      \* bound: an echo that runs in circles ends here

ASSUME BoundsAssumption ==
    MAX_CLIENTS \in Nat /\ MaxLines \in Nat /\ MaxLosses \in Nat
    /\ MaxKills \in Nat /\ MaxCount \in Nat
ASSUME PortsAssumption == NoPort \notin Ports \cup {ServerPort} /\ ServerPort \notin Clients

VARIABLES
    pc,        \* of each client
    port,      \* client_port
    sent,      \* number of lines each client has sent
    replies,   \* what waits in each client's socket
    inbox,     \* what waits in the server's socket
    table,     \* clients[0 .. num_clients - 1] of the server
    up,        \* the server runs
    losses, kills,
    silent,    \* history: clients that left and whose SHUTDOWN never came
    abandoned, \* history: clients whose last line will get no reply
    lines,     \* history: number of lines each has sent to the server of its last one
    fresh      \* history: clients with no line yet since that server stopped

serverVars == <<table, up>>
servers == <<lines, fresh>>
history == <<silent, abandoned, servers>>
vars == <<pc, port, sent, replies, inbox, serverVars, losses, kills, history>>

Init ==
    /\ pc = [c \in Clients |-> "off"]
    /\ port = [c \in Clients |-> NoPort]
    /\ sent = [c \in Clients |-> 0]
    /\ replies = [c \in Clients |-> << >>]
    /\ inbox = << >> /\ table = << >> /\ up = TRUE
    /\ losses = 0 /\ kills = 0
    /\ silent = {} /\ abandoned = {}
    /\ lines = [c \in Clients |-> 0] /\ fresh = {}

Alive(c) == pc[c] \in {"prompt", "wait", "leave"}

-----------------------------------------------------------------------------
(* Raw sockets.                                                             *)

\* Without the client's look at the port (client.c:217).
Mut_Hearers(d) ==
    {c \in Clients : Alive(c) /\ d.src = ServerPort}
    \cup {s \in {ServerPort} : up /\ d.dst = ServerPort}

\* The sockets whose owner's filter lets d through: ServerPort stands for the
\* server's.
Hearers(d) ==
    {c \in Clients : Alive(c) /\ d.dst = port[c] /\ d.src = ServerPort}
    \cup {s \in {ServerPort} : up /\ d.dst = ServerPort}

\* sendto: every socket gets a copy, except those in missed, whose buffers are
\* full.  The server's queue, before the copies, is q.  A closed socket holds
\* nothing.
SendTo(d, q, missed) ==
    /\ missed \subseteq Hearers(d)
    /\ losses' = losses + Cardinality(missed)
    /\ losses' <= MaxLosses
    /\ inbox' = IF ServerPort \in Hearers(d) \ missed THEN Append(q, d) ELSE q
    /\ replies' = [c \in Clients |-> IF pc'[c] = "gone" THEN << >>
            ELSE IF c \in Hearers(d) \ missed THEN Append(replies[c], d) ELSE replies[c]]

Datagram(src, dst, kind, who, line, count) ==
    [src |-> src, dst |-> dst,
     data |-> [kind |-> kind, who |-> who, line |-> line, count |-> count]]

-----------------------------------------------------------------------------
(* A client.                                                                *)

Start(c) ==
    /\ pc[c] = "off"
    /\ pc' = [pc EXCEPT ![c] = "prompt"]
    /\ \E p \in Ports : port' = [port EXCEPT ![c] = p]
    /\ UNCHANGED <<sent, replies, inbox, serverVars, losses, kills, history>>

\* A line is sent, whatever it says: also the word SHUTDOWN.
Type(c, kind) ==
    /\ pc[c] = "prompt"
    /\ sent[c] < MaxLines
    /\ pc' = [pc EXCEPT ![c] = "wait"]
    /\ sent' = [sent EXCEPT ![c] = @ + 1]
    /\ lines' = [lines EXCEPT ![c] = IF c \in fresh THEN 1 ELSE @ + 1]
    /\ fresh' = fresh \ {c}
    /\ LET d == Datagram(port[c], ServerPort, kind, c, sent[c] + 1, 0) IN
       \E missed \in SUBSET Hearers(d) :
         /\ SendTo(d, inbox, missed)
         /\ abandoned' = IF kind = "SHUTDOWN" \/ ServerPort \notin Hearers(d) \ missed
                         THEN abandoned \cup {c} ELSE abandoned \ {c}
    /\ UNCHANGED <<port, serverVars, kills, silent>>

\* Without the break at the end of the inner loop.
Mut_ReadReply(c) ==
    /\ pc[c] = "wait"
    /\ replies[c] # << >>
    /\ replies' = [replies EXCEPT ![c] = Tail(@)]
    /\ UNCHANGED <<pc, port, sent, inbox, serverVars, losses, kills, history>>

\* The first reply to the port is taken for the answer.
ReadReply(c) ==
    /\ pc[c] = "wait"
    /\ replies[c] # << >>
    /\ replies' = [replies EXCEPT ![c] = Tail(@)]
    /\ pc' = [pc EXCEPT ![c] = "prompt"]
    /\ UNCHANGED <<port, sent, inbox, serverVars, losses, kills, history>>

\* "exit", or the end of input: send_shutdown sets shutdown_sent first.
Quit(c) ==
    /\ pc[c] = "prompt"
    /\ pc' = [pc EXCEPT ![c] = "leave"]
    /\ UNCHANGED <<port, sent, replies, inbox, serverVars, losses, kills, history>>

SendShutdown(c) ==
    LET d == Datagram(port[c], ServerPort, "SHUTDOWN", c, 0, 0) IN
    /\ pc' = [pc EXCEPT ![c] = "gone"]
    /\ \E missed \in SUBSET Hearers(d) :
         /\ SendTo(d, inbox, missed)
         /\ silent' = IF ServerPort \in missed THEN silent \cup {c} ELSE silent
    /\ UNCHANGED <<port, sent, serverVars, kills, abandoned, servers>>

Leave(c) == pc[c] = "leave" /\ SendShutdown(c)

\* Ctrl+C: the handler sends SHUTDOWN, unless shutdown_sent is set already.
Interrupt(c) ==
    \/ pc[c] \in {"prompt", "wait"} /\ SendShutdown(c)
    \/ /\ pc[c] = "leave"
       /\ pc' = [pc EXCEPT ![c] = "gone"]
       /\ silent' = silent \cup {c}
       /\ replies' = [replies EXCEPT ![c] = << >>]
       /\ UNCHANGED <<port, sent, inbox, serverVars, losses, kills, abandoned, servers>>

Kill(c) ==
    /\ Alive(c)
    /\ kills < MaxKills
    /\ kills' = kills + 1
    /\ pc' = [pc EXCEPT ![c] = "gone"]
    /\ silent' = silent \cup {c}
    /\ replies' = [replies EXCEPT ![c] = << >>]
    /\ UNCHANGED <<port, sent, inbox, serverVars, losses, abandoned, servers>>

-----------------------------------------------------------------------------
(* The server.                                                              *)

Entry(tab, p) == {k \in DOMAIN tab : tab[k].port = p}

\* Without num_clients--.
Mut_RemoveClient(tab, p) == [tab EXCEPT ![Len(tab)].counter = 0]

\* remove_client: the entries behind the first one of this port move up.
RemoveClient(tab, p) ==
    RemoveAt(tab, CHOOSE k \in Entry(tab, p) : \A j \in Entry(tab, p) : k <= j)

\* The table once p is in it, or as it was, if there is no room.
Known(p) ==
    IF Entry(table, p) = {} /\ Len(table) < MAX_CLIENTS
    THEN Append(table, [port |-> p, counter |-> 0]) ELSE table

\* add_client found the table full.
DropDatagram ==
    /\ up /\ inbox # << >>
    /\ Entry(Known(Head(inbox).src), Head(inbox).src) = {}
    /\ inbox' = Tail(inbox)
    /\ abandoned' = IF Head(inbox).data.kind = "text"
                    THEN abandoned \cup {Head(inbox).data.who} ELSE abandoned
    /\ UNCHANGED <<pc, port, sent, replies, serverVars, losses, kills, silent, servers>>

HandleShutdown ==
    /\ up /\ inbox # << >>
    /\ Head(inbox).data.kind = "SHUTDOWN"
    /\ Entry(Known(Head(inbox).src), Head(inbox).src) # {}
    /\ inbox' = Tail(inbox)
    /\ table' = RemoveClient(Known(Head(inbox).src), Head(inbox).src)
    /\ UNCHANGED <<pc, port, sent, replies, up, losses, kills, history>>

\* The bound: an echo the server heard from its own port has gone round so often.
EndOfCircle(tab, k, said) ==
    tab[k].port = ServerPort /\ (tab[k].counter = MaxCount \/ said.count = MaxCount)

\* The answer carries the text and the counter.
Echo ==
    /\ up /\ inbox # << >>
    /\ Head(inbox).data.kind = "text"
    /\ UNCHANGED <<pc, port, sent, up, kills, silent, servers>>
    /\ LET p == Head(inbox).src
           said == Head(inbox).data
       IN  \E k \in Entry(Known(p), p) :
             IF EndOfCircle(Known(p), k, said)
             THEN /\ inbox' = Tail(inbox)
                  /\ abandoned' = abandoned \cup {said.who}
                  /\ UNCHANGED <<replies, table, losses>>
             ELSE LET d == Datagram(ServerPort, p, "text", said.who, said.line,
                                    Known(p)[k].counter + 1)
                  IN  /\ table' = [Known(p) EXCEPT ![k].counter = @ + 1]
                      /\ \E missed \in SUBSET Hearers(d) :
                           /\ SendTo(d, Tail(inbox), missed)
                           /\ abandoned' = IF said.who \in missed
                                           THEN abandoned \cup {said.who} ELSE abandoned

\* Ctrl+C: what the socket and the table hold goes with it.
ServerStops ==
    /\ up
    /\ kills < MaxKills
    /\ kills' = kills + 1
    /\ up' = FALSE
    /\ inbox' = << >> /\ table' = << >>
    /\ abandoned' = {c \in Clients : replies[c] = << >>}
    /\ fresh' = Clients
    /\ UNCHANGED <<pc, port, sent, replies, losses, silent, lines>>

\* main again, with an empty table and a new socket, while clients go on.
ServerStarts ==
    /\ ~ up
    /\ up' = TRUE
    /\ UNCHANGED <<pc, port, sent, replies, inbox, table, losses, kills, history>>

Server == DropDatagram \/ HandleShutdown \/ Echo

-----------------------------------------------------------------------------
Client(c) ==
    \/ Start(c)
    \/ (\E kind \in {"text", "SHUTDOWN"} : Type(c, kind))
    \/ ReadReply(c) \/ Quit(c) \/ Leave(c) \/ Interrupt(c) \/ Kill(c)

Next == (\E c \in Clients : Client(c)) \/ Server \/ ServerStops \/ ServerStarts

Spec == Init /\ [][Next]_vars

-----------------------------------------------------------------------------
(* Properties.                                                              *)

\* c is the only client that ever had its port, and it is not the server's.
Alone(c) == port[c] # ServerPort /\ \A o \in Clients \ {c} : port[o] # port[c]

\* Without a timeout and without numbers in the requests, a line of a client whose port
\* nobody else ever had is still answered by its own text, with the number of lines that
\* the client has sent to this server since it started, or never: no reply is taken for
\* another line's, nor after the server was replaced (client.c:202-227; server.c:24-25).
AnswersInStep ==
    \A c \in Clients : Alive(c) /\ Alone(c) =>
        \/ replies[c] = << >>
        \/ /\ pc[c] = "wait"
           /\ Len(replies[c]) = 1
           /\ replies[c][1].data = [kind |-> "text", who |-> c, line |-> sent[c],
                                    count |-> lines[c]]

\* An entry of the server's table belongs to a client that runs, has its SHUTDOWN
\* on the way, or left without one getting through: killed, lost, or interrupted
\* between shutdown_sent = 1 and sendto (client.c:70, 103).  On the server's own
\* port entries come from echoes of echoes.
EntryHasOwner ==
    \A k \in DOMAIN table : table[k].port # ServerPort =>
        \E c \in Clients :
            /\ port[c] = table[k].port
            /\ \/ Alive(c) \/ c \in silent
               \/ \E m \in DOMAIN inbox : inbox[m].data.who = c

\* A client waits for ever (there is no timeout, client.c:202) only if a datagram of
\* the exchange was lost, the table was full, the line was SHUTDOWN or the server
\* stopped: otherwise its line is with the server or the answer in its socket.
WaitsForSomething ==
    \A c \in Clients : pc[c] = "wait" /\ c \notin abandoned =>
        \/ replies[c] # << >>
        \/ up /\ \E m \in DOMAIN inbox : inbox[m].data.who = c /\ inbox[m].data.kind = "text"
=============================================================================
