--------------------------- MODULE StreamServers ---------------------------
(***************************************************************************)
(* lab16: servers that answer one request on each connection.  local and inet *)
(* (task1) serve one client after the other, the time servers of task2 start  *)
(* a thread for each, or look with select() at a TCP and a UDP socket.  Every *)
(* client may be slow, stop, or be killed at any time.  A connection has the  *)
(* name of its client.                                                        *)
(***************************************************************************)
EXTENDS Integers, Sequences, FiniteSets

CONSTANTS
    Users,        \* the clients, each of which connects once
    MaxFailures   \* bound: calls of pthread_create that fail

Main == "main"
Workers == {Main} \cup Users       \* the main loop; handle_client for a user
ASSUME MainAssumption == Main \notin Users
NoUser == "none"
ServerKinds == {"local", "inet", "threads", "select"}

VARIABLES
    kind,      \* which server runs
    protocol,  \* of each client: "tcp", or with select() also "udp"
    user,      \* where a client is
    backlog,   \* connections that are not accepted yet
    datagrams, \* requests in the UDP socket
    work,      \* where a worker is
    conn,      \* the connection it serves: client_fd
    thread_arg,       \* the cell malloc'ed for a thread's argument
    watched,   \* the sockets select() is asked about
    ready,     \* what it has reported and the loop has not looked at
    answers,   \* how many answers were written for a client
    closed,    \* connections the server has closed
    up,        \* the server's process is there
    failures

streamVars == <<kind, protocol, user, backlog, datagrams, work, conn, thread_arg, watched, ready,
                answers, closed, up, failures>>
usersVars == <<kind, protocol, user>>
serverVars == <<thread_arg, watched, ready, failures>>

Tcp(c) == protocol[c] = "tcp"
Gone(c) == user[c] \in {"done", "killed"}

StreamInit ==
    /\ kind \in ServerKinds
    /\ protocol \in [Users -> {"tcp", "udp"}]
    /\ kind # "select" => \A c \in Users : Tcp(c)
    /\ user = [c \in Users |-> "unborn"]
    /\ backlog = << >> /\ datagrams = << >>
    /\ work = [w \in Workers |-> IF w # Main THEN "none"
                                 ELSE IF kind = "select" THEN "select" ELSE "accept"]
    /\ conn = [w \in Workers |-> NoUser] /\ thread_arg = [c \in Users |-> NoUser]
    /\ watched = {"tcp", "udp"} /\ ready = {}
    /\ answers = [c \in Users |-> 0] /\ closed = {}
    /\ up = TRUE /\ failures = 0

-----------------------------------------------------------------------------
(* The clients.                                                             *)

\* Without a server the connection is refused and the client exits.
Connect(c) ==
    /\ user[c] = "unborn" /\ Tcp(c)
    /\ IF up THEN /\ user' = [user EXCEPT ![c] = "connected"]
                  /\ backlog' = Append(backlog, c)
             ELSE /\ user' = [user EXCEPT ![c] = "killed"]
                  /\ UNCHANGED backlog
    /\ UNCHANGED <<kind, protocol, datagrams, work, conn, serverVars, answers, closed, up>>

\* write(), or sendto() of a UDP client; without a server write() is SIGPIPE.
Ask(c) ==
    /\ user' = [user EXCEPT ![c] = "asked"]
    /\ \/ /\ user[c] = "connected"
          /\ UNCHANGED datagrams
       \/ /\ user[c] = "unborn" /\ ~ Tcp(c)
          /\ datagrams' = Append(datagrams, c)
    /\ UNCHANGED <<kind, protocol, backlog, work, conn, serverVars, answers, closed, up>>

\* read() returns the answer, or 0 when the connection is over.
ReadAnswer(c) ==
    /\ user[c] = "asked"
    /\ answers[c] > 0 \/ (Tcp(c) /\ (c \in closed \/ ~ up))
    /\ user' = [user EXCEPT ![c] = "done"]
    /\ UNCHANGED <<kind, protocol, backlog, datagrams, work, conn, serverVars, answers, closed,
                   up>>

Kill(c) ==
    /\ user[c] \in {"connected", "asked"}
    /\ user' = [user EXCEPT ![c] = "killed"]
    /\ UNCHANGED <<kind, protocol, backlog, datagrams, work, conn, serverVars, answers, closed,
                   up>>

-----------------------------------------------------------------------------
(* The servers.                                                             *)

\* Where the main loop goes when a connection is served.
AfterServing == IF kind = "select" THEN "datagram" ELSE "accept"

\* accept() of a server that serves the connection itself.
Accept ==
    /\ up /\ backlog # << >>
    /\ \/ kind \in {"local", "inet"} /\ work[Main] = "accept" /\ UNCHANGED ready
       \/ work[Main] = "stream" /\ "tcp" \in ready /\ ready' = ready \ {"tcp"}
    /\ conn' = [conn EXCEPT ![Main] = Head(backlog)]
    /\ backlog' = Tail(backlog)
    /\ work' = [work EXCEPT ![Main] = "read"]
    /\ UNCHANGED <<usersVars, datagrams, thread_arg, watched, answers, closed, up, failures>>

\* accept(), malloc(), pthread_create() and pthread_detach().
AcceptForThread ==
    /\ up /\ backlog # << >>
    /\ kind = "threads"
    /\ LET c == Head(backlog) IN
         /\ conn' = [conn EXCEPT ![Main] = c]
         /\ thread_arg' = [thread_arg EXCEPT ![c] = c]
         /\ \/ work' = [work EXCEPT ![c] = "start"] /\ UNCHANGED failures
            \/ /\ failures < MaxFailures      \* the result is not looked at
               /\ failures' = failures + 1
               /\ work' = [work EXCEPT ![c] = "failed"]
    /\ backlog' = Tail(backlog)
    /\ UNCHANGED <<usersVars, datagrams, watched, ready, answers, closed, up>>

\* The thread is given the address of main's client_fd.
Mut_StartThread(w) ==
    /\ work[w] = "start"
    /\ conn' = [conn EXCEPT ![w] = conn[Main]]
    /\ work' = [work EXCEPT ![w] = "read"]
    /\ UNCHANGED <<usersVars, backlog, datagrams, serverVars, answers, closed, up>>

\* handle_client takes the descriptor out of its argument and frees it.
StartThread(w) ==
    /\ work[w] = "start"
    /\ conn' = [conn EXCEPT ![w] = thread_arg[w]]
    /\ work' = [work EXCEPT ![w] = "read"]
    /\ UNCHANGED <<usersVars, backlog, datagrams, serverVars, answers, closed, up>>

\* What select() reports of the sockets it is asked about.
Reported ==
    {p \in watched : CASE p = "tcp" -> backlog # << >> [] p = "udp" -> datagrams # << >>}

\* The sets select() returns in place are not made anew for the next turn.
Mut_Select ==
    /\ work[Main] = "select"
    /\ ready' = Reported
    /\ ready' # {}
    /\ watched' = ready'
    /\ work' = [work EXCEPT ![Main] = "stream"]
    /\ UNCHANGED <<usersVars, backlog, datagrams, conn, thread_arg, answers, closed, up, failures>>

Select ==
    /\ work[Main] = "select"
    /\ ready' = Reported
    /\ ready' # {}
    /\ work' = [work EXCEPT ![Main] = "stream"]
    /\ UNCHANGED <<usersVars, backlog, datagrams, conn, thread_arg, watched, answers, closed, up,
                   failures>>

\* No connection was reported.
SkipStream ==
    /\ work[Main] = "stream" /\ "tcp" \notin ready
    /\ work' = [work EXCEPT ![Main] = "datagram"]
    /\ UNCHANGED <<usersVars, backlog, datagrams, conn, serverVars, answers, closed, up>>

\* The UDP socket, if select() reported it before the connection was served.
AnswerDatagram ==
    /\ work[Main] = "datagram"
    /\ IF "udp" \in ready
       THEN /\ answers' = [answers EXCEPT ![Head(datagrams)] = @ + 1]
            /\ datagrams' = Tail(datagrams)
       ELSE UNCHANGED <<answers, datagrams>>
    /\ ready' = {}
    /\ work' = [work EXCEPT ![Main] = "select"]
    /\ UNCHANGED <<usersVars, backlog, conn, thread_arg, watched, closed, up, failures>>

\* read() waits for the client's request or for its end, and is not looked at.
ReadRequest(w) ==
    /\ up /\ work[w] = "read"
    /\ user[conn[w]] # "connected"
    /\ work' = [work EXCEPT ![w] = "write"]
    /\ UNCHANGED <<usersVars, backlog, datagrams, conn, serverVars, answers, closed, up>>

\* On a local socket, writing to a client that is gone is SIGPIPE, which ends the
\* server; TCP takes the first write after the other side's end.
WriteAnswer(w) ==
    /\ up /\ work[w] = "write"
    /\ IF kind = "local" /\ Gone(conn[w])
       THEN /\ up' = FALSE
            /\ UNCHANGED <<answers, work>>
       ELSE /\ answers' = [answers EXCEPT ![conn[w]] = @ + 1]
            /\ work' = [work EXCEPT ![w] = "close"]
            /\ UNCHANGED up
    /\ UNCHANGED <<usersVars, backlog, datagrams, conn, serverVars, closed>>

CloseConnection(w) ==
    /\ up /\ work[w] = "close"
    /\ closed' = closed \cup {conn[w]}
    /\ work' = [work EXCEPT ![w] = IF w = Main THEN AfterServing ELSE "over"]
    /\ UNCHANGED <<usersVars, backlog, datagrams, conn, serverVars, answers, up>>

ServerStep ==
    \/ Accept \/ AcceptForThread \/ Select \/ SkipStream \/ AnswerDatagram
    \/ \E w \in Workers : StartThread(w) \/ ReadRequest(w) \/ WriteAnswer(w) \/ CloseConnection(w)

StreamNext ==
    \/ \E c \in Users : Connect(c) \/ Ask(c) \/ ReadAnswer(c) \/ Kill(c)
    \/ ServerStep

StreamSpec == StreamInit /\ [][StreamNext]_streamVars

-----------------------------------------------------------------------------
(* Properties.                                                              *)

\* No request is answered twice, and a client that reads to the end without an answer
\* does so only because the server has died, even when threads are started faster
\* than they take their arguments (time_server_thread_per_client.c:13-18, 60-65).
EachAnsweredOnce ==
    \A c \in Users :
        /\ answers[c] <= 1
        /\ user[c] = "done" /\ answers[c] = 0 => ~ up

\* Connected, and silent: it neither asks nor goes away.
SilentClientServed == \E w \in Workers : work[w] = "read" /\ user[conn[w]] = "connected"

\* What the steps of the server wait for.
MainCanGoOn ==
    \/ /\ backlog # << >>
       /\ \/ kind = "threads"
          \/ kind \in {"local", "inet"} /\ work[Main] = "accept"
          \/ work[Main] = "stream" /\ "tcp" \in ready
    \/ work[Main] = "select" /\ Reported # {}
    \/ work[Main] = "stream" /\ "tcp" \notin ready
    \/ work[Main] = "datagram"

WorkerCanGoOn(w) ==
    \/ work[w] \in {"start", "write", "close"}
    \/ work[w] = "read" /\ user[conn[w]] # "connected"

EveryWorkerWaits == up /\ ~ MainCanGoOn /\ \A w \in Workers : ~ WorkerCanGoOn(w)

\* When every worker of the server waits and a client still has no answer, the only
\* worker there is reads from a silent client (so a TCP client keeps the UDP clients
\* waiting in spite of select()), or the client's thread could not be started, whose
\* connection nobody closes (time_server_multiprotocol.c:63-67;
\* time_server_thread_per_client.c:64; inet_stream_server.c:39-42).
WaitsForASilentClient ==
    \A c \in Users :
        user[c] = "asked" /\ answers[c] = 0 /\ EveryWorkerWaits =>
            \/ kind # "threads" /\ SilentClientServed
            \/ work[c] = "failed"
=============================================================================
