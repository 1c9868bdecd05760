---------------------------- MODULE DgramServers ----------------------------
(***************************************************************************)
(* lab16/task1, the datagram pairs: a client says "hello!", the server "hi!". *)
(* The local pair has names in the file system, one for the server and one    *)
(* that all clients share; a name leads to a socket, and an answer goes to    *)
(* the socket the name of the asker leads to when it is sent.  A socket of    *)
(* the Internet pair has a port of its own.                                   *)
(***************************************************************************)
EXTENDS Integers, Sequences, SequencesExt

CONSTANTS
    Peers,      \* the clients, each of which is started once
    MaxDeaths   \* bound: processes killed from outside

NoSocket == "nothing"   \* no client is named so
ASSUME NoSocketAssumption == NoSocket \notin Peers
Families == {"local", "inet"}

VARIABLES
    family,    \* which pair runs
    peerAt,    \* where a client is
    listener,  \* the server: "unborn", "bind", "up" or "killed"
    clientPath, serverPath,   \* the socket the name of the clients, of the server leads to
    requests,  \* askers whose datagrams are in the server's socket
    replies,   \* clients with an answer in their sockets
    company,   \* history: clients that ran at the same time
    unheard,   \* history: clients that asked no server, or one killed before it answered
    deaths

dgramVars == <<family, peerAt, listener, clientPath, serverPath, requests, replies, company,
               unheard, deaths>>

Present(c) == peerAt[c] \notin {"unborn", "done", "failed", "killed"}

DgramInit ==
    /\ family \in Families
    /\ peerAt = [c \in Peers |-> "unborn"]
    /\ listener = "unborn"
    /\ clientPath = NoSocket /\ serverPath = FALSE
    /\ requests = << >> /\ replies = {}
    /\ company = [c \in Peers |-> {}] /\ unheard = {} /\ deaths = 0

Goes(c, place) == peerAt' = [peerAt EXCEPT ![c] = place]

-----------------------------------------------------------------------------
(* The clients.                                                             *)

\* The name left by an earlier client is kept.
Mut_StartClient(c) ==
    /\ peerAt[c] = "unborn"
    /\ Goes(c, IF family = "local" THEN "bind" ELSE "send")
    /\ company' = [d \in Peers |-> IF d = c THEN {e \in Peers : Present(e)}
                                ELSE IF Present(d) THEN company[d] \cup {c} ELSE company[d]]
    /\ UNCHANGED <<family, listener, clientPath, serverPath, requests, replies, unheard, deaths>>

\* The local client first removes the name of the clients, whoever's it is.
StartClient(c) ==
    /\ peerAt[c] = "unborn"
    /\ \/ family = "local" /\ Goes(c, "bind") /\ clientPath' = NoSocket
       \/ family = "inet" /\ Goes(c, "send") /\ UNCHANGED clientPath
    /\ company' = [d \in Peers |-> IF d = c THEN {e \in Peers : Present(e)}
                                ELSE IF Present(d) THEN company[d] \cup {c} ELSE company[d]]
    /\ UNCHANGED <<family, listener, serverPath, requests, replies, unheard, deaths>>

\* The name is in use when another client has bound it in between.
BindClient(c) ==
    /\ peerAt[c] = "bind"
    /\ IF clientPath = NoSocket THEN clientPath' = c /\ Goes(c, "send")
                                ELSE UNCHANGED clientPath /\ Goes(c, "failed")
    /\ UNCHANGED <<family, listener, serverPath, requests, replies, company, unheard, deaths>>

\* Without a server the local client fails and removes the name.
SendHelloLocal(c) ==
    /\ family = "local" /\ peerAt[c] = "send"
    /\ \/ /\ listener = "up"
          /\ requests' = Append(requests, c) /\ Goes(c, "receive")
          /\ UNCHANGED <<clientPath, unheard>>
       \/ /\ listener # "up"
          /\ clientPath' = NoSocket /\ Goes(c, "failed")
          /\ unheard' = unheard \cup {c} /\ UNCHANGED requests
    /\ UNCHANGED <<family, listener, serverPath, replies, company, deaths>>

\* A datagram that meets no server goes nowhere.
SendHelloInet(c) ==
    /\ family = "inet" /\ peerAt[c] = "send"
    /\ Goes(c, "receive")
    /\ IF listener = "up"
       THEN requests' = Append(requests, c) /\ UNCHANGED unheard
       ELSE unheard' = unheard \cup {c} /\ UNCHANGED requests
    /\ UNCHANGED <<family, listener, clientPath, serverPath, replies, company, deaths>>

ReceiveHi(c) ==
    /\ peerAt[c] = "receive"
    /\ c \in replies
    /\ Goes(c, IF family = "local" THEN "unlink" ELSE "done")
    /\ UNCHANGED <<family, listener, clientPath, serverPath, requests, replies, company, unheard,
                   deaths>>

\* The last call removes the name, whoever's it is by now.
UnlinkClient(c) ==
    /\ peerAt[c] = "unlink"
    /\ clientPath' = NoSocket
    /\ Goes(c, "done")
    /\ UNCHANGED <<family, listener, serverPath, requests, replies, company, unheard, deaths>>

\* The socket is closed, its name stays.
KillClient(c) ==
    /\ Present(c) /\ deaths < MaxDeaths
    /\ Goes(c, "killed")
    /\ deaths' = deaths + 1
    /\ UNCHANGED <<family, listener, clientPath, serverPath, requests, replies, company, unheard>>

-----------------------------------------------------------------------------
(* The servers.                                                             *)

\* unlink(SOCKET_PATH)
StartListener ==
    /\ listener \in {"unborn", "killed"}
    /\ listener' = "bind"
    /\ serverPath' = (serverPath /\ family = "inet")
    /\ UNCHANGED <<family, peerAt, clientPath, requests, replies, company, unheard, deaths>>

BindListener ==
    /\ listener = "bind"
    /\ ~ serverPath
    /\ listener' = "up"
    /\ serverPath' = TRUE
    /\ UNCHANGED <<family, peerAt, clientPath, requests, replies, company, unheard, deaths>>

\* A port is free again when its process is over; a name in the file system is not.
KillListener ==
    /\ listener \in {"bind", "up"} /\ deaths < MaxDeaths
    /\ listener' = "killed"
    /\ serverPath' = (serverPath /\ family = "local")
    /\ unheard' = unheard \cup Range(requests) /\ requests' = << >>
    /\ deaths' = deaths + 1
    /\ UNCHANGED <<family, peerAt, clientPath, replies, company>>

\* Where the answer to this client goes: an error when there is nobody.
Destination(c) == IF family = "local" THEN clientPath ELSE c

Serve ==
    /\ listener = "up"
    /\ requests # << >>
    /\ requests' = Tail(requests)
    /\ LET d == Destination(Head(requests)) IN
         replies' = IF d # NoSocket /\ Present(d) THEN replies \cup {d} ELSE replies
    /\ UNCHANGED <<family, peerAt, listener, clientPath, serverPath, company, unheard, deaths>>

DgramNext ==
    \/ \E c \in Peers :
         \/ StartClient(c) \/ BindClient(c) \/ SendHelloLocal(c) \/ SendHelloInet(c)
         \/ ReceiveHi(c) \/ UnlinkClient(c) \/ KillClient(c)
    \/ StartListener \/ BindListener \/ KillListener \/ Serve

DgramSpec == DgramInit /\ [][DgramNext]_dgramVars

-----------------------------------------------------------------------------
(* Properties.                                                              *)

\* A client that has met no other client, and whose request went to a server that
\* lived to answer it, is answered: it does not fail, whatever a killed client has left
\* behind, and never waits when the server has nothing more to do.  Two local clients at a
\* time take each other's name (local_dgram_client.c:18, 31-35, 57-67), so that one may
\* fail or wait for ever; on the Internet pair they do not disturb each other.
UndisturbedIsServed ==
    \A c \in Peers :
        (company[c] = {} \/ family = "inet") /\ c \notin unheard =>
            /\ peerAt[c] # "failed"
            /\ peerAt[c] = "receive" /\ c \notin replies =>
                 c \in Range(requests)
=============================================================================
