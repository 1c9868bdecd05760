------------------------------ MODULE GroupAck ------------------------------
(***************************************************************************)
(* lab16/task3: a client sends a message to everyone (by broadcast, or to a   *)
(* multicast group) and prints a server's acknowledgement.  Datagrams are     *)
(* lost, overtake each other and come late.  A message is known by its        *)
(* number, an acknowledgement by its sender and the message it repeats.       *)
(***************************************************************************)
EXTENDS Integers, Sequences, FiniteSets, SequencesExt

CONSTANTS
    Hosts,         \* a server may be started on each
    MaxMessages,   \* bound: messages the client sends
    MaxFaults      \* bound: datagrams lost and servers killed

Everyone == "everyone"
Modes == {"broadcast", "multicast"}

VARIABLES
    mode,       \* which client and which servers run
    server,     \* of each host: "down", "bound" or "up"
    client,     \* where the client is
    peer,       \* broadcast_addr, multicast_addr: where the next message goes
    inputEnded, \* fgets() finds the end of the input
    sentTo,     \* the addresses of the messages sent
    toServers, toClient,   \* datagrams on their way or in a socket
    printed,    \* the acknowledgements shown, each with the message it was taken for
    asked,      \* history: the hosts that have taken a message
    faults, timeouts

groupVars == <<mode, server, client, peer, inputEnded, sentTo, toServers, toClient,
               printed, asked, faults, timeouts>>
networkVars == <<toServers, toClient, faults>>

GroupInit ==
    /\ mode \in Modes
    /\ server = [h \in Hosts |-> "down"]
    /\ client = "prompt" /\ peer = Everyone /\ inputEnded = FALSE
    /\ sentTo = << >> /\ toServers = {} /\ toClient = {}
    /\ printed = << >> /\ asked = {} /\ faults = 0 /\ timeouts = 0

-----------------------------------------------------------------------------
(* The servers.                                                             *)

BindServer(h) ==
    /\ server[h] = "down"
    /\ server' = [server EXCEPT ![h] = IF mode = "broadcast" THEN "up" ELSE "bound"]
    /\ UNCHANGED <<mode, client, peer, inputEnded, sentTo, networkVars, printed, asked,
                   timeouts>>

\* IP_ADD_MEMBERSHIP; from here on messages to the group arrive.
JoinGroup(h) ==
    /\ server[h] = "bound"
    /\ server' = [server EXCEPT ![h] = "up"]
    /\ UNCHANGED <<mode, client, peer, inputEnded, sentTo, networkVars, printed, asked,
                   timeouts>>

\* One turn of the server's loop.
Acknowledge(h) ==
    /\ server[h] = "up"
    /\ \E d \in toServers :
         /\ d.to = h
         /\ toServers' = toServers \ {d}
         /\ toClient' = toClient \cup {[from |-> h, of |-> d.message]}
    /\ asked' = asked \cup {h}
    /\ UNCHANGED <<mode, server, client, peer, inputEnded, sentTo, printed, faults, timeouts>>

LoseDatagram ==
    /\ faults < MaxFaults
    /\ faults' = faults + 1
    /\ \/ /\ \E d \in toServers : toServers' = toServers \ {d}
          /\ UNCHANGED toClient
       \/ /\ \E d \in toClient : toClient' = toClient \ {d}
          /\ UNCHANGED toServers
    /\ UNCHANGED <<mode, server, client, peer, inputEnded, sentTo, printed, asked, timeouts>>

\* What has arrived at its socket is gone with it; it may be started again.
KillServer(h) ==
    /\ faults < MaxFaults
    /\ server[h] # "down"
    /\ server' = [server EXCEPT ![h] = "down"]
    /\ toServers' = {d \in toServers : d.to # h}
    /\ faults' = faults + 1
    /\ UNCHANGED <<mode, client, peer, inputEnded, sentTo, toClient, printed, asked,
                   timeouts>>

-----------------------------------------------------------------------------
(* The clients.                                                             *)

\* Whom a datagram to this address reaches: the servers that run now.
Reached(address) ==
    {h \in Hosts : server[h] = "up" /\ address \in {h, Everyone}}

\* sendto(); at the end of the input the buffer still holds the last answer, and
\* that is sent.
SendMessage ==
    /\ client = "prompt"
    /\ Len(sentTo) < MaxMessages
    /\ sentTo' = Append(sentTo, peer)
    /\ toServers' = toServers \cup
           {[to |-> h, message |-> Len(sentTo) + 1] : h \in Reached(peer)}
    /\ client' = IF mode = "broadcast" THEN "waiting" ELSE "joining"
    /\ UNCHANGED <<mode, server, peer, inputEnded, toClient, printed, asked, faults, timeouts>>

\* sendto() fails: the broadcast client is at its prompt again, where it was.
SendFails ==
    /\ client = "prompt" /\ mode = "multicast"
    /\ client' = "exit"
    /\ UNCHANGED <<mode, server, peer, inputEnded, sentTo, networkVars, printed, asked,
                   timeouts>>

\* The multicast client joins the group itself, after it has sent, or fails to.
ClientJoins ==
    /\ client = "joining"
    /\ client' \in {"waiting", "exit"}
    /\ UNCHANGED <<mode, server, peer, inputEnded, sentTo, networkVars, printed, asked,
                   timeouts>>

\* From here on fgets() fails, and no "quit" is read any more.
InputEnds ==
    /\ client = "prompt" /\ ~ inputEnded
    /\ mode = "broadcast"
    /\ inputEnded' = TRUE
    /\ UNCHANGED <<mode, server, client, peer, sentTo, networkVars, printed, asked, timeouts>>

Quit ==
    /\ client = "prompt" /\ ~ inputEnded
    /\ mode = "broadcast"
    /\ client' = "exit"
    /\ UNCHANGED <<mode, server, peer, inputEnded, sentTo, networkVars, printed, asked,
                   timeouts>>

\* recvfrom() writes the sender's address over the one messages are sent to.  The
\* multicast client asks once only.
ReceiveAnswer ==
    /\ client = "waiting"
    /\ \E d \in toClient :
         /\ toClient' = toClient \ {d}
         /\ peer' = d.from
         /\ printed' = Append(printed, [from |-> d.from, of |-> d.of, at |-> Len(sentTo)])
    /\ client' = IF mode = "broadcast" THEN "prompt" ELSE "exit"
    /\ UNCHANGED <<mode, server, inputEnded, sentTo, toServers, asked, faults, timeouts>>

\* The result of recvfrom() is not looked at: what was printed is printed again.
Mut_NoAnswer ==
    /\ client = "waiting"
    /\ mode = "broadcast"
    /\ client' = "prompt"
    /\ timeouts' = timeouts + 1
    /\ printed' = IF printed = << >> THEN printed
                  ELSE Append(printed, [Last(printed) EXCEPT !.at = Len(sentTo)])
    /\ UNCHANGED <<mode, server, peer, inputEnded, sentTo, networkVars, asked>>

\* SO_RCVTIMEO: three seconds; only the broadcast client sets it.
NoAnswer ==
    /\ client = "waiting"
    /\ mode = "broadcast"
    /\ client' = "prompt"
    /\ timeouts' = timeouts + 1
    /\ UNCHANGED <<mode, server, peer, inputEnded, sentTo, networkVars, printed, asked>>

GroupNext ==
    \/ \E h \in Hosts : BindServer(h) \/ JoinGroup(h) \/ Acknowledge(h) \/ KillServer(h)
    \/ LoseDatagram
    \/ SendMessage \/ SendFails \/ ClientJoins \/ InputEnds \/ Quit \/ ReceiveAnswer \/ NoAnswer

GroupSpec == GroupInit /\ [][GroupNext]_groupVars

-----------------------------------------------------------------------------
(* Properties.                                                              *)

\* Every answer printed was given by a server to a message that was sent to it, and
\* none is printed twice.  It may be the answer to an earlier message, or of another
\* server, since the client compares nothing (broadcast_client.c:66-70); but only if
\* there was a timeout or more than one server was asked.  And when nothing moves any
\* more while the multicast client, which has no timer, waits for its answer, then a
\* datagram was lost, a server died, or none had joined the group in time
\* (multicast_client.c:40-60; multicast_server.c:27-45).
AnswersAreAccountedFor ==
    /\ \A k \in DOMAIN printed :
         /\ printed[k].of <= printed[k].at
         /\ sentTo[printed[k].of] \in {printed[k].from, Everyone}
    /\ \A j, k \in DOMAIN printed :
         j # k => <<printed[j].from, printed[j].of>> # <<printed[k].from, printed[k].of>>
    /\ (\E k \in DOMAIN printed : printed[k].of < printed[k].at)
         => timeouts > 0 \/ Cardinality(asked) > 1
    /\ (/\ mode = "multicast" /\ client = "waiting"
        /\ toServers = {} /\ toClient = {}) => faults > 0 \/ asked = {}

\* What the client says of itself: "Enter message to broadcast", "Broadcast sent"
\* (broadcast_client.c:37, 54).
EveryMessageIsBroadcast ==
    mode = "broadcast" => \A k \in DOMAIN sentTo : sentTo[k] = Everyone
=============================================================================
