------------------------------- MODULE RawUdp -------------------------------
(***************************************************************************)
(* lab16/task4: three clients that build the headers of a datagram for the    *)
(* modify server by themselves, from UDP on, from IP on, or from Ethernet on. *)
(* All use the same port, that nobody is bound to, so an answer of the server *)
(* reaches none of them as a datagram.  What the kernel does with the packets *)
(* is external: without an IP header they are dropped, from a packet socket   *)
(* with the address 127.0.0.1 they are dropped or not, as it is configured;   *)
(* an IPPROTO_RAW socket receives nothing, a packet socket a copy of all that *)
(* goes over "lo" (in both directions; the second copy adds nothing here).    *)
(***************************************************************************)
EXTENDS Integers, Sequences, SequencesExt

CONSTANTS
    RawClients,   \* the clients, each of which is started once
    MaxKills      \* bound: how often the server is killed

Layers == {"udp", "ip", "eth"}
NoAnswerYet == "none"

VARIABLES
    layer,      \* the lowest header a client builds
    rawAt,      \* where it is
    tap,        \* the packets in its socket
    modifier,   \* the server is up
    inbox,      \* the clients whose datagrams are in its socket
    shownOf,    \* whose answer a client has printed
    answered,   \* history: the clients the server has answered, in order
    openedAt,   \* history: how many they were when a client's socket was made
    dropped,    \* history: clients whose packet never came to an answer
    kills

rawUdpVars == <<layer, rawAt, tap, modifier, inbox, shownOf, answered, openedAt, dropped, kills>>

RawUdpInit ==
    /\ layer \in [RawClients -> Layers]
    /\ rawAt = [c \in RawClients |-> "start"]
    /\ tap = [c \in RawClients |-> << >>]
    /\ modifier = FALSE /\ inbox = << >>
    /\ shownOf = [c \in RawClients |-> NoAnswerYet]
    /\ answered = << >> /\ openedAt = [c \in RawClients |-> 0] /\ dropped = {}
    /\ kills = 0

\* socket() and the calls that set it up.
OpenRaw(c) ==
    /\ rawAt[c] = "start"
    /\ \E place \in {"send", "failed"} : rawAt' = [rawAt EXCEPT ![c] = place]
    /\ openedAt' = [openedAt EXCEPT ![c] = Len(answered)]
    /\ UNCHANGED <<layer, tap, modifier, inbox, shownOf, answered, dropped, kills>>

Taps(c) == layer[c] = "eth" /\ rawAt[c] \in {"send", "receive"}

\* A packet on its way over "lo".
Passes(packet) ==
    tap' = [c \in RawClients |-> IF Taps(c) THEN Append(tap[c], packet) ELSE tap[c]]

\* The packet is sent; it comes to the server, or is dropped on its way.
Sends(c) ==
    /\ rawAt[c] = "send"
    /\ rawAt' = [rawAt EXCEPT ![c] = "receive"]
    /\ Passes([from |-> "client", of |-> c])
    /\ UNCHANGED <<layer, modifier, shownOf, answered, openedAt, kills>>

Arrives(c) == modifier /\ inbox' = Append(inbox, c) /\ UNCHANGED dropped
Vanishes(c) == dropped' = dropped \cup {c} /\ UNCHANGED inbox

\* The first header is UDP's, where the kernel expects IP's.
SendFromUdp(c) == layer[c] = "udp" /\ Sends(c) /\ Vanishes(c)

SendFromIp(c) ==
    layer[c] = "ip" /\ Sends(c) /\ (Arrives(c) \/ (~ modifier /\ Vanishes(c)))

SendFromEth(c) == layer[c] = "eth" /\ Sends(c) /\ (Arrives(c) \/ Vanishes(c))

SendRawFails(c) ==
    /\ rawAt[c] = "send"
    /\ rawAt' = [rawAt EXCEPT ![c] = "failed"]
    /\ UNCHANGED <<layer, tap, modifier, inbox, shownOf, answered, openedAt, dropped, kills>>

\* The source port is not looked at.
Mut_ReceiveRaw(c) ==
    /\ rawAt[c] = "receive" /\ tap[c] # << >>
    /\ tap' = [tap EXCEPT ![c] = Tail(@)]
    /\ rawAt' = [rawAt EXCEPT ![c] = "done"]
    /\ shownOf' = [shownOf EXCEPT ![c] = Head(tap[c]).of]
    /\ UNCHANGED <<layer, modifier, inbox, answered, openedAt, dropped, kills>>

\* One turn of the loop: a packet that does not come from the server's port is
\* passed over, the first that does is printed.
ReceiveRaw(c) ==
    /\ rawAt[c] = "receive" /\ tap[c] # << >>
    /\ tap' = [tap EXCEPT ![c] = Tail(@)]
    /\ IF Head(tap[c]).from = "server"
       THEN /\ rawAt' = [rawAt EXCEPT ![c] = "done"]
            /\ shownOf' = [shownOf EXCEPT ![c] = Head(tap[c]).of]
       ELSE UNCHANGED <<rawAt, shownOf>>
    /\ UNCHANGED <<layer, modifier, inbox, answered, openedAt, dropped, kills>>

-----------------------------------------------------------------------------
(* The server.                                                              *)

StartModifier ==
    /\ ~ modifier
    /\ modifier' = TRUE
    /\ UNCHANGED <<layer, rawAt, tap, inbox, shownOf, answered, openedAt, dropped, kills>>

\* One turn of its loop: the text comes back with one character changed.
ModifyAndAnswer ==
    /\ modifier /\ inbox # << >>
    /\ inbox' = Tail(inbox)
    /\ answered' = Append(answered, Head(inbox))
    /\ Passes([from |-> "server", of |-> Head(inbox)])
    /\ UNCHANGED <<layer, rawAt, modifier, shownOf, openedAt, dropped, kills>>

KillModifier ==
    /\ modifier /\ kills < MaxKills
    /\ modifier' = FALSE /\ inbox' = << >> /\ dropped' = dropped \cup Range(inbox)
    /\ kills' = kills + 1
    /\ UNCHANGED <<layer, rawAt, tap, shownOf, answered, openedAt>>

RawUdpNext ==
    \/ \E c \in RawClients :
         \/ OpenRaw(c) \/ SendFromUdp(c) \/ SendFromIp(c) \/ SendFromEth(c)
         \/ SendRawFails(c) \/ ReceiveRaw(c)
    \/ StartModifier \/ ModifyAndAnswer \/ KillModifier

RawUdpSpec == RawUdpInit /\ [][RawUdpNext]_rawUdpVars

-----------------------------------------------------------------------------
(* Properties.                                                              *)

\* The client with the packet socket takes the first answer the server has given to
\* anyone since the socket was made, even before it has asked: it looks at the source
\* port alone, and all that passes "lo" is kept for it (raw_client_eth_ip_udp.c:
\* 154-178).  Never does it take a question for an answer, its own or another's, and
\* when it waits with nothing to look at, nobody has been answered, and its question
\* is with the server or was dropped.
FirstAnswerIsTaken ==
    \A c \in RawClients : layer[c] = "eth" =>
        /\ rawAt[c] = "done" =>
             /\ openedAt[c] < Len(answered)
             /\ shownOf[c] = answered[openedAt[c] + 1]
        /\ rawAt[c] = "receive" /\ tap[c] = << >> =>
             /\ Len(answered) = openedAt[c]
             /\ c \in dropped \/ c \in Range(inbox)
=============================================================================
