---------------------------- MODULE MCLabPrograms ----------------------------
(***************************************************************************)
(* The small programs of the labs for TLC, one of them in each behaviour:     *)
(* `which` says which it is, the variables of the others keep their first     *)
(* values.  The specifications do not know of each other, so what holds of    *)
(* this one holds of each of them.                                            *)
(***************************************************************************)
EXTENDS ListBook, ArrayBook, FileManager, Handshakes, Pipeline, StreamServers,
        DgramServers, GroupAck, RawUdp, Checksum

VARIABLE which

\* The program that does not run has one initial state.
AtRest ==
    /\ which = "list_book" \/ name = [n \in Nodes |-> CHOOSE w \in Names : TRUE]
    /\ which = "array_book" \/ choice = 0
    /\ which = "handshakes" \/ pair = "fifo"
    /\ which = "stream_servers" \/ (kind = "local" /\ protocol = [c \in Users |-> "tcp"])
    /\ which = "dgram_servers" \/ family = "local"
    /\ which = "group_ack" \/ mode = "broadcast"
    /\ which = "raw_udp" \/ layer = [c \in RawClients |-> "udp"]
    /\ which = "checksum" \/ packet = << >>

LabInit ==
    /\ which \in {"list_book", "array_book", "file_manager", "handshakes", "pipeline",
                  "stream_servers", "dgram_servers", "group_ack", "raw_udp", "checksum"}
    /\ AtRest
    /\ Init /\ ArrayInit /\ FileInit /\ HandshakesInit /\ PipelineInit /\ StreamInit
    /\ DgramInit /\ GroupInit /\ RawUdpInit /\ ChecksumInit

labVars == <<which, vars, bookVars, fileVars, handshakeVars,
             pipelineVars, streamVars, dgramVars,
             groupVars, rawUdpVars, checksumVars>>

LabNext ==
    /\ UNCHANGED which
    /\ \/ /\ which = "list_book" /\ Next
          /\ UNCHANGED <<bookVars, fileVars, handshakeVars, pipelineVars, streamVars,
                         dgramVars, groupVars, rawUdpVars, checksumVars>>
       \/ /\ which = "array_book" /\ ArrayNext
          /\ UNCHANGED <<vars, fileVars, handshakeVars, pipelineVars, streamVars, dgramVars,
                         groupVars, rawUdpVars, checksumVars>>
       \/ /\ which = "file_manager" /\ FileNext
          /\ UNCHANGED <<vars, bookVars, handshakeVars, pipelineVars, streamVars, dgramVars,
                         groupVars, rawUdpVars, checksumVars>>
       \/ /\ which = "handshakes" /\ HandshakesNext
          /\ UNCHANGED <<vars, bookVars, fileVars, pipelineVars, streamVars, dgramVars,
                         groupVars, rawUdpVars, checksumVars>>
       \/ /\ which = "pipeline" /\ PipelineNext
          /\ UNCHANGED <<vars, bookVars, fileVars, handshakeVars, streamVars, dgramVars,
                         groupVars, rawUdpVars, checksumVars>>
       \/ /\ which = "stream_servers" /\ StreamNext
          /\ UNCHANGED <<vars, bookVars, fileVars, handshakeVars, pipelineVars, dgramVars,
                         groupVars, rawUdpVars, checksumVars>>
       \/ /\ which = "dgram_servers" /\ DgramNext
          /\ UNCHANGED <<vars, bookVars, fileVars, handshakeVars, pipelineVars, streamVars,
                         groupVars, rawUdpVars, checksumVars>>
       \/ /\ which = "group_ack" /\ GroupNext
          /\ UNCHANGED <<vars, bookVars, fileVars, handshakeVars, pipelineVars, streamVars,
                         dgramVars, rawUdpVars, checksumVars>>
       \/ /\ which = "raw_udp" /\ RawUdpNext
          /\ UNCHANGED <<vars, bookVars, fileVars, handshakeVars, pipelineVars, streamVars,
                         dgramVars, groupVars, checksumVars>>
       \/ /\ which = "checksum" /\ ChecksumNext
          /\ UNCHANGED <<vars, bookVars, fileVars, handshakeVars, pipelineVars, streamVars,
                         dgramVars, groupVars, rawUdpVars>>

LabSpec == LabInit /\ [][LabNext]_labVars /\ PipelineFairness
=============================================================================
