------------------------------ MODULE Checksum ------------------------------
(***************************************************************************)
(* calculate_checksum of lab16/task4 (the same in its three raw clients): the *)
(* Internet checksum, words of two bytes summed in an int on a little-endian  *)
(* machine and folded to 16 bits by two additions.                            *)
(***************************************************************************)
EXTENDS Integers, Sequences

CONSTANTS
    Bytes,       \* the bytes of a packet
    MaxLength    \* the longest packet: 2048 bytes in the code

ASSUME ChecksumAssumption ==
    /\ Bytes \subseteq 0 .. 255
    /\ MaxLength \in Nat /\ MaxLength <= 65534     \* the sum stays below 2^31

Word == 65536       \* 2^16

VARIABLES
    packet,
    summing,     \* "loop", "fold" or "done"
    nleft,
    sum,         \* an int
    answer,      \* an uint16_t
    total        \* history: the sum before it is folded

checksumVars == <<packet, summing, nleft, sum, answer, total>>

ChecksumInit ==
    /\ packet \in UNION {[1 .. n -> Bytes] : n \in 0 .. MaxLength}
    /\ summing = "loop"
    /\ nleft = Len(packet) /\ sum = 0 /\ answer = 0 /\ total = 0

\* w points at the first byte that is left.
Left(k) == packet[Len(packet) - nleft + k]

AddWord ==
    /\ summing = "loop"
    /\ nleft > 1
    /\ sum' = sum + Left(1) + 256 * Left(2)
    /\ nleft' = nleft - 2
    /\ UNCHANGED <<packet, summing, answer, total>>

\* The last byte of an odd length is the low byte of a word.
AddOddByte ==
    /\ summing = "loop"
    /\ nleft <= 1
    /\ sum' = IF nleft = 1 THEN sum + Left(1) ELSE sum
    /\ total' = sum'
    /\ summing' = "fold"
    /\ UNCHANGED <<packet, nleft, answer>>

\* The carry of the first folding is dropped.
Mut_Folded(s) == (s \div Word) + (s % Word)

Folded(s) ==
    LET once == (s \div Word) + (s % Word) IN once + (once \div Word)

FoldSum ==
    /\ summing = "fold"
    /\ sum' = Folded(sum)
    /\ answer' = (Word - 1) - (sum' % Word)
    /\ summing' = "done"
    /\ UNCHANGED <<packet, nleft, total>>

ChecksumNext == AddWord \/ AddOddByte \/ FoldSum

ChecksumSpec == ChecksumInit /\ [][ChecksumNext]_checksumVars

-----------------------------------------------------------------------------
(* Properties.                                                              *)

\* The receiver's test: with the checksum in its place the words of the packet sum up
\* to a multiple of 2^16 - 1 (RFC 1071), whatever carries the foldings meet
\* (raw_client_udp.c:37-39).
ReceiverAccepts ==
    summing = "done" => /\ answer \in Nat /\ answer < Word
                        /\ (total + answer) % (Word - 1) = 0
=============================================================================
