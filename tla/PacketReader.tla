---------------------------- MODULE PacketReader ----------------------------
(***************************************************************************)
(* How MQTTPacket.c cuts the byte stream of a connection into packets.  The *)
(* socket does not block: MQTTPacket_Factory is called when something can   *)
(* be read, and when it runs out of bytes it keeps what it has in the       *)
(* socket's queue (SocketBuffer.c) and starts over on the next call.        *)
(* Radix is 128 in the code; a smaller one gives long length fields to      *)
(* short packets.  A byte of the length field is a digit, plus Radix when   *)
(* more digits follow.                                                      *)
(***************************************************************************)
EXTENDS Naturals, Sequences, SequencesExt

CONSTANTS
    Radix,              \* what a byte of the length field counts to
    Packets,            \* what the other end may send
    MaxPackets,         \* bound: packets sent
    Lengths             \* the lengths that are encoded

MaxLengthBytes == 4

ASSUME PacketAssumption ==
    /\ Radix \in Nat \ {0, 1}
    /\ Packets \subseteq [header : Nat, data : Seq(Nat)]
    /\ \A p \in Packets : Len(p.data) < Radix * Radix * Radix * Radix
    /\ MaxPackets \in Nat
    /\ Lengths \subseteq Nat

\* MQTTPacket_encode.
Encode(length, radix) ==
    LET digits[n \in Nat] == IF n < radix THEN <<n>>
                             ELSE <<(n % radix) + radix>> \o digits[n \div radix]
    IN  digits[length]

\* What MQTTPacket_decode has after a byte, from what it had before.
LengthRead(read, i, bytes, radix) ==
    IF i = 0 THEN [value |-> 0, multiplier |-> 1]
    ELSE [value |-> read[i - 1].value + (bytes[i] % radix) * read[i - 1].multiplier,
          multiplier |-> read[i - 1].multiplier * radix]

\* Mutant: the number of length bytes is checked too early.
Decode_ThreeBytes(bytes, radix) ==
    LET n == Min({Len(bytes), 3} \cup {i \in 1..Len(bytes) : bytes[i] < radix})
        read[i \in 0..n] == LengthRead(read, i, bytes, radix)
    IN  [rc |-> IF n > 0 /\ bytes[n] < radix THEN "complete" ELSE IF n = 3 THEN "error" ELSE "interrupted",
         used |-> n, length |-> read[n].value]

\* MQTTPacket_decode of the bytes that are there: how many it reads, and the
\* length, or that it is interrupted or finds an error.
Decode(bytes, radix) ==
    LET n == Min({Len(bytes), MaxLengthBytes} \cup {i \in 1..Len(bytes) : bytes[i] < radix})
        read[i \in 0..n] == LengthRead(read, i, bytes, radix)
    IN  [rc |-> IF n > 0 /\ bytes[n] < radix THEN "complete"
                ELSE IF n = MaxLengthBytes THEN "error" ELSE "interrupted",
         used |-> n,
         length |-> read[n].value]

-----------------------------------------------------------------------------
(* A connection: the bytes on their way and in the kernel, the fixed header *)
(* and the data the socket's queue holds, and the packets read.             *)

VARIABLES
    sent,               \* history: the packets of the other end
    network,            \* the bytes on their way (external)
    kernel,             \* the bytes that can be read
    fixed_header,       \* socket_queue: the header that was read
    data,               \* socket_queue: buf
    packets,            \* history: what MQTTPacket_Factory has returned
    failed              \* the stream cannot be read

readerVars == <<sent, network, kernel, fixed_header, data, packets, failed>>

ReaderInit ==
    /\ sent = <<>>
    /\ network = <<>>
    /\ kernel = <<>>
    /\ fixed_header = <<>>
    /\ data = <<>>
    /\ packets = <<>>
    /\ failed = FALSE

Bytes(p) == <<p.header>> \o Encode(Len(p.data), Radix) \o p.data

\* The other end sends a packet behind the others.
PeerSends ==
    /\ Len(sent) < MaxPackets
    /\ \E p \in Packets : sent' = Append(sent, p) /\ network' = network \o Bytes(p)
    /\ UNCHANGED <<kernel, fixed_header, data, packets, failed>>

\* The network cuts the stream wherever it likes.
BytesArrive ==
    /\ network # <<>>
    /\ \E n \in 1..Len(network) :
          /\ kernel' = kernel \o SubSeq(network, 1, n)
          /\ network' = SubSeq(network, n + 1, Len(network))
    /\ UNCHANGED <<sent, fixed_header, data, packets, failed>>

\* Mutant: a read that goes on puts its bytes in front of what was read before.
Socket_getdata_InFront(queued, readable, bytes) ==
    SubSeq(readable, 1, Min({bytes - Len(queued), Len(readable)})) \o queued

\* Socket_getdata and SocketBuffer_getQueuedData: what is queued, and as much
\* of the rest as the kernel has.
Socket_getdata(queued, readable, bytes) ==
    queued \o SubSeq(readable, 1, Min({bytes - Len(queued), Len(readable)}))

\* MQTTPacket_Factory, called when the socket can be read.  Socket_getch gives
\* the queued bytes of the header again and then takes from the kernel, queueing
\* what it takes.  SocketBuffer_interrupted keeps the queue, and
\* SocketBuffer_complete empties it.
MQTTPacket_Factory ==
    LET bytes == fixed_header \o kernel
        length == Decode(Tail(bytes), Radix)
        rest == SubSeq(bytes, 2 + length.used, Len(bytes))
        got == Socket_getdata(data, rest, length.length)
        complete == length.rc = "complete" /\ Len(got) = length.length
    IN  /\ ~failed
        /\ kernel # <<>>
        /\ failed' = (length.rc = "error")
        /\ fixed_header' = IF complete THEN <<>> ELSE SubSeq(bytes, 1, 1 + length.used)
        /\ data' = IF complete \/ length.rc # "complete" THEN <<>> ELSE got
        /\ kernel' = IF length.rc = "complete" THEN SubSeq(rest, 1 + Len(got) - Len(data), Len(rest)) ELSE <<>>
        /\ packets' = IF complete THEN Append(packets, [header |-> bytes[1], data |-> got]) ELSE packets
        /\ UNCHANGED <<sent, network>>

ReaderNext == PeerSends \/ BytesArrive \/ MQTTPacket_Factory

\* Packets are read as they were sent, wherever the network cuts the stream (in
\* the header, in the length field, in the data or between two packets) and
\* however the reads fall in between; when every byte was read, so was every
\* packet.
PacketsReassembled ==
    /\ ~failed
    /\ IsPrefix(packets, sent)
    /\ network = <<>> /\ kernel = <<>> => packets = sent

-----------------------------------------------------------------------------
(* The length field as it is, with radix 128 *)

VARIABLES
    packetLength,           \* the length of a packet
    encoded             \* its length field

lengthVars == <<packetLength, encoded>>

LengthInit == packetLength = 0 /\ encoded = <<>>

MQTTPacket_encode ==
    /\ encoded = <<>>
    /\ packetLength' \in Lengths
    /\ encoded' = Encode(packetLength', 128)

\* The length of every packet MQTT allows survives MQTTPacket_encode and
\* MQTTPacket_decode, in the fewest bytes; a length that takes five bytes is
\* refused and never taken for another length.
LengthRoundTrip ==
    encoded # <<>> =>
        IF packetLength < 128 * 128 * 128 * 128
        THEN /\ Decode(encoded, 128) = [rc |-> "complete", used |-> Len(encoded), length |-> packetLength]
             /\ packetLength >= <<0, 128, 128 * 128, 128 * 128 * 128>>[Len(encoded)]
        ELSE Decode(encoded, 128).rc = "error"
=============================================================================
