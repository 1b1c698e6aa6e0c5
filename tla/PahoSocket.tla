----------------------------- MODULE PahoSocket -----------------------------
(***************************************************************************)
(* The client's one TCP connection, as Socket.c and SocketBuffer.c keep    *)
(* it.  A packet is written with one writev.  When the kernel takes only   *)
(* part of it, the rest is kept in writes and the descriptor in            *)
(* write_pending, and the select loop of the receive thread writes the     *)
(* rest.  The descriptor of a closed connection is the lowest free number  *)
(* and so the number of the next one, which is why what is kept under the  *)
(* number matters after a close.                                           *)
(* Reading is not split here: module PacketReader shows that MQTTPacket    *)
(* reassembles a packet whatever the pieces it arrives in.                 *)
(***************************************************************************)
EXTENDS Naturals, Sequences

VARIABLES
    link,          \* the connection: closed, connecting, open, or reset (gone, and the client has not noticed)
    write_pending, \* s.write_pending holds the descriptor
    writes,        \* SocketBuffer.c's writes: packets of which the front part is written
    toBroker,      \* what the kernel has taken: whole packets, fronts and rests
    toClient,      \* packets the client can read
    stale          \* history: the connection was made while a write of an earlier one was kept

sockVars == <<link, write_pending, writes, toBroker, toClient, stale>>

\* A part of a packet: "whole", "front" or "rest".
Piece(part, p) == [part |-> part, packet |-> p]

SocketInit ==
    /\ link = "closed"
    /\ write_pending = FALSE
    /\ writes = <<>>
    /\ toBroker = <<>>
    /\ toClient = <<>>
    /\ stale = FALSE

\* Socket_new: a descriptor is made and connect is called on it.  Nothing of
\* what an earlier connection had under way reaches the new one.
Socket_new ==
    /\ link' = "connecting"
    /\ toBroker' = <<>>
    /\ toClient' = <<>>
    /\ stale' = (writes # <<>>)
    /\ UNCHANGED <<write_pending, writes>>

-----------------------------------------------------------------------------
(* Writing.                                                                *)

\* SocketBuffer_pendingWrite and the descriptor's entry in write_pending.
pendingWrite(p) ==
    /\ writes' = Append(writes, p)
    /\ write_pending' = TRUE

\* Mutant: the check for output that is already pending is missing.
Socket_putdatas_Unchecked(p, rc) ==
    \/ /\ rc = "complete"
       /\ link \in {"open", "reset"}
       /\ toBroker' = IF link = "open" THEN Append(toBroker, Piece("whole", p)) ELSE toBroker
       /\ UNCHANGED <<write_pending, writes>>
    \/ /\ rc = "interrupted"
       /\ link = "open"
       /\ toBroker' = Append(toBroker, Piece("front", p))
       /\ pendingWrite(p)
    \/ /\ rc = "error"
       /\ link = "reset"
       /\ UNCHANGED <<toBroker, write_pending, writes>>

\* Socket_putdatas of packet p, with its result.  It refuses to write while
\* an earlier write is pending.  On a connection that is gone the kernel may
\* still take the packet, which nobody will read.
Socket_putdatas(p, rc) ==
    \/ /\ rc = "complete"
       /\ ~write_pending
       /\ link \in {"open", "reset"}
       /\ toBroker' = IF link = "open" THEN Append(toBroker, Piece("whole", p)) ELSE toBroker
       /\ UNCHANGED <<write_pending, writes>>
    \/ /\ rc = "interrupted"
       /\ ~write_pending
       /\ link = "open"
       /\ toBroker' = Append(toBroker, Piece("front", p))
       /\ pendingWrite(p)
    \/ /\ rc = "error"
       /\ write_pending \/ link = "reset"
       /\ UNCHANGED <<toBroker, write_pending, writes>>

Results == {"complete", "interrupted", "error"}

\* Socket_continueWrites: the rest of the first write kept for the
\* descriptor is written.  An error (-1) counts as completion.
Socket_continueWrites ==
    /\ write_pending
    /\ link \in {"open", "reset"}
    /\ toBroker' = IF link = "open" THEN Append(toBroker, Piece("rest", Head(writes)))
                                    ELSE toBroker
    /\ writes' = Tail(writes)
    /\ write_pending' = FALSE

\* Socket_close: the descriptor leaves write_pending, SocketBuffer_cleanup
\* drops what was read, and the entry in writes stays.
\* MQTTAsync_closeOnly sends a DISCONNECT first when the client is connected.
Socket_close(connected, disconnect) ==
    /\ link' = "closed"
    /\ write_pending' = FALSE
    /\ toBroker' = IF connected /\ link = "open" /\ ~write_pending
                      THEN Append(toBroker, Piece("whole", disconnect))
                      ELSE toBroker
    /\ toClient' = <<>>
    /\ UNCHANGED <<writes, stale>>

-----------------------------------------------------------------------------
(* The other end and the network (external).                               *)

\* The first packet the broker can make out, and what follows it.
Readable ==
    \/ toBroker # <<>> /\ Head(toBroker).part = "whole"
    \/ Len(toBroker) > 1 /\ Head(toBroker).part = "front" /\ toBroker[2] = Piece("rest", Head(toBroker).packet)

AfterReadable ==
    IF Head(toBroker).part = "whole" THEN Tail(toBroker) ELSE Tail(Tail(toBroker))

\* What arrives is not a sequence of packets.
Malformed ==
    \/ toBroker # <<>> /\ Head(toBroker).part = "rest"
    \/ Len(toBroker) > 1 /\ Head(toBroker).part = "front" /\ toBroker[2] # Piece("rest", Head(toBroker).packet)

\* The connection breaks; answers under way are lost.
Breaks ==
    /\ link \in {"connecting", "open"}
    /\ link' = "reset"
    /\ toClient' = <<>>

=============================================================================
