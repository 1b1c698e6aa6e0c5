-------------------------- MODULE PahoAsyncProofs --------------------------
(***************************************************************************)
(* Proofs about the asynchronous MQTT client of module PahoAsync, for any  *)
(* jobs, calls, messages, number of message ids and bound on the events.   *)
(* The invariants of PahoAsyncInvariants come in layers.  The types and    *)
(* the wire (WireInv) come first. The messages from the broker (InboundInv)*)
(* and the jobs (JobInv) rest on them and not on one another, and the      *)
(* conversation with the broker (ConversationInv) on all three. In each    *)
(* layer the actions are first reduced to a few steps (WireStep, QuietStep,*)
(* JobStep, and in a session SessionNext), and the invariant is proved of  *)
(* those.                                                                  *)
(***************************************************************************)
EXTENDS PahoAsyncInvariants, SequenceTheorems, FiniteSetTheorems, WellFoundedInduction, TLAPS

-----------------------------------------------------------------------------
(* What the operators return.                                              *)

LEMMA SeqFacts ==
    ASSUME NEW S, NEW s \in Seq(S), s # <<>>
    PROVE  /\ Len(s) \in Nat \ {0}
           /\ Head(s) = s[1]
           /\ Head(s) \in S
           /\ Tail(s) \in Seq(S)
           /\ Len(Tail(s)) = Len(s) - 1
           /\ \A i \in 1 .. Len(s) - 1 : Tail(s)[i] = s[i + 1]
<1>1. Len(s) \in Nat \ {0}
  BY EmptySeq
<1> QED
  BY <1>1, HeadTailProperties

LEMMA AppendFacts ==
    ASSUME NEW S, NEW s \in Seq(S), NEW e \in S
    PROVE  /\ Append(s, e) \in Seq(S)
           /\ Append(s, e) # <<>>
           /\ Len(Append(s, e)) = Len(s) + 1
           /\ \A i \in 1 .. Len(s) : Append(s, e)[i] = s[i]
           /\ Append(s, e)[Len(s) + 1] = e
BY AppendProperties

(* RemoveAt takes one element out and keeps the others. *)
LEMMA RemoveAtFacts ==
    ASSUME NEW S, NEW s \in Seq(S), NEW i \in DOMAIN s
    PROVE  /\ RemoveAt(s, i) \in Seq(S)
           /\ \A k \in DOMAIN s : k # i => \E l \in DOMAIN RemoveAt(s, i) : RemoveAt(s, i)[l] = s[k]
           /\ \A l \in DOMAIN RemoveAt(s, i) :
                 RemoveAt(s, i)[l] = IF l < i THEN s[l] ELSE s[l + 1]
           /\ Len(RemoveAt(s, i)) = Len(s) - 1
<1> DEFINE a == SubSeq(s, 1, i - 1)
           b == SubSeq(s, i + 1, Len(s))
           n == Len(s)
<1>1. n \in Nat /\ i \in 1 .. n
  BY LenProperties
<1>2. a \in Seq(S) /\ Len(a) = i - 1 /\ \A k \in 1 .. i - 1 : a[k] = s[k]
  <2>1. \A k \in 1 .. i - 1 : k \in 1 .. Len(s)
    BY <1>1
  <2> QED
    BY <1>1, <2>1, SubSeqProperties
<1>3. b \in Seq(S) /\ Len(b) = n - i /\ \A k \in 1 .. n - i : b[k] = s[i + k]
  <2>1. \A k \in i + 1 .. Len(s) : k \in 1 .. Len(s)
    BY <1>1
  <2>2. b \in Seq(S) /\ Len(b) = IF i + 1 <= Len(s) THEN Len(s) - (i + 1) + 1 ELSE 0
    BY <1>1, <2>1, SubSeqProperties
  <2>3. \A k \in 1 .. Len(s) - (i + 1) + 1 : b[k] = s[i + 1 + k - 1]
    BY <1>1, <2>1, SubSeqProperties
  <2> QED
    BY <1>1, <2>2, <2>3
<1> HIDE DEF a, b, n
<1>4. /\ a \o b \in Seq(S)
      /\ Len(a \o b) = (i - 1) + (n - i)
      /\ \A k \in 1 .. (i - 1) + (n - i) : (a \o b)[k] = IF k <= i - 1 THEN a[k] ELSE b[k - (i - 1)]
  <2>1. /\ a \o b \in Seq(S)
        /\ Len(a \o b) = Len(a) + Len(b)
        /\ \A k \in 1 .. Len(a) + Len(b) : (a \o b)[k] = IF k <= Len(a) THEN a[k] ELSE b[k - Len(a)]
    BY <1>2, <1>3, ConcatProperties
  <2>2. Len(a) = i - 1 /\ Len(b) = n - i
    BY <1>2, <1>3
  <2> HIDE DEF a, b
  <2> QED
    BY <2>1, <2>2, Zenon
<1>5. RemoveAt(s, i) = a \o b
  BY DEF RemoveAt, a, b
<1>6. \A l \in 1 .. n - 1 : (a \o b)[l] = IF l < i THEN s[l] ELSE s[l + 1]
  <2> SUFFICES ASSUME NEW l \in 1 .. n - 1
               PROVE  (a \o b)[l] = IF l < i THEN s[l] ELSE s[l + 1]
    OBVIOUS
  <2>1. l \in 1 .. (i - 1) + (n - i)
    BY <1>1
  <2>2. (a \o b)[l] = IF l <= i - 1 THEN a[l] ELSE b[l - (i - 1)]
    BY <1>4, <2>1
  <2>3. CASE l < i
    <3>1. l <= i - 1 /\ l \in 1 .. i - 1
      BY <1>1, <2>3
    <3> QED
      BY <1>2, <2>2, <2>3, <3>1
  <2>4. CASE ~(l < i)
    <3>1. ~(l <= i - 1) /\ l - (i - 1) \in 1 .. n - i /\ i + (l - (i - 1)) = l + 1
      BY <1>1, <2>4
    <3>2. b[l - (i - 1)] = s[l + 1]
      BY <1>3, <3>1
    <3> QED
      BY <2>2, <2>4, <3>1, <3>2
  <2> QED
    BY <2>3, <2>4
<1>7. Len(a \o b) = n - 1 /\ DOMAIN (a \o b) = 1 .. n - 1
  <2>1. (i - 1) + (n - i) = n - 1
    BY <1>1
  <2>2. Len(a \o b) = n - 1
    BY <1>4, <2>1, Zenon
  <2>3. DOMAIN (a \o b) = 1 .. Len(a \o b)
    <3> DEFINE c == a \o b
    <3>1. c \in Seq(S)
      BY <1>4, Zenon
    <3> HIDE DEF c
    <3>2. DOMAIN c = 1 .. Len(c)
      BY <3>1, LenProperties
    <3> QED
      BY <3>2, Zenon DEF c
  <2> QED
    BY <2>2, <2>3, Zenon
<1>8. \A k \in 1 .. n : k # i => \E l \in 1 .. n - 1 : (a \o b)[l] = s[k]
  <2> SUFFICES ASSUME NEW k \in 1 .. n, k # i
               PROVE  \E l \in 1 .. n - 1 : (a \o b)[l] = s[k]
    OBVIOUS
  <2>1. CASE k < i
    <3>1. k \in 1 .. n - 1
      BY <1>1, <2>1
    <3> QED
      BY <1>6, <2>1, <3>1
  <2>2. CASE k > i
    <3>1. k - 1 \in 1 .. n - 1 /\ ~(k - 1 < i) /\ (k - 1) + 1 = k
      BY <1>1, <2>2
    <3> QED
      BY <1>6, <3>1
  <2>3. k < i \/ k > i
    BY <1>1
  <2> QED
    BY <2>1, <2>2, <2>3
<1> QED
  BY <1>1, <1>4, <1>5, <1>6, <1>7, <1>8, LenProperties DEF n

(* The store grows by one file at a time. *)
LEMMA StoreFinite ==
    ASSUME NEW files, IsFiniteSet(files), NEW f, NEW more, more \subseteq files \cup {f}
    PROVE  IsFiniteSet(more)
BY FS_AddElement, FS_Subset

LEMMA TellTyped ==
    ASSUME NEW told \in [AllJobs -> Outcomes], NEW jobs, NEW what \in {"success", "failure"}
    PROVE  Tell(told, jobs, what) \in [AllJobs -> Outcomes]
BY DEF Tell, Outcomes

LEMMA AddedTyped ==
    ASSUME NEW c \in Entries, NEW q \in Seq(Entries)
    PROVE  Added(c, q) \in Seq(Entries)
<1>1. Append(q, c) \in Seq(Entries)
  OBVIOUS
<1>2. <<c>> \in Seq(Entries)
  OBVIOUS
<1>3. <<c>> \o q \in Seq(Entries)
  BY <1>2, ConcatProperties
<1> QED
  BY <1>1, <1>3, Zenon DEF Added

LEMMA EntryTyped ==
    ASSUME NEW j \in AllJobs \cup {none}, NEW v \in Nat
    PROVE  Command(j, v) \in Entries
BY DEF Command, Entries

LEMMA disconnect_internalTyped ==
    ASSUME commands \in Seq(Entries)
    PROVE  disconnect_internal \in Seq(Entries)
<1>1. Command(none, 0) \in Entries
  BY EntryTyped
<1> QED
  BY <1>1, AddedTyped DEF disconnect_internal

LEMMA cleanSessionTyped ==
    ASSUME TypeInv, NEW q, NEW job, NEW what \in {"success", "failure"}, cleanSession(q, job, what)
    PROVE  /\ outcome' \in [AllJobs -> Outcomes]
           /\ QueueTypes'
<1>1. outcome \in [AllJobs -> Outcomes]
  BY DEF TypeInv, AppTypes, Outcomes
<1>2. outcome' \in [AllJobs -> Outcomes]
  <2>1. removeResponsesAndCommands(q) \in [AllJobs -> Outcomes]
    BY <1>1, TellTyped DEF removeResponsesAndCommands
  <2> QED
    BY <2>1, TellTyped DEF cleanSession
<1>3. QueueTypes'
  BY FS_EmptySet DEF cleanSession, QueueTypes
<1> QED
  BY <1>2, <1>3

LEMMA ConnectFailsTyped ==
    ASSUME TypeInv, ConnectFails
    PROVE  /\ outcome' \in [AllJobs -> Outcomes]
           /\ QueueTypes'
           /\ connect' = connect
<1>1. CASE checkConn(connect.version) /\ commands' = Added(Command(connect.job, 4), commands)
           /\ UNCHANGED <<responses, outbound, inbound, store, msgID, outcome>>
  <2>1. commands' \in Seq(Entries)
    <3>1. Command(connect.job, 4) \in Entries
      BY EntryTyped DEF TypeInv, ConnTypes, AllJobs
    <3> QED
      BY <1>1, <3>1, AddedTyped DEF TypeInv, QueueTypes
  <2>2. QueueTypes'
    BY <1>1, <2>1 DEF TypeInv, QueueTypes
  <2> QED
    BY <1>1, <2>2 DEF TypeInv, AppTypes, Outcomes, ConnectFails
<1>2. CASE cleanSession(commands, connect.job, "failure")
  BY <1>2, cleanSessionTyped DEF ConnectFails
<1> QED
  BY <1>1, <1>2 DEF ConnectFails, closeSession

(* A set of numbers that is not empty has a least one. *)
LEMMA Least ==
    ASSUME NEW S \in SUBSET Nat, S # {}
    PROVE  \E i \in S : \A k \in S : i <= k
<1> DEFINE R == OpToRel(<, Nat)
<1>1. \A i, k \in Nat : i < k => <<i, k>> \in R
  BY DEF OpToRel
<1>2. IsWellFoundedOn(R, Nat)
  BY NatLessThanWellFounded
<1> HIDE DEF R
<1>3. PICK i \in S : \A k \in S : ~(<<k, i>> \in R)
  BY <1>2, WFMin
<1>4. \A k \in S : ~(k < i)
  BY <1>1, <1>3
<1> QED
  BY <1>4

(* The first of the responses with this id. *)
LEMMA FirstAnswer ==
    ASSUME NEW id, responses \in Seq(Jobs), Answers(id) # {}
    PROVE  (CHOOSE i \in Answers(id) : \A k \in Answers(id) : i <= k) \in Answers(id)
<1>1. Answers(id) \subseteq Nat
  BY LenProperties DEF Answers
<1>2. \E i \in Answers(id) : \A k \in Answers(id) : i <= k
  BY <1>1, Least
<1> QED
  BY <1>2, Zenon

LEMMA AnsweredTyped ==
    ASSUME TypeInv, NEW id, NEW what \in {"success", "failure"}, Answered(id, what)
    PROVE  /\ outcome' \in [AllJobs -> Outcomes]
           /\ responses' \in Seq(Jobs)
<1>1. outcome \in [AllJobs -> Outcomes] /\ responses \in Seq(Jobs)
  BY DEF TypeInv, AppTypes, QueueTypes, Outcomes
<1>2. CASE Answers(id) = {}
  BY <1>1, <1>2 DEF Answered
<1>3. CASE Answers(id) # {}
  <2> DEFINE i == CHOOSE i \in Answers(id) : \A k \in Answers(id) : i <= k
  <2>1. i \in Answers(id)
    BY <1>1, <1>3, FirstAnswer
  <2>2. i \in DOMAIN responses
    BY <2>1 DEF Answers
  <2>3. responses' = RemoveAt(responses, i) /\ outcome' = Tell(outcome, {responses[i]}, what)
    BY <1>3, Zenon DEF Answered
  <2> HIDE DEF i
  <2> QED
    BY <1>1, <2>2, <2>3, RemoveAtFacts, TellTyped
<1> QED
  BY <1>2, <1>3

-----------------------------------------------------------------------------
(* The wire: every action of the client, the broker and the network is, on *)
(* what was written, one of a few steps.                                   *)

\* Part of a packet p is written.
Written(p) ==
    \/ toBroker' = Append(toBroker, Piece("whole", p)) /\ UNCHANGED <<write_pending, writes>>
    \/ toBroker' = Append(toBroker, Piece("front", p)) /\ pendingWrite(p)

WireStep ==
    \/ UNCHANGED <<link, write_pending, writes, toBroker, stale>>
    \/ Socket_new
    \/ \E p \in Packets, rc \in Results : Socket_putdatas(p, rc) /\ UNCHANGED <<link, stale>>
    \/ Socket_continueWrites /\ UNCHANGED <<link, stale>>
    \/ Socket_close(connected, Packet("DISCONNECT", 0, none))
    \/ /\ link = "connecting"
       /\ link' = "open"
       /\ Written(Packet("CONNECT", 0, none))
       /\ UNCHANGED stale
    \/ /\ Readable
       /\ toBroker' = AfterReadable
       /\ UNCHANGED <<link, write_pending, writes, stale>>
    \/ /\ Malformed
       /\ toBroker' = <<>>
       /\ link' = IF link = "open" THEN "reset" ELSE link
       /\ UNCHANGED <<write_pending, writes, stale>>
    \/ /\ link' = "reset"
       /\ UNCHANGED <<write_pending, writes, toBroker, stale>>
    \/ /\ link' = "closed"
       /\ write_pending' = FALSE
       /\ writes' = <<>>
       /\ UNCHANGED <<toBroker, stale>>

LEMMA PacketTyped ==
    ASSUME NEW type \in PacketTypes, NEW id \in Nat, NEW about \in Nat
    PROVE  Packet(type, id, about) \in Packets
BY DEF Packet, Packets

LEMMA ClientPackets ==
    /\ Packet("DISCONNECT", 0, none) \in Packets
    /\ Packet("CONNECT", 0, none) \in Packets
    /\ Packet("PINGREQ", 0, none) \in Packets
    /\ NoPacket \in Packets
<1>1. {"DISCONNECT", "CONNECT", "PINGREQ", "none"} \subseteq PacketTypes
  BY DEF PacketTypes
<1>2. 0 \in Nat /\ none \in Nat
  BY DEF none
<1> QED
  BY <1>1, <1>2, PacketTyped DEF NoPacket

LEMMA PieceTyped ==
    ASSUME NEW part \in {"whole", "front", "rest"}, NEW p \in Packets
    PROVE  /\ Piece(part, p) \in Pieces
           /\ Piece(part, p).part = part
           /\ Piece(part, p).packet = p
BY DEF Piece, Pieces

(* What is on the wire after part of a packet is appended. *)
LEMMA WrittenKeeps ==
    ASSUME WireTypes, NEW part \in {"whole", "front", "rest"}, NEW p \in Packets,
           ~stale => WellFormed(toBroker),
           toBroker' = Append(toBroker, Piece(part, p)),
           ~stale => IF part = "rest" THEN /\ toBroker # <<>>
                                           /\ toBroker[Len(toBroker)] = Piece("front", p)
                     ELSE toBroker # <<>> => toBroker[Len(toBroker)].part # "front"
    PROVE  /\ toBroker' \in Seq(Pieces)
           /\ toBroker' # <<>>
           /\ toBroker'[Len(toBroker')] = Piece(part, p)
           /\ ~stale => WellFormed(toBroker')
<1> DEFINE n == Len(toBroker)
           e == Piece(part, p)
<1>1. toBroker \in Seq(Pieces) /\ n \in Nat /\ DOMAIN toBroker = 1 .. n
  BY LenProperties DEF WireTypes
<1>2. e \in Pieces /\ e.part = part /\ e.packet = p
  BY PieceTyped
<1> HIDE DEF e
<1>3. /\ toBroker' \in Seq(Pieces)
      /\ toBroker' # <<>>
      /\ Len(toBroker') = n + 1
      /\ \A i \in 1 .. n : toBroker'[i] = toBroker[i]
      /\ toBroker'[n + 1] = e
  BY <1>1, <1>2, AppendFacts DEF e
<1>4. DOMAIN toBroker' = 1 .. n + 1
  BY <1>3, LenProperties
<1>5. n = 0 <=> toBroker = <<>>
  BY <1>1, EmptySeq
<1> HIDE DEF n
<1>6. ASSUME ~stale PROVE WellFormed(toBroker')
  <2>1. ASSUME NEW i \in 1 .. n + 1, toBroker'[i].part = "rest"
        PROVE  i > 1 /\ toBroker'[i - 1] = Piece("front", toBroker'[i].packet)
    <3>1. CASE i = n + 1
      <4>1. part = "rest" /\ n # 0 /\ toBroker[n] = Piece("front", p)
        BY <1>2, <1>3, <1>5, <1>6, <2>1, <3>1 DEF n
      <4>2. i > 1 /\ i - 1 = n /\ n \in 1 .. n
        BY <1>1, <3>1, <4>1
      <4> QED
        BY <1>2, <1>3, <3>1, <4>1, <4>2
    <3>2. CASE i # n + 1
      <4>1. i \in 1 .. n
        BY <1>1, <3>2
      <4>2. i > 1 /\ toBroker[i - 1] = Piece("front", toBroker[i].packet)
        BY <1>1, <1>3, <1>6, <2>1, <4>1 DEF WellFormed
      <4>3. i - 1 \in 1 .. n
        BY <1>1, <4>1, <4>2
      <4> QED
        BY <1>3, <4>1, <4>2, <4>3
    <3> QED
      BY <3>1, <3>2
  <2>2. ASSUME NEW i \in 1 .. n + 1, toBroker'[i].part = "front", i < n + 1
        PROVE  toBroker'[i + 1] = Piece("rest", toBroker'[i].packet)
    <3>1. i \in 1 .. n
      BY <1>1, <2>2
    <3>2. CASE i = n
      <4>1. n # 0 /\ toBroker[n].part = "front" /\ i + 1 = n + 1
        BY <1>1, <1>3, <2>2, <3>1, <3>2
      <4>2. part = "rest" /\ toBroker[n] = Piece("front", p)
        BY <1>5, <1>6, <4>1 DEF n
      <4>3. Piece("front", p).packet = p
        BY PieceTyped
      <4> QED
        BY <1>3, <3>1, <3>2, <4>1, <4>2, <4>3 DEF e
    <3>3. CASE i # n
      <4>1. i < n /\ i + 1 \in 1 .. n
        BY <1>1, <3>1, <3>3
      <4>2. toBroker[i + 1] = Piece("rest", toBroker[i].packet)
        BY <1>1, <1>3, <1>6, <2>2, <3>1, <4>1 DEF WellFormed, n
      <4> QED
        BY <1>3, <3>1, <4>1, <4>2
    <3> QED
      BY <3>2, <3>3
  <2> QED
    BY <1>3, <1>4, <2>1, <2>2 DEF WellFormed
<1> QED
  BY <1>3, <1>6 DEF e

(* The same after the front of the wire is read. *)
LEMMA ReadKeeps ==
    ASSUME WireTypes, WellFormed(toBroker), Readable, toBroker' = AfterReadable
    PROVE  /\ toBroker' \in Seq(Pieces)
           /\ WellFormed(toBroker')
           /\ toBroker' # <<>> => toBroker # <<>> /\ toBroker'[Len(toBroker')] = toBroker[Len(toBroker)]
           /\ toBroker' = <<>> => toBroker # <<>> /\ toBroker[Len(toBroker)].part # "front"
<1> DEFINE n == Len(toBroker)
<1>1. toBroker \in Seq(Pieces) /\ n \in Nat /\ DOMAIN toBroker = 1 .. n /\ toBroker # <<>>
  BY LenProperties, EmptySeq DEF WireTypes, Readable
<1>2. n > 0 /\ Head(toBroker) = toBroker[1]
  BY <1>1, SeqFacts
<1>3. ASSUME NEW m \in {1, 2}, m <= n,
             toBroker' \in Seq(Pieces), Len(toBroker') = n - m,
             \A i \in 1 .. n - m : toBroker'[i] = toBroker[i + m],
             toBroker[m].part # "front"
      PROVE  /\ WellFormed(toBroker')
             /\ toBroker' # <<>> => toBroker'[Len(toBroker')] = toBroker[n]
             /\ toBroker' = <<>> => toBroker[n].part # "front"
  <2>0. DOMAIN toBroker' = 1 .. n - m /\ (toBroker' = <<>> <=> n - m = 0)
    BY <1>3, LenProperties, EmptySeq
  <2> HIDE DEF n
  <2>1. ASSUME NEW i \in 1 .. n - m, toBroker'[i].part = "rest"
        PROVE  i > 1 /\ toBroker'[i - 1] = Piece("front", toBroker'[i].packet)
    <3>1. i + m \in 1 .. n /\ (i + m) - 1 = (i - 1) + m
      BY <1>1, <1>3
    <3>2. toBroker[i + m].part = "rest" /\ toBroker'[i] = toBroker[i + m]
      BY <1>3, <2>1
    <3>3. toBroker[(i - 1) + m] = Piece("front", toBroker[i + m].packet)
      BY <1>1, <3>1, <3>2 DEF WellFormed
    <3>4. i # 1
      <4>1. SUFFICES ASSUME i = 1 PROVE FALSE
        OBVIOUS
      <4>2. (i - 1) + m = m
        BY <1>3, <4>1
      <4>3. toBroker[m].part = "front"
        BY <3>3, <4>2 DEF Piece
      <4> QED
        BY <1>3, <4>3
    <3>5. i > 1 /\ i - 1 \in 1 .. n - m
      BY <1>1, <1>3, <3>4
    <3> QED
      BY <1>3, <3>2, <3>3, <3>5
  <2>2. ASSUME NEW i \in 1 .. n - m, toBroker'[i].part = "front", i < n - m
        PROVE  toBroker'[i + 1] = Piece("rest", toBroker'[i].packet)
    <3>1. /\ i + m \in 1 .. n
          /\ i + m < n
          /\ i + 1 \in 1 .. n - m
          /\ (i + m) + 1 = (i + 1) + m
      BY <1>1, <1>3, <2>2
    <3>2. toBroker[(i + m) + 1] = Piece("rest", toBroker[i + m].packet)
      BY <1>1, <1>3, <2>2, <3>1 DEF WellFormed, n
    <3> QED
      BY <1>3, <3>1, <3>2
  <2>3. WellFormed(toBroker')
    BY <1>3, <2>0, <2>1, <2>2 DEF WellFormed
  <2>4. toBroker' # <<>> => toBroker'[Len(toBroker')] = toBroker[n]
    <3> SUFFICES ASSUME toBroker' # <<>> PROVE toBroker'[n - m] = toBroker[n]
      BY <1>3
    <3>1. n - m \in 1 .. n - m /\ (n - m) + m = n
      BY <1>1, <1>3, <2>0
    <3> QED
      BY <1>3, <3>1
  <2>5. toBroker' = <<>> => toBroker[n].part # "front"
    <3> SUFFICES ASSUME toBroker' = <<>> PROVE toBroker[n].part # "front"
      OBVIOUS
    <3>1. n = m
      BY <1>1, <1>3, <2>0
    <3> QED
      BY <1>3, <3>1
  <2> QED
    BY <2>3, <2>4, <2>5
<1>4. CASE Head(toBroker).part = "whole"
  <2>1. toBroker' = Tail(toBroker)
    BY <1>4 DEF AfterReadable
  <2>2. /\ toBroker' \in Seq(Pieces)
        /\ Len(toBroker') = n - 1
        /\ \A i \in 1 .. n - 1 : toBroker'[i] = toBroker[i + 1]
    BY <1>1, <2>1, SeqFacts
  <2>3. 1 <= n /\ toBroker[1].part # "front"
    BY <1>1, <1>2, <1>4
  <2> QED
    BY <1>1, <1>3, <2>2, <2>3
<1>5. CASE Head(toBroker).part # "whole"
  <2>1. /\ toBroker' = Tail(Tail(toBroker))
        /\ n > 1
        /\ toBroker[2] = Piece("rest", Head(toBroker).packet)
    BY <1>5 DEF AfterReadable, Readable
  <2>2. /\ Tail(toBroker) \in Seq(Pieces)
        /\ Len(Tail(toBroker)) = n - 1
        /\ \A i \in 1 .. n - 1 : Tail(toBroker)[i] = toBroker[i + 1]
    BY <1>1, SeqFacts
  <2>3. Tail(toBroker) # <<>>
    <3>1. Len(Tail(toBroker)) # 0
      BY <1>1, <2>1, <2>2
    <3> QED
      BY <3>1, EmptySeq
  <2>4. /\ toBroker' \in Seq(Pieces)
        /\ Len(toBroker') = Len(Tail(toBroker)) - 1
        /\ \A i \in 1 .. Len(Tail(toBroker)) - 1 : toBroker'[i] = Tail(toBroker)[i + 1]
    BY <2>1, <2>2, <2>3, SeqFacts
  <2>5. Len(toBroker') = n - 2 /\ Len(Tail(toBroker)) - 1 = n - 2
    BY <1>1, <2>2, <2>4
  <2>6. \A i \in 1 .. n - 2 : toBroker'[i] = toBroker[i + 2]
    <3> SUFFICES ASSUME NEW i \in 1 .. n - 2 PROVE toBroker'[i] = toBroker[i + 2]
      OBVIOUS
    <3>1. i + 1 \in 1 .. n - 1 /\ (i + 1) + 1 = i + 2
      BY <1>1
    <3> QED
      BY <2>2, <2>4, <2>5, <3>1
  <2>7. 2 <= n /\ toBroker[2].part # "front"
    BY <1>1, <2>1 DEF Piece
  <2> QED
    BY <1>1, <1>3, <2>4, <2>5, <2>6, <2>7
<1> QED
  BY <1>4, <1>5

(* A well-formed wire is never malformed. *)
LEMMA WellFormedReadable ==
    ASSUME WireTypes, WellFormed(toBroker)
    PROVE  ~Malformed
<1> SUFFICES ASSUME Malformed PROVE FALSE
  OBVIOUS
<1>1. toBroker \in Seq(Pieces) /\ Len(toBroker) \in Nat /\ DOMAIN toBroker = 1 .. Len(toBroker)
  BY LenProperties DEF WireTypes
<1>2. toBroker # <<>>
  BY EmptySeq DEF Malformed
<1>3. Len(toBroker) > 0 /\ Head(toBroker) = toBroker[1] /\ 1 \in DOMAIN toBroker
  BY <1>1, <1>2, SeqFacts
<1>4. CASE Head(toBroker).part = "rest"
  BY <1>3, <1>4 DEF WellFormed
<1>5. CASE Len(toBroker) > 1 /\ Head(toBroker).part = "front" /\ toBroker[2] # Piece("rest", Head(toBroker).packet)
  BY <1>3, <1>5 DEF WellFormed
<1> QED
  BY <1>4, <1>5 DEF Malformed

LEMMA StreamStep ==
    ASSUME WireTypes, connected \in BOOLEAN, StreamInv, WireStep
    PROVE  WireTypes' /\ StreamInv'
<1> USE DEF WireTypes, StreamInv
<1>0. /\ Len(writes) \in Nat
      /\ <<>> \in Seq(Packets) /\ <<>> \in Seq(Pieces)
      /\ Len(<<>>) = 0
      /\ WellFormed(<<>>)
  BY EmptySeq, LenProperties DEF WellFormed
<1>1. CASE UNCHANGED <<link, write_pending, writes, toBroker, stale>>
  BY <1>1 DEF WellFormed, Pending
<1>2. CASE Socket_new
  <2>1. stale' \in BOOLEAN
    BY <1>2 DEF Socket_new
  <2>2. ~stale' => writes' = <<>> /\ ~write_pending'
    BY <1>2 DEF Socket_new
  <2> QED
    BY <1>0, <1>2, <2>1, <2>2 DEF Socket_new, Pending
<1>3. ASSUME NEW p \in Packets, NEW rc \in Results, Socket_putdatas(p, rc), UNCHANGED <<link, stale>>
      PROVE  WireTypes' /\ StreamInv'
  <2>1. CASE rc = "complete"
    <3>1. CASE link = "open"
      <4>1. ~write_pending /\ toBroker' = Append(toBroker, Piece("whole", p)) /\ UNCHANGED <<write_pending, writes>>
        BY <1>3, <2>1, <3>1 DEF Socket_putdatas
      <4>2. ~stale => writes = <<>> /\ (toBroker # <<>> => toBroker[Len(toBroker)].part # "front")
        BY <3>1, <4>1 DEF Pending
      <4>3. /\ toBroker' \in Seq(Pieces)
            /\ toBroker'[Len(toBroker')] = Piece("whole", p)
            /\ ~stale => WellFormed(toBroker')
        BY <4>1, <4>2, WrittenKeeps
      <4>4. Piece("whole", p).part # "front"
        BY PieceTyped
      <4> QED
        BY <1>3, <3>1, <4>1, <4>2, <4>3, <4>4 DEF Pending
    <3>2. CASE link # "open"
      BY <1>3, <2>1, <3>2 DEF Socket_putdatas
    <3> QED
      BY <3>1, <3>2
  <2>2. CASE rc = "interrupted"
    <3>1. /\ ~write_pending
          /\ link = "open"
          /\ toBroker' = Append(toBroker, Piece("front", p))
          /\ writes' = Append(writes, p)
          /\ write_pending'
      BY <1>3, <2>2 DEF Socket_putdatas, pendingWrite
    <3>2. ~stale => writes = <<>> /\ (toBroker # <<>> => toBroker[Len(toBroker)].part # "front")
      BY <3>1 DEF Pending
    <3>3. /\ toBroker' \in Seq(Pieces)
          /\ toBroker' # <<>>
          /\ toBroker'[Len(toBroker')] = Piece("front", p)
          /\ ~stale => WellFormed(toBroker')
      BY <3>1, <3>2, WrittenKeeps
    <3>4. /\ writes' \in Seq(Packets)
          /\ writes' # <<>>
          /\ Len(writes') = Len(writes) + 1
          /\ writes'[Len(writes) + 1] = p
      BY <3>1, AppendFacts
    <3>5. ~stale => Len(writes') = 1 /\ writes'[1] = p
      BY <1>0, <3>2, <3>4
    <3>6. write_pending' \in BOOLEAN
      BY <1>3, <2>2, Zenon DEF Socket_putdatas, pendingWrite
    <3> QED
      BY <1>3, <3>1, <3>3, <3>4, <3>5, <3>6 DEF Pending
  <2>3. CASE rc = "error"
    BY <1>3, <2>3 DEF Socket_putdatas, Pending
  <2> QED
    BY <2>1, <2>2, <2>3 DEF Results
<1>4. CASE Socket_continueWrites /\ UNCHANGED <<link, stale>>
  <2>1. write_pending /\ writes # <<>> /\ ~write_pending' /\ write_pending' \in BOOLEAN /\ writes' = Tail(writes)
    BY <1>4 DEF Socket_continueWrites
  <2>2. /\ Head(writes) \in Packets
        /\ Head(writes) = writes[1]
        /\ writes' \in Seq(Packets)
        /\ Len(writes') = Len(writes) - 1
    BY <2>1, SeqFacts
  <2>3. CASE link = "open"
    <3>1. toBroker' = Append(toBroker, Piece("rest", Head(writes)))
      BY <1>4, <2>3 DEF Socket_continueWrites
    <3>2. ~stale => Len(writes) = 1 /\ toBroker # <<>> /\ toBroker[Len(toBroker)] = Piece("front", Head(writes))
      BY <2>1, <2>2, <2>3 DEF Pending
    <3>3. /\ toBroker' \in Seq(Pieces)
          /\ toBroker'[Len(toBroker')] = Piece("rest", Head(writes))
          /\ ~stale => WellFormed(toBroker')
      BY <2>2, <3>1, <3>2, WrittenKeeps
    <3>4. ~stale => writes' = <<>>
      BY <1>0, <2>2, <3>2, EmptySeq
    <3>5. Piece("rest", Head(writes)).part # "front"
      BY <2>2, PieceTyped
    <3> QED
      BY <1>4, <2>1, <2>2, <2>3, <3>3, <3>4, <3>5 DEF Pending
  <2>4. CASE link # "open"
    <3>1. toBroker' = toBroker /\ link = "reset"
      BY <1>4, <2>4 DEF Socket_continueWrites
    <3> QED
      BY <1>4, <2>1, <2>2, <3>1
  <2> QED
    BY <2>3, <2>4
<1>5. CASE Socket_close(connected, Packet("DISCONNECT", 0, none))
  <2>1. link' = "closed" /\ ~write_pending' /\ write_pending' \in BOOLEAN /\ UNCHANGED <<writes, stale>>
    BY <1>5 DEF Socket_close
  <2>2. CASE connected /\ link = "open" /\ ~write_pending
    <3>1. toBroker' = Append(toBroker, Piece("whole", Packet("DISCONNECT", 0, none)))
      BY <1>5, <2>2 DEF Socket_close
    <3>2. ~stale => (toBroker # <<>> => toBroker[Len(toBroker)].part # "front")
      BY <2>2 DEF Pending
    <3>3. toBroker' \in Seq(Pieces) /\ (~stale => WellFormed(toBroker'))
      BY <3>1, <3>2, WrittenKeeps, ClientPackets
    <3> QED
      BY <2>1, <3>3
  <2>3. CASE ~(connected /\ link = "open" /\ ~write_pending)
    <3>1. toBroker' = toBroker
      BY <1>5, <2>3 DEF Socket_close
    <3> QED
      BY <2>1, <3>1
  <2> QED
    BY <2>2, <2>3
<1>6. CASE link = "connecting" /\ link' = "open" /\ Written(Packet("CONNECT", 0, none)) /\ UNCHANGED stale
  <2> DEFINE p == Packet("CONNECT", 0, none)
  <2>1. p \in Packets
    BY ClientPackets
  <2>2. ~stale => /\ toBroker = <<>>
                  /\ writes = <<>>
                  /\ ~write_pending
    BY <1>6 DEF Pending
  <2> HIDE DEF p
  <2>3. CASE toBroker' = Append(toBroker, Piece("whole", p)) /\ UNCHANGED <<write_pending, writes>>
    <3>1. /\ toBroker' \in Seq(Pieces)
          /\ toBroker'[Len(toBroker')] = Piece("whole", p)
          /\ ~stale => WellFormed(toBroker')
      BY <2>1, <2>2, <2>3, WrittenKeeps
    <3>2. Piece("whole", p).part # "front"
      BY <2>1, PieceTyped
    <3> QED
      BY <1>6, <2>2, <2>3, <3>1, <3>2 DEF Pending
  <2>4. CASE toBroker' = Append(toBroker, Piece("front", p)) /\ pendingWrite(p)
    <3>1. /\ toBroker' \in Seq(Pieces)
          /\ toBroker' # <<>>
          /\ toBroker'[Len(toBroker')] = Piece("front", p)
          /\ ~stale => WellFormed(toBroker')
      BY <2>1, <2>2, <2>4, WrittenKeeps
    <3>2. writes' = Append(writes, p) /\ write_pending' /\ write_pending' \in BOOLEAN
      BY <2>4 DEF pendingWrite
    <3>3. /\ writes' \in Seq(Packets)
          /\ writes' # <<>>
          /\ Len(writes') = Len(writes) + 1
          /\ writes'[Len(writes) + 1] = p
      BY <2>1, <3>2, AppendFacts
    <3>4. ~stale => Len(writes') = 1 /\ writes'[1] = p
      BY <1>0, <2>2, <3>3
    <3> QED
      BY <1>6, <3>1, <3>2, <3>3, <3>4 DEF Pending
  <2> QED
    BY <1>6, <2>3, <2>4 DEF Written, p
<1>7. CASE Readable /\ toBroker' = AfterReadable /\ UNCHANGED <<link, write_pending, writes, stale>>
  <2>1. toBroker' \in Seq(Pieces)
    <3>1. toBroker # <<>> /\ Tail(toBroker) \in Seq(Pieces)
      BY <1>7, EmptySeq, SeqFacts DEF Readable
    <3>2. Head(toBroker).part # "whole" => Tail(Tail(toBroker)) \in Seq(Pieces)
      <4> SUFFICES ASSUME Head(toBroker).part # "whole" PROVE Tail(Tail(toBroker)) \in Seq(Pieces)
        OBVIOUS
      <4>1. Len(toBroker) > 1 /\ Len(Tail(toBroker)) = Len(toBroker) - 1 /\ Len(toBroker) \in Nat
        BY <1>7, <3>1, SeqFacts DEF Readable
      <4>2. Len(Tail(toBroker)) # 0
        <5>1. \A n \in Nat : n > 1 => n - 1 # 0
          OBVIOUS
        <5> QED
          BY <4>1, <5>1
      <4>3. Tail(toBroker) # <<>>
        BY <4>2, EmptySeq
      <4> QED
        BY <3>1, <4>3, SeqFacts
    <3> QED
      BY <1>7, <3>1, <3>2 DEF AfterReadable
  <2>2. CASE stale
    BY <1>7, <2>1, <2>2
  <2>3. CASE ~stale
    <3>1. /\ WellFormed(toBroker')
          /\ toBroker' # <<>> => toBroker # <<>> /\ toBroker'[Len(toBroker')] = toBroker[Len(toBroker)]
          /\ toBroker' = <<>> => toBroker # <<>> /\ toBroker[Len(toBroker)].part # "front"
      BY <1>7, <2>3, ReadKeeps
    <3>2. link # "connecting"
      BY <2>3, <3>1
    <3>3. Pending => Pending'
      <4>1. ASSUME write_pending, Pending PROVE Pending'
        <5>1. toBroker[Len(toBroker)].part = "front"
          BY <4>1 DEF Pending, Piece
        <5> QED
          BY <1>7, <3>1, <4>1, <5>1 DEF Pending
      <4>2. ASSUME ~write_pending, Pending PROVE Pending'
        BY <1>7, <3>1, <4>2 DEF Pending
      <4> QED
        BY <4>1, <4>2
    <3> QED
      BY <1>7, <2>1, <2>3, <3>1, <3>2, <3>3
  <2> QED
    BY <2>2, <2>3
<1>8. CASE /\ Malformed
           /\ toBroker' = <<>>
           /\ link' = IF link = "open" THEN "reset" ELSE link
           /\ UNCHANGED <<write_pending, writes, stale>>
  <2>1. stale
    BY <1>8, WellFormedReadable
  <2> QED
    BY <1>0, <1>8, <2>1
<1>9. CASE link' = "reset" /\ UNCHANGED <<write_pending, writes, toBroker, stale>>
  BY <1>9 DEF WellFormed
<1>10. CASE link' = "closed" /\ write_pending' = FALSE /\ writes' = <<>> /\ UNCHANGED <<toBroker, stale>>
  BY <1>0, <1>10 DEF WellFormed
<1> QED
  BY <1>1, <1>2, <1>3, <1>4, <1>5, <1>6, <1>7, <1>8, <1>9, <1>10, Zenon DEF WireStep

-----------------------------------------------------------------------------
(* Type correctness.                                                       *)

\* The types of everything but the wire.
OtherTypes == AppTypes /\ QueueTypes /\ ConnTypes /\ BrokerTypes

LEMMA ReadsTyped ==
    ASSUME TypeInv, NEW p, Reads(p)
    PROVE  /\ p \in Packets
           /\ p.type \in PacketTypes /\ p.id \in Nat /\ p.about \in Nat
           /\ toClient' \in Seq(Packets)
           /\ toClient # <<>> /\ p = toClient[1] /\ toClient' = Tail(toClient)
<1>1. toClient \in Seq(Packets) /\ toClient # <<>> /\ p = Head(toClient) /\ toClient' = Tail(toClient)
  BY DEF TypeInv, BrokerTypes, Reads
<1>2. p \in Packets /\ toClient' \in Seq(Packets) /\ p = toClient[1]
  BY <1>1, SeqFacts
<1> QED
  BY <1>1, <1>2 DEF Packets

LEMMA TakesTyped ==
    ASSUME TypeInv, NEW c, Takes(c)
    PROVE  /\ c \in Entries
           /\ c.job \in AllJobs \cup {none} /\ c.version \in Nat
           /\ commands # <<>> /\ c = Head(commands)
           /\ Tail(commands) \in Seq(Entries)
           /\ Kind(c.job) \notin {"con", "dis"} => c.job \in Jobs /\ kind[c.job] = Kind(c.job)
<1>1. commands \in Seq(Entries) /\ commands # <<>> /\ c = Head(commands)
  BY DEF TypeInv, QueueTypes, Takes
<1>2. c \in Entries /\ Tail(commands) \in Seq(Entries)
  BY <1>1, SeqFacts
<1>3. c.job \in AllJobs \cup {none} /\ c.version \in Nat
  BY <1>2 DEF Entries
<1>4. Kind(c.job) \notin {"con", "dis"} => c.job \in Jobs /\ kind[c.job] = Kind(c.job)
  BY <1>3 DEF Kind, Kinds, AllJobs, TypeInv, AppTypes
<1> QED
  BY <1>1, <1>2, <1>3, <1>4

(* A packet about a job or a message. *)
LEMMA SentTyped ==
    ASSUME TypeInv
    PROVE  /\ Jobs \subseteq Nat /\ Inbound \subseteq Nat /\ none \in Nat /\ 0 \in Nat
           /\ \A type \in PacketTypes, id, about \in Nat : Packet(type, id, about) \in Packets
           /\ \A j \in Jobs : token[j] \in Nat
BY JobsAssumption, PacketTyped DEF none, TypeInv, AppTypes, AllJobs

(* The command in the send thread's hands. *)
LEMMA ProcessingTyped ==
    ASSUME TypeInv, stage # "idle"
    PROVE  processing \in Jobs /\ processing \in Nat /\ processing # none
BY JobsAssumption DEF none, TypeInv, ConnTypes

(* What is written when it is sent. *)
LEMMA Publish0Sent ==
    ASSUME TypeInv, ProcessPublish0
    PROVE  /\ processing \in Jobs /\ kind[processing] = "pub0"
           /\ \E p \in Packets, rc \in Results :
                 /\ p.type = "PUBLISH" /\ p.id = 0 /\ p.about = processing
                 /\ Socket_putdatas(p, rc)
<1>1. processing \in Jobs /\ processing \in Nat /\ kind[processing] = "pub0"
  BY ProcessingTyped DEF ProcessPublish0, Processes
<1>2. PICK p : p = Packet("PUBLISH", 0, processing)
  OBVIOUS
<1>3. p \in Packets /\ p.type = "PUBLISH" /\ p.id = 0 /\ p.about = processing
  BY <1>1, <1>2, SentTyped DEF PacketTypes, Packet
<1>4. \E rc \in Results : Socket_putdatas(p, rc)
  BY <1>2 DEF ProcessPublish0
<1> QED
  BY <1>1, <1>3, <1>4

LEMMA RequestSent ==
    ASSUME TypeInv, ProcessRequest
    PROVE  /\ processing \in Jobs /\ kind[processing] \in {"pub1", "pub2", "sub"}
           /\ \E p \in Packets, rc \in Results :
                 /\ p.type = IF kind[processing] \in {"pub1", "pub2"} THEN "PUBLISH" ELSE "SUBSCRIBE"
                 /\ p.id = token[processing] /\ p.about = processing
                 /\ Socket_putdatas(p, rc)
<1>1. processing \in Jobs /\ processing \in Nat /\ kind[processing] \in {"pub1", "pub2", "sub"}
  BY ProcessingTyped DEF ProcessRequest, Processes
<1> DEFINE type == IF kind[processing] \in {"pub1", "pub2"} THEN "PUBLISH" ELSE "SUBSCRIBE"
<1>2. PICK p : p = Packet(type, token[processing], processing)
  OBVIOUS
<1>3. type \in PacketTypes
  BY DEF PacketTypes
<1>4. \E rc \in Results : Socket_putdatas(p, rc)
  BY <1>2 DEF ProcessRequest
<1> HIDE DEF type
<1>5. p \in Packets /\ p.type = type /\ p.id = token[processing] /\ p.about = processing
  BY <1>1, <1>2, <1>3, SentTyped DEF Packet
<1> QED
  BY <1>1, <1>4, <1>5 DEF type

LEMMA ApplicationTyped ==
    ASSUME TypeInv, ApplicationStep
    PROVE  OtherTypes' /\ WireStep
<1> USE DEF TypeInv, OtherTypes
<1>1. ASSUME NEW j \in Calls, Connect(j) PROVE OtherTypes' /\ WireStep
  <2>1. AppTypes'
    BY <1>1 DEF Connect, AppTypes
  <2>2. commands' \in Seq(Entries)
    <3>1. Command(j, 0) \in Entries
      BY EntryTyped DEF AllJobs
    <3> QED
      BY <1>1, <3>1, AddedTyped DEF Connect, QueueTypes
  <2>3. QueueTypes'
    BY <1>1, <2>2 DEF Connect, QueueTypes
  <2>4. ConnTypes'
    <3>1. connect' \in [job : Calls \cup {none}, version : Nat, armed : BOOLEAN]
      BY <1>1 DEF Connect, ConnTypes
    <3> QED
      BY <1>1, <3>1 DEF Connect, ConnTypes, threadVars
  <2>5. BrokerTypes'
    BY <1>1 DEF Connect, BrokerTypes, brokerVars, sockVars
  <2>6. WireStep
    BY <1>1 DEF Connect, sockVars, WireStep
  <2> QED
    BY <2>1, <2>3, <2>4, <2>5, <2>6
<1>2. ASSUME NEW j \in Jobs, NEW k \in Kinds, CheckConnected(j, k) PROVE OtherTypes' /\ WireStep
  <2>1. AppTypes'
    <3>1. k # "con"
      BY DEF Kinds
    <3> QED
      BY <1>2, <3>1, JobsAssumption DEF CheckConnected, AppTypes, AllJobs
  <2>2. QueueTypes'
    BY <1>2 DEF CheckConnected, QueueTypes, queueVars
  <2>3. ConnTypes' /\ BrokerTypes'
    BY <1>2 DEF CheckConnected, ConnTypes, BrokerTypes, connVars, threadVars, brokerVars, sockVars
  <2>4. WireStep
    BY <1>2 DEF CheckConnected, WireStep, sockVars
  <2> QED
    BY <2>1, <2>2, <2>3, <2>4
<1>5. ASSUME NEW j \in Jobs, ReadMsgId(j) PROVE OtherTypes' /\ WireStep
  <2>1. AppTypes' /\ QueueTypes'
    BY <1>5 DEF ReadMsgId, AppTypes, QueueTypes, queueVars
  <2>2. ConnTypes' /\ BrokerTypes'
    BY <1>5 DEF ReadMsgId, ConnTypes, BrokerTypes, connVars, threadVars, brokerVars, sockVars
  <2>3. WireStep
    BY <1>5 DEF ReadMsgId, WireStep, sockVars
  <2> QED
    BY <2>1, <2>2, <2>3
<1>3. ASSUME NEW j \in Jobs, AssignMsgId(j) PROVE OtherTypes' /\ WireStep
  <2>0. token[j] \in Nat /\ \A i \in 1 .. MaxMsgId : Tried(token[j], i) \in Nat
    BY MsgIdAssumption DEF Tried, AppTypes, AllJobs
  <2>1. /\ token' \in [AllJobs -> Nat]
        /\ msgID' \in Nat
        /\ crossed' \subseteq Jobs
        /\ caller' \in [AllJobs -> {"idle", "refused", "checked", "numbering", "assigned", "queued", "gone"}]
    <3>1. ASSUME NEW i \in 1 .. MaxMsgId,
                 token' = [token EXCEPT ![j] = Tried(token[j], i)],
                 msgID' = Tried(token[j], i),
                 crossed' = crossed \cup Unseen(Tried(token[j], i)),
                 caller' = [caller EXCEPT ![j] = "assigned"]
          PROVE  token' \in [AllJobs -> Nat] /\ msgID' \in Nat /\ crossed' \subseteq Jobs
      <4>1. Unseen(Tried(token[j], i)) \subseteq Jobs
        BY DEF Unseen
      <4>2. Tried(token[j], i) \in Nat
        BY <2>0
      <4> HIDE DEF Tried
      <4> QED
        BY <3>1, <4>1, <4>2 DEF AppTypes
    <3>2. ASSUME UNCHANGED <<crossed, msgID>>, token' = [token EXCEPT ![j] = 0]
          PROVE  token' \in [AllJobs -> Nat] /\ msgID' \in Nat /\ crossed' \subseteq Jobs
      BY <3>2 DEF AppTypes, QueueTypes
    <3>3. token' \in [AllJobs -> Nat] /\ msgID' \in Nat /\ crossed' \subseteq Jobs
      BY <1>3, <3>1, <3>2 DEF AssignMsgId
    <3>4. caller' \in [AllJobs -> {"idle", "refused", "checked", "numbering", "assigned", "queued", "gone"}]
      BY <1>3 DEF AssignMsgId, AppTypes
    <3> QED
      BY <3>3, <3>4
  <2>2. AppTypes'
    BY <1>3, <2>1 DEF AssignMsgId, AppTypes
  <2>3. QueueTypes'
    BY <1>3, <2>1 DEF AssignMsgId, QueueTypes
  <2>4. ConnTypes' /\ BrokerTypes'
    BY <1>3 DEF AssignMsgId, ConnTypes, BrokerTypes, connVars, threadVars, brokerVars, sockVars
  <2>5. WireStep
    BY <1>3 DEF AssignMsgId, WireStep, sockVars
  <2> QED
    BY <2>2, <2>3, <2>4, <2>5
<1>4. ASSUME NEW j \in Jobs, AddCommand(j) PROVE OtherTypes' /\ WireStep
  <2>1. AppTypes'
    BY <1>4 DEF AddCommand, AppTypes
  <2>2. commands' \in Seq(Entries)
    <3>1. Command(j, 0) \in Entries
      BY EntryTyped DEF AllJobs
    <3> QED
      BY <1>4, <3>1, AddedTyped DEF AddCommand, QueueTypes
  <2>3. /\ store' \subseteq Files /\ IsFiniteSet(store')
        /\ \A f \in store' : f.key \in {"c", "s"} => f.about \in Jobs
    <3>1. token[j] \in Nat /\ j \in Nat
      BY SentTyped
    <3>2. Persisted(j) \subseteq Files /\ \A f \in Persisted(j) : f.about = j
      BY <3>1 DEF Persisted, File, Files
    <3>3. store' \subseteq store \cup {File("c", token[j], j)}
      BY <1>4 DEF AddCommand, Persisted
    <3>4. IsFiniteSet(store')
      BY <3>3, StoreFinite DEF QueueTypes
    <3> QED
      BY <1>4, <3>2, <3>4 DEF AddCommand, QueueTypes
  <2>4. QueueTypes'
    BY <1>4, <2>2, <2>3 DEF AddCommand, QueueTypes
  <2>5. ConnTypes' /\ BrokerTypes'
    BY <1>4 DEF AddCommand, ConnTypes, BrokerTypes, connVars, threadVars, brokerVars, sockVars
  <2>6. WireStep
    BY <1>4 DEF AddCommand, WireStep, sockVars
  <2> QED
    BY <2>1, <2>4, <2>5, <2>6
<1> QED
  BY <1>1, <1>2, <1>3, <1>4, <1>5 DEF ApplicationStep

(* A failed connection attempt, whichever thread finds it. *)
LEMMA ConnectFailsStep ==
    ASSUME TypeInv, ConnectFails,
           UNCHANGED <<kind, caller, token, crossed, pending_write, processing, stage, misplaced, brokerVars, up,
                       delivered>>,
           held' \in Packets
    PROVE  OtherTypes' /\ WireStep
<1> USE DEF TypeInv, OtherTypes
<1>1. outcome' \in [AllJobs -> Outcomes] /\ QueueTypes' /\ connect' = connect
  BY ConnectFailsTyped
<1>2. closeOnly
  BY DEF ConnectFails, closeSession
<1>3. AppTypes'
  BY <1>1 DEF AppTypes, Outcomes
<1>4. ConnTypes'
  <2>1. connected' \in BOOLEAN /\ connect_state' \in {0, 1, 3}
    BY <1>2 DEF closeOnly
  <2> QED
    BY <1>1, <2>1 DEF ConnTypes
<1>5. BrokerTypes'
  <2>1. toClient' \in Seq(Packets)
    BY <1>2 DEF closeOnly, Socket_close
  <2> QED
    BY <2>1 DEF BrokerTypes, brokerVars
<1>6. WireStep
  BY <1>2 DEF closeOnly, WireStep
<1> QED
  BY <1>1, <1>3, <1>4, <1>5, <1>6

LEMMA SendTyped ==
    ASSUME TypeInv, SendThread \/ ConnectTimesOut
    PROVE  OtherTypes' /\ WireStep
<1> USE DEF TypeInv, OtherTypes
<1>1. CASE ProcessConnect
  <2>1. PICK c \in ToSet(commands) :
            /\ Takes(c)
            /\ Kind(c.job) = "con"
            /\ LET version == IF c.version = 0 THEN 4 ELSE 3
               IN  \/ /\ connect' = [job |-> c.job, version |-> c.version, armed |-> TRUE]
                      /\ commands' = Tail(commands)
                      /\ UNCHANGED <<outcome, connect_state, sockVars, events>>
                   \/ /\ Socket_new
                      /\ connect_state' = 1
                      /\ connect' = [job |-> c.job, version |-> version, armed |-> TRUE]
                      /\ commands' = Tail(commands)
                      /\ UNCHANGED <<outcome, events>>
                   \/ /\ IF checkConn(version)
                            THEN commands' = Added(Command(c.job, 4), Tail(commands)) /\ UNCHANGED outcome
                            ELSE commands' = Tail(commands) /\ outcome' = Tell(outcome, {c.job}, "failure")
                      /\ UNCHANGED <<connect, connect_state, sockVars>>
    BY <1>1 DEF ProcessConnect
  <2>2. /\ c.job \in AllJobs \cup {none} /\ c.version \in Nat
        /\ Tail(commands) \in Seq(Entries)
    BY <2>1, TakesTyped
  <2>3. c.job \in Calls
    BY <2>1, <2>2 DEF Kind, AllJobs, AppTypes
  <2>4. outcome \in [AllJobs -> Outcomes]
    BY DEF AppTypes, Outcomes
  <2>5. commands' \in Seq(Entries)
    <3>1. Command(c.job, 4) \in Entries
      BY <2>2, EntryTyped
    <3>2. Added(Command(c.job, 4), Tail(commands)) \in Seq(Entries)
      BY <2>2, <3>1, AddedTyped
    <3> QED
      BY <2>1, <2>2, <3>2, Zenon
  <2>6. outcome' \in [AllJobs -> Outcomes]
    <3>1. Tell(outcome, {c.job}, "failure") \in [AllJobs -> Outcomes]
      BY <2>4, TellTyped
    <3> QED
      BY <2>1, <2>4, <3>1, Zenon
  <2>7. connect' \in [job : Calls \cup {none}, version : Nat, armed : BOOLEAN] /\ connect_state' \in {0, 1, 3}
    <3> DEFINE Connection(v) == [job |-> c.job, version |-> v, armed |-> TRUE]
    <3>1. \A v \in Nat : Connection(v) \in [job : Calls \cup {none}, version : Nat, armed : BOOLEAN]
      BY <2>3
    <3>2. c.version \in Nat /\ (IF c.version = 0 THEN 4 ELSE 3) \in Nat
      BY <2>2
    <3>3. /\ \/ connect' = connect
             \/ connect' = Connection(c.version)
             \/ connect' = Connection(IF c.version = 0 THEN 4 ELSE 3)
          /\ connect_state' = connect_state \/ connect_state' = 1
      BY <2>1, Zenon
    <3> HIDE DEF Connection
    <3> QED
      BY <3>1, <3>2, <3>3 DEF ConnTypes
  <2>8. AppTypes'
    BY <1>1, <2>6 DEF ProcessConnect, AppTypes, Outcomes
  <2>9. QueueTypes'
    BY <1>1, <2>5 DEF ProcessConnect, QueueTypes
  <2>10. ConnTypes'
    BY <1>1, <2>7 DEF ProcessConnect, ConnTypes, threadVars
  <2>11. BrokerTypes'
    <3>1. toClient' \in Seq(Packets)
      <4>1. toClient' = toClient \/ toClient' = <<>>
        BY <2>1, Zenon DEF Socket_new, sockVars
      <4> QED
        BY <4>1, EmptySeq DEF BrokerTypes
    <3> QED
      BY <1>1, <3>1 DEF ProcessConnect, BrokerTypes, brokerVars
  <2>12. WireStep
    BY <2>1 DEF WireStep, sockVars
  <2> QED
    BY <2>8, <2>9, <2>10, <2>11, <2>12
<1>2. CASE ProcessDisconnect
  <2>1. PICK c \in ToSet(commands) :
            /\ Takes(c)
            /\ Kind(c.job) = "dis"
            /\ \/ checkDisconnect(c)
               \/ /\ commands' = Tail(commands)
                  /\ UNCHANGED <<outcome, responses, outbound, inbound, store, msgID, connected, connect_state,
                                 ping_outstanding, sockVars>>
    BY <1>2 DEF ProcessDisconnect
  <2>2. Tail(commands) \in Seq(Entries)
    BY <2>1, TakesTyped
  <2>3. outcome \in [AllJobs -> Outcomes]
    BY DEF AppTypes, Outcomes
  <2>4. outcome' \in [AllJobs -> Outcomes] /\ QueueTypes'
    <3>1. CASE checkDisconnect(c)
      BY <3>1, cleanSessionTyped DEF checkDisconnect, closeSession
    <3>2. CASE ~checkDisconnect(c)
      BY <2>1, <2>2, <2>3, <3>2 DEF QueueTypes, AppTypes
    <3> QED
      BY <3>1, <3>2
  <2>5. AppTypes'
    BY <1>2, <2>4 DEF ProcessDisconnect, AppTypes, Outcomes
  <2>6. connected' \in BOOLEAN /\ connect_state' \in {0, 1, 3}
    BY <2>1 DEF checkDisconnect, closeSession, closeOnly, ConnTypes
  <2>7. ConnTypes'
    BY <1>2, <2>6 DEF ProcessDisconnect, ConnTypes, threadVars
  <2>8. toClient' \in Seq(Packets)
    <3>1. toClient' = toClient \/ toClient' = <<>>
      BY <2>1, Zenon DEF checkDisconnect, closeSession, closeOnly, Socket_close, sockVars
    <3> QED
      BY <3>1, EmptySeq DEF BrokerTypes
  <2>9. BrokerTypes'
    BY <1>2, <2>8 DEF ProcessDisconnect, BrokerTypes, brokerVars
  <2>10. WireStep
    BY <2>1 DEF checkDisconnect, closeSession, closeOnly, WireStep, sockVars
  <2> QED
    BY <2>4, <2>5, <2>7, <2>9, <2>10
<1>3. CASE ProcessPublish0
  <2>1. PICK rc \in Results :
            /\ Processes({"pub0"})
            /\ Socket_putdatas(Packet("PUBLISH", 0, processing), rc)
            /\ outcome' = IF rc = "complete" THEN Tell(outcome, {processing}, "success") ELSE outcome
            /\ processing' = IF rc = "interrupted" THEN processing ELSE none
            /\ stage' = IF rc = "interrupted" THEN "cut" ELSE "idle"
            /\ pending_write' = IF rc = "error" THEN processing ELSE pending_write
            /\ UNCHANGED <<kind, caller, token, crossed, queueVars, connVars, rcv, held, misplaced, brokerVars,
                           link, stale, toClient, up, delivered>>
    BY <1>3 DEF ProcessPublish0
  <2>2. processing \in Jobs
    BY <2>1 DEF Processes, ConnTypes
  <2>3. outcome' \in [AllJobs -> Outcomes]
    <3>1. outcome \in [AllJobs -> Outcomes]
      BY DEF AppTypes, Outcomes
    <3>2. Tell(outcome, {processing}, "success") \in [AllJobs -> Outcomes]
      BY <3>1, TellTyped
    <3> QED
      BY <2>1, <3>1, <3>2
  <2>4. AppTypes'
    BY <2>1, <2>3 DEF AppTypes, Outcomes
  <2>5. QueueTypes'
    BY <2>1 DEF QueueTypes, queueVars
  <2>6. ConnTypes'
    BY <2>1, <2>2, JobsAssumption DEF ConnTypes, connVars, none
  <2>7. BrokerTypes'
    BY <2>1 DEF BrokerTypes, brokerVars
  <2>8. WireStep
    <3>1. "PUBLISH" \in PacketTypes
      BY DEF PacketTypes
    <3>2. Packet("PUBLISH", 0, processing) \in Packets
      BY <2>2, <3>1, SentTyped
    <3> QED
      BY <2>1, <3>2 DEF WireStep
  <2> QED
    BY <2>4, <2>5, <2>6, <2>7, <2>8
<1>7. CASE TakeCommand
  <2>1. PICK c \in ToSet(commands) :
            /\ Takes(c)
            /\ Kind(c.job) \notin {"con", "dis"}
            /\ processing' = c.job
            /\ stage' = "taken"
            /\ commands' = Tail(commands)
            /\ store' = Unpersisted(c.job)
    BY <1>7 DEF TakeCommand
  <2>2. Tail(commands) \in Seq(Entries) /\ c.job \in Jobs
    BY <2>1, TakesTyped, JobsAssumption DEF Kind, AppTypes, AllJobs
  <2>3. QueueTypes'
    <3>1. store' \subseteq store
      BY <2>1 DEF Unpersisted
    <3>2. IsFiniteSet(store')
      BY <3>1, FS_Subset DEF QueueTypes
    <3> QED
      BY <1>7, <2>1, <2>2, <3>1, <3>2 DEF TakeCommand, QueueTypes
  <2>4. AppTypes' /\ BrokerTypes'
    BY <1>7 DEF TakeCommand, AppTypes, BrokerTypes, appVars, brokerVars, sockVars
  <2>5. ConnTypes'
    <3>1. c.job # none
      BY <2>2, JobsAssumption DEF none
    <3> QED
      BY <1>7, <2>1, <2>2, <3>1 DEF TakeCommand, ConnTypes, connVars
  <2>6. WireStep
    BY <1>7 DEF TakeCommand, sockVars, WireStep
  <2> QED
    BY <2>3, <2>4, <2>5, <2>6
<1>8. CASE NotePendingWrite
  <2>1. AppTypes' /\ BrokerTypes' /\ QueueTypes'
    BY <1>8 DEF NotePendingWrite, AppTypes, BrokerTypes, QueueTypes, appVars, queueVars, brokerVars, sockVars
  <2>2. ConnTypes'
    BY <1>8 DEF NotePendingWrite, ConnTypes, connVars
  <2>3. WireStep
    BY <1>8 DEF NotePendingWrite, sockVars, WireStep
  <2> QED
    BY <2>1, <2>2, <2>3
<1>4. CASE Register
  <2>1. processing \in Jobs
    BY <1>4 DEF Register, ConnTypes
  <2>2. QueueTypes'
    BY <1>4, <2>1 DEF Register, QueueTypes
  <2>3. AppTypes' /\ BrokerTypes'
    BY <1>4 DEF Register, AppTypes, BrokerTypes, appVars, brokerVars, sockVars
  <2>4. ConnTypes'
    BY <1>4, <2>1 DEF Register, ConnTypes, connVars
  <2>5. WireStep
    BY <1>4 DEF Register, sockVars, WireStep
  <2> QED
    BY <2>2, <2>3, <2>4, <2>5
<1>5. CASE ProcessRequest
  <2> DEFINE j == processing
  <2>1. PICK rc \in Results :
            LET isPublish == kind[j] \in {"pub1", "pub2"}
            IN  /\ Processes({"pub1", "pub2", "sub"})
                /\ Socket_putdatas(Packet(IF isPublish THEN "PUBLISH" ELSE "SUBSCRIBE", token[j], j), rc)
                /\ outbound' = IF isPublish THEN Append(outbound, createMessage(j)) ELSE outbound
                /\ store' = IF isPublish THEN Put(store, File("s", token[j], j)) ELSE store
                /\ \/ /\ responses' = Append(responses, j)
                      /\ UNCHANGED <<commands, outcome>>
                   \/ /\ commands' = disconnect_internal
                      /\ outcome' = Tell(outcome, {j}, "failure")
                      /\ UNCHANGED responses
    BY <1>5 DEF ProcessRequest
  <2>2. j \in Jobs /\ token[j] \in Nat /\ j \in Nat
    BY <2>1, SentTyped DEF Processes, ConnTypes
  <2> HIDE DEF j
  <2>3. outcome' \in [AllJobs -> Outcomes]
    <3>1. outcome \in [AllJobs -> Outcomes]
      BY DEF AppTypes, Outcomes
    <3>2. Tell(outcome, {j}, "failure") \in [AllJobs -> Outcomes]
      BY <3>1, TellTyped
    <3> QED
      BY <2>1, <3>1, <3>2, Zenon
  <2>4. commands' \in Seq(Entries)
    <3>1. disconnect_internal \in Seq(Entries)
      BY disconnect_internalTyped DEF QueueTypes
    <3> QED
      BY <2>1, <3>1, Zenon DEF QueueTypes
  <2>5. responses' \in Seq(Jobs)
    <3>1. responses' = responses \/ responses' = Append(responses, j)
      BY <2>1, Zenon
    <3>2. Append(responses, j) \in Seq(Jobs)
      BY <2>2 DEF QueueTypes
    <3> QED
      BY <3>1, <3>2 DEF QueueTypes
  <2>6. outbound' \in Seq(Messages)
    <3>1. createMessage(j) \in Messages
      BY <2>2 DEF createMessage, Messages
    <3> QED
      BY <2>1, <3>1 DEF QueueTypes
  <2>7. /\ store' \subseteq Files /\ IsFiniteSet(store')
        /\ \A f \in store' : f.key \in {"c", "s"} => f.about \in Jobs
    <3>1. File("s", token[j], j) \in Files /\ File("s", token[j], j).about \in Jobs
      BY <2>2 DEF File, Files
    <3>2. Put(store, File("s", token[j], j)) \subseteq store \cup {File("s", token[j], j)}
      BY DEF Put
    <3>3. store' \subseteq store \cup {File("s", token[j], j)}
      BY <2>1, <3>2
    <3>4. IsFiniteSet(store')
      BY <3>3, StoreFinite DEF QueueTypes
    <3> QED
      BY <3>1, <3>3, <3>4 DEF QueueTypes
  <2>8. AppTypes'
    BY <1>5, <2>3 DEF ProcessRequest, AppTypes, Outcomes
  <2>9. QueueTypes'
    BY <1>5, <2>4, <2>5, <2>6, <2>7 DEF ProcessRequest, QueueTypes
  <2>10. ConnTypes' /\ BrokerTypes'
    BY <1>5 DEF ProcessRequest, ConnTypes, BrokerTypes, connVars, brokerVars
  <2>11. WireStep
    <3> DEFINE type == IF kind[j] \in {"pub1", "pub2"} THEN "PUBLISH" ELSE "SUBSCRIBE"
    <3>1. type \in PacketTypes
      BY DEF PacketTypes
    <3>2. Packet(type, token[j], j) \in Packets
      BY <2>2, <3>1, SentTyped
    <3>3. Socket_putdatas(Packet(type, token[j], j), rc) /\ UNCHANGED <<link, stale>>
      BY <1>5, <2>1 DEF ProcessRequest
    <3> HIDE DEF type
    <3> QED
      BY <3>2, <3>3 DEF WireStep
  <2> QED
    BY <2>8, <2>9, <2>10, <2>11
<1>6. CASE ConnectTimesOut
  <2>1. ConnectFails /\ UNCHANGED <<kind, caller, token, crossed, threadVars, brokerVars, up, delivered>>
    BY <1>6 DEF ConnectTimesOut
  <2>2. /\ UNCHANGED <<kind, caller, token, crossed, pending_write, processing, stage, misplaced, brokerVars, up,
                       delivered>>
        /\ held' \in Packets
    BY <2>1 DEF threadVars, ConnTypes
  <2> QED
    BY <2>1, <2>2, ConnectFailsStep
<1> QED
  BY <1>1, <1>2, <1>3, <1>4, <1>5, <1>6, <1>7, <1>8 DEF SendThread

LEMMA processPublicationTyped ==
    ASSUME delivered \in [Inbound -> Nat], NEW m, processPublication(m)
    PROVE  delivered' \in [Inbound -> Nat]
<1>1. CASE m \in Inbound
  <2>1. delivered[m] + 1 \in Nat
    BY <1>1
  <2> QED
    BY <1>1, <2>1 DEF processPublication
<1>2. CASE m \notin Inbound
  <2>1. delivered' = delivered
    BY <1>2 DEF processPublication
  <2> QED
    BY <2>1
<1> QED
  BY <1>1, <1>2

(* The packets of a handshake are answered under way. *)
LEMMA AcknowledgeTyped ==
    ASSUME TypeInv, HandlePubrec \/ HandlePublish1 \/ HandlePublish2 \/ HandlePubrel
    PROVE  OtherTypes' /\ WireStep
<1> USE DEF TypeInv, OtherTypes
<1>0. {"PUBACK", "PUBREC", "PUBREL", "PUBCOMP"} \subseteq PacketTypes
  BY DEF PacketTypes
<1>1. CASE HandlePubrec
  <2>1. PICK p : /\ Reads(p)
                 /\ \/ UNCHANGED <<outbound, store, write_pending, writes, toBroker, events>>
                    \/ \E i \in Waiting(p.id, "PUBREC"), rc \in Results :
                          /\ Socket_putdatas(Packet("PUBREL", p.id, outbound[i].job), rc)
                          /\ outbound' = [outbound EXCEPT ![i].next = "PUBCOMP"]
                          /\ store' = store \cup {File("sc", p.id, none)}
                 /\ UNCHANGED <<appVars, commands, responses, inbound, msgID, connVars, pending_write, processing,
                                stage, held, misplaced, brokerVars, link, stale, up, delivered>>
    BY <1>1 DEF HandlePubrec
  <2>2. p.id \in Nat /\ toClient' \in Seq(Packets)
    BY <2>1, ReadsTyped
  <2>3. /\ outbound' \in Seq(Messages)
        /\ store' \subseteq Files /\ IsFiniteSet(store')
        /\ \A f \in store' : f.key \in {"c", "s"} => f.about \in Jobs
        /\ WireStep
    <3>1. CASE UNCHANGED <<outbound, store, write_pending, writes, toBroker, events>>
      BY <2>1, <3>1 DEF QueueTypes, WireStep
    <3>2. ASSUME NEW i \in Waiting(p.id, "PUBREC"), NEW rc \in Results,
                 Socket_putdatas(Packet("PUBREL", p.id, outbound[i].job), rc),
                 outbound' = [outbound EXCEPT ![i].next = "PUBCOMP"],
                 store' = store \cup {File("sc", p.id, none)}
          PROVE  /\ outbound' \in Seq(Messages)
                 /\ store' \subseteq Files /\ IsFiniteSet(store')
                 /\ \A f \in store' : f.key \in {"c", "s"} => f.about \in Jobs
                 /\ WireStep
      <4>1. i \in 1 .. Len(outbound) /\ outbound[i] \in Messages /\ outbound \in Seq(Messages)
        BY LenProperties DEF Waiting, QueueTypes
      <4>2. [outbound[i] EXCEPT !.next = "PUBCOMP"] \in Messages /\ outbound[i].job \in Jobs
        BY <4>1 DEF Messages
      <4>3. outbound' = [outbound EXCEPT ![i] = [outbound[i] EXCEPT !.next = "PUBCOMP"]]
        BY <3>2
      <4>4. outbound' \in Seq(Messages)
        BY <4>1, <4>2, <4>3, ExceptSeq
      <4>5. File("sc", p.id, none) \in Files /\ File("sc", p.id, none).key = "sc"
        BY <2>2 DEF File, Files, none
      <4>6. Packet("PUBREL", p.id, outbound[i].job) \in Packets
        BY <1>0, <2>2, <4>2, SentTyped
      <4>9. IsFiniteSet(store')
        BY <3>2, StoreFinite DEF QueueTypes
      <4>7. store' \subseteq Files /\ \A f \in store' : f.key \in {"c", "s"} => f.about \in Jobs
        BY <3>2, <4>5 DEF QueueTypes
      <4>8. WireStep
        BY <2>1, <3>2, <4>6 DEF WireStep
      <4> QED
        BY <4>4, <4>7, <4>8, <4>9
    <3> QED
      BY <2>1, <3>1, <3>2
  <2>4. AppTypes' /\ QueueTypes'
    BY <2>1, <2>3 DEF AppTypes, QueueTypes, appVars
  <2>5. ConnTypes' /\ BrokerTypes'
    BY <2>1, <2>2 DEF ConnTypes, BrokerTypes, connVars, brokerVars
  <2> QED
    BY <2>3, <2>4, <2>5
<1>2. CASE HandlePublish1
  <2>1. PICK p \in ToSet(toClient), rc \in Results :
                 /\ Reads(p)
                 /\ Socket_putdatas(Packet("PUBACK", p.id, p.about), rc)
                 /\ processPublication(p.about)
                 /\ UNCHANGED <<appVars, queueVars, connVars, pending_write, processing, stage, held, misplaced,
                                brokerVars, link, stale, up>>
    BY <1>2 DEF HandlePublish1
  <2>2. p.id \in Nat /\ p.about \in Nat /\ toClient' \in Seq(Packets)
    BY <2>1, ReadsTyped
  <2>3. AppTypes' /\ QueueTypes'
    BY <2>1 DEF AppTypes, QueueTypes, appVars, queueVars
  <2>4. ConnTypes' /\ BrokerTypes'
    BY <2>1, <2>2, processPublicationTyped DEF ConnTypes, BrokerTypes, connVars, brokerVars
  <2>5. Packet("PUBACK", p.id, p.about) \in Packets
    BY <1>0, <2>2, SentTyped
  <2>6. WireStep
    BY <2>1, <2>5 DEF WireStep
  <2> QED
    BY <2>3, <2>4, <2>6
<1>3. CASE HandlePublish2
  <2>1. PICK p \in ToSet(toClient), rc \in Results :
                 /\ Reads(p)
                 /\ Socket_putdatas(Packet("PUBREC", p.id, p.about), rc)
                 /\ inbound' = (inbound \ {m \in inbound : m.id = p.id}) \cup {[id |-> p.id, about |-> p.about]}
                 /\ store' = Put(store, File("r", p.id, p.about))
                 /\ UNCHANGED <<appVars, commands, responses, outbound, msgID, connVars, pending_write,
                                processing, stage, held, misplaced, brokerVars, link, stale, up, delivered>>
    BY <1>3 DEF HandlePublish2
  <2>2. p.id \in Nat /\ p.about \in Nat /\ toClient' \in Seq(Packets)
    BY <2>1, ReadsTyped
  <2>3. inbound' \subseteq [id : Nat, about : Nat]
    BY <2>1, <2>2 DEF QueueTypes
  <2>4. /\ store' \subseteq Files /\ IsFiniteSet(store')
        /\ \A f \in store' : f.key \in {"c", "s"} => f.about \in Jobs
    <3>1. File("r", p.id, p.about) \in Files /\ File("r", p.id, p.about).key = "r"
      BY <2>2 DEF File, Files
    <3>2. store' \subseteq store \cup {File("r", p.id, p.about)}
      BY <2>1 DEF Put
    <3>3. IsFiniteSet(store')
      BY <3>2, StoreFinite DEF QueueTypes
    <3> QED
      BY <3>1, <3>2, <3>3 DEF QueueTypes
  <2>5. AppTypes' /\ QueueTypes'
    BY <2>1, <2>3, <2>4 DEF AppTypes, QueueTypes, appVars
  <2>6. ConnTypes' /\ BrokerTypes'
    BY <2>1, <2>2 DEF ConnTypes, BrokerTypes, connVars, brokerVars
  <2>7. Packet("PUBREC", p.id, p.about) \in Packets
    BY <1>0, <2>2, SentTyped
  <2>8. WireStep
    BY <2>1, <2>7 DEF WireStep
  <2> QED
    BY <2>5, <2>6, <2>8
<1>4. CASE HandlePubrel
  <2>1. PICK p \in ToSet(toClient), rc \in Results :
                 /\ Reads(p)
                 /\ \/ \E m \in inbound :
                          /\ Socket_putdatas(Packet("PUBCOMP", p.id, m.about), rc)
                          /\ processPublication(m.about)
                          /\ inbound' = inbound \ {m}
                          /\ store' = Removed({"r"}, p.id)
                    \/ /\ Socket_putdatas(Packet("PUBCOMP", p.id, p.about), rc)
                       /\ UNCHANGED <<delivered, inbound, store>>
                    \/ UNCHANGED <<delivered, inbound, store, write_pending, writes, toBroker>>
                 /\ UNCHANGED <<appVars, commands, responses, outbound, msgID, connVars, pending_write,
                                processing, stage, held, misplaced, brokerVars, link, stale, up>>
    BY <1>4 DEF HandlePubrel
  <2>2. p.id \in Nat /\ p.about \in Nat /\ toClient' \in Seq(Packets)
    BY <2>1, ReadsTyped
  <2>3. /\ inbound' \subseteq inbound
        /\ store' \subseteq store
        /\ delivered' \in [Inbound -> Nat]
        /\ WireStep
    <3>1. ASSUME NEW m \in inbound,
                 Socket_putdatas(Packet("PUBCOMP", p.id, m.about), rc),
                 processPublication(m.about),
                 inbound' = inbound \ {m},
                 store' = Removed({"r"}, p.id)
          PROVE  inbound' \subseteq inbound /\ store' \subseteq store /\ delivered' \in [Inbound -> Nat] /\ WireStep
      <4>1. m.about \in Nat
        BY DEF QueueTypes
      <4>2. Packet("PUBCOMP", p.id, m.about) \in Packets
        BY <1>0, <2>2, <4>1, SentTyped
      <4>3. WireStep
        BY <2>1, <3>1, <4>2 DEF WireStep
      <4>4. delivered' \in [Inbound -> Nat]
        BY <3>1, processPublicationTyped DEF BrokerTypes
      <4> QED
        BY <3>1, <4>3, <4>4 DEF Removed
    <3>2. CASE Socket_putdatas(Packet("PUBCOMP", p.id, p.about), rc) /\ UNCHANGED <<delivered, inbound, store>>
      <4>1. Packet("PUBCOMP", p.id, p.about) \in Packets
        BY <1>0, <2>2, SentTyped
      <4> QED
        BY <2>1, <3>2, <4>1 DEF WireStep, BrokerTypes
    <3>3. CASE UNCHANGED <<delivered, inbound, store, write_pending, writes, toBroker>>
      BY <2>1, <3>3 DEF WireStep, BrokerTypes
    <3> QED
      BY <2>1, <3>1, <3>2, <3>3
  <2>4. AppTypes' /\ QueueTypes'
    <3>1. IsFiniteSet(store')
      BY <2>3, FS_Subset DEF QueueTypes
    <3> QED
      BY <2>1, <2>3, <3>1 DEF AppTypes, QueueTypes, appVars
  <2>5. ConnTypes' /\ BrokerTypes'
    BY <2>1, <2>2, <2>3 DEF ConnTypes, BrokerTypes, connVars, brokerVars
  <2> QED
    BY <2>3, <2>4, <2>5
<1> QED
  BY <1>1, <1>2, <1>3, <1>4

LEMMA ReceiveTyped ==
    ASSUME TypeInv, ReceiveThread
    PROVE  OtherTypes' /\ WireStep
<1> USE DEF TypeInv, OtherTypes
<1>0. outcome \in [AllJobs -> Outcomes]
  BY DEF AppTypes, Outcomes
<1>1. CASE Select \/ NothingToRead \/ ReadFails
  <2>1. /\ UNCHANGED <<appVars, queueVars, connVars, pending_write, processing, stage, held, misplaced,
                       brokerVars, sockVars, up, delivered>>
    BY <1>1 DEF Select, NothingToRead, ReadFails
  <2>2. AppTypes' /\ QueueTypes'
    BY <2>1 DEF AppTypes, QueueTypes, appVars, queueVars
  <2>3. ConnTypes' /\ BrokerTypes' /\ WireStep
    BY <2>1 DEF ConnTypes, BrokerTypes, connVars, brokerVars, sockVars, WireStep
  <2> QED
    BY <2>2, <2>3
<1>2. CASE ContinueWrite
  <2>1. responses' \in Seq(Jobs) /\ misplaced' \in BOOLEAN /\ outcome' \in [AllJobs -> Outcomes]
    <3>1. CASE pending_write = none /\ UNCHANGED <<outcome, responses, misplaced>>
      BY <1>0, <3>1 DEF QueueTypes, ConnTypes
    <3>2. CASE /\ pending_write # none /\ responses # <<>>
               /\ outcome' = IF pending_write \in ToSet(responses) \cup {processing}
                                THEN Tell(outcome, {pending_write}, "success") ELSE outcome
               /\ responses' = Tail(responses)
               /\ misplaced' = (misplaced \/ Head(responses) # pending_write)
      <4>1. Tell(outcome, {pending_write}, "success") \in [AllJobs -> Outcomes]
        BY <1>0, TellTyped
      <4>2. responses' \in Seq(Jobs)
        BY <3>2, SeqFacts DEF QueueTypes
      <4>3. misplaced' \in BOOLEAN
        BY <3>2, Zenon
      <4> QED
        BY <1>0, <3>2, <4>1, <4>2, <4>3
    <3> QED
      BY <1>2, <3>1, <3>2 DEF ContinueWrite
  <2>2. AppTypes'
    BY <1>2, <2>1 DEF ContinueWrite, AppTypes, Outcomes
  <2>3. QueueTypes'
    BY <1>2, <2>1 DEF ContinueWrite, QueueTypes
  <2>4. ConnTypes' /\ BrokerTypes'
    BY <1>2, <2>1 DEF ContinueWrite, ConnTypes, BrokerTypes, connVars, brokerVars
  <2>5. WireStep
    BY <1>2 DEF ContinueWrite, WireStep
  <2> QED
    BY <2>2, <2>3, <2>4, <2>5
<1>3. CASE Connecting
  <2>1. AppTypes' /\ QueueTypes'
    BY <1>3 DEF Connecting, AppTypes, QueueTypes, appVars, queueVars
  <2>2. ConnTypes' /\ BrokerTypes'
    BY <1>3 DEF Connecting, ConnTypes, BrokerTypes, brokerVars
  <2>3. WireStep
    BY <1>3 DEF Connecting, WireStep, Written
  <2> QED
    BY <2>1, <2>2, <2>3
<1>4. CASE ConnectBreaks
  <2>1. /\ ConnectFails
        /\ UNCHANGED <<kind, caller, token, crossed, pending_write, processing, stage, misplaced, brokerVars, up,
                       delivered>>
        /\ held' \in Packets
    BY <1>4 DEF ConnectBreaks, ConnTypes
  <2> QED
    BY <2>1, ConnectFailsStep
<1>5. CASE AfterFailure
  <2>1. /\ UNCHANGED <<appVars, responses, outbound, inbound, store, msgID, connect, pending_write, processing,
                       stage, held, misplaced, brokerVars, up, delivered>>
        /\ commands' = commands \/ commands' = disconnect_internal
        /\ closeOnly \/ UNCHANGED <<connected, connect_state, ping_outstanding, sockVars>>
    BY <1>5 DEF AfterFailure
  <2>2. commands' \in Seq(Entries)
    BY <2>1, disconnect_internalTyped DEF QueueTypes
  <2>3. AppTypes' /\ QueueTypes'
    BY <2>1, <2>2 DEF AppTypes, QueueTypes, appVars
  <2>4. connected' \in BOOLEAN /\ connect_state' \in {0, 1, 3}
    BY <2>1 DEF closeOnly, ConnTypes
  <2>5. ConnTypes'
    BY <2>1, <2>4 DEF ConnTypes
  <2>6. BrokerTypes'
    <3>1. toClient' = toClient \/ toClient' = <<>>
      BY <2>1 DEF closeOnly, Socket_close, sockVars
    <3> QED
      BY <2>1, <3>1, EmptySeq DEF BrokerTypes, brokerVars
  <2>7. WireStep
    BY <2>1 DEF closeOnly, WireStep, sockVars
  <2> QED
    BY <2>3, <2>5, <2>6, <2>7
<1>6. CASE HoldPacket
  <2>1. PICK p : /\ Reads(p)
                 /\ held' = p
                 /\ UNCHANGED <<appVars, queueVars, connVars, pending_write, processing, stage, misplaced,
                                brokerVars, link, stale, write_pending, writes, toBroker, up, delivered, events>>
    BY <1>6 DEF HoldPacket
  <2>2. p \in Packets /\ toClient' \in Seq(Packets)
    BY <2>1, ReadsTyped
  <2>3. AppTypes' /\ QueueTypes'
    BY <2>1 DEF AppTypes, QueueTypes, appVars, queueVars
  <2>4. ConnTypes' /\ BrokerTypes' /\ WireStep
    BY <2>1, <2>2 DEF ConnTypes, BrokerTypes, connVars, brokerVars, WireStep
  <2> QED
    BY <2>3, <2>4
<1>7. CASE ReceiveConnack
  <2>0. /\ UNCHANGED <<kind, caller, token, crossed, pending_write, processing, stage, misplaced, brokerVars, up,
                       delivered>>
        /\ held' \in Packets
    BY <1>7, ClientPackets DEF ReceiveConnack
  <2>1. CASE UNCHANGED <<outcome, queueVars, connVars, sockVars>>
    <3>1. AppTypes' /\ QueueTypes'
      BY <2>0, <2>1 DEF AppTypes, QueueTypes, queueVars
    <3>2. ConnTypes' /\ BrokerTypes' /\ WireStep
      BY <2>0, <2>1 DEF ConnTypes, BrokerTypes, connVars, brokerVars, sockVars, WireStep
    <3> QED
      BY <3>1, <3>2
  <2>2. CASE /\ connected' = TRUE
             /\ connect_state' = 0
             /\ cleanSession(commands, IF connect.armed THEN connect.job ELSE none, "success")
             /\ connect' = [connect EXCEPT !.armed = FALSE]
             /\ UNCHANGED <<ping_outstanding, sockVars>>
    <3>1. outcome' \in [AllJobs -> Outcomes] /\ QueueTypes'
      BY <2>2, cleanSessionTyped
    <3>2. AppTypes'
      BY <2>0, <3>1 DEF AppTypes, Outcomes
    <3>3. connect' \in [job : Calls \cup {none}, version : Nat, armed : BOOLEAN]
      BY <2>2 DEF ConnTypes
    <3>4. connected' \in BOOLEAN
      BY <2>2, Zenon
    <3>5. ConnTypes'
      BY <2>0, <2>2, <3>3, <3>4 DEF ConnTypes
    <3>6. BrokerTypes' /\ WireStep
      BY <2>0, <2>2 DEF BrokerTypes, brokerVars, sockVars, WireStep
    <3> QED
      BY <3>1, <3>2, <3>5, <3>6
  <2>3. CASE ConnectFails
    BY <2>0, <2>3, ConnectFailsStep
  <2> QED
    BY <1>7, <2>1, <2>2, <2>3 DEF ReceiveConnack
<1>8. CASE ReceiveSuback
  <2>1. /\ UNCHANGED <<responses, outcome>> \/ \E what \in {"success", "failure"} : Answered(held.id, what)
        /\ held' = NoPacket
        /\ UNCHANGED <<kind, caller, token, crossed, commands, outbound, inbound, store, msgID, connVars,
                       pending_write, processing, stage, misplaced, brokerVars, sockVars, up, delivered, events>>
    BY <1>8 DEF ReceiveSuback
  <2>2. outcome' \in [AllJobs -> Outcomes] /\ responses' \in Seq(Jobs)
    <3>1. CASE UNCHANGED <<responses, outcome>>
      BY <1>0, <3>1 DEF QueueTypes
    <3>2. ASSUME NEW what \in {"success", "failure"}, Answered(held.id, what)
          PROVE  outcome' \in [AllJobs -> Outcomes] /\ responses' \in Seq(Jobs)
      BY <3>2, AnsweredTyped
    <3> QED
      BY <2>1, <3>1, <3>2
  <2>3. AppTypes' /\ QueueTypes'
    BY <2>1, <2>2 DEF AppTypes, QueueTypes, Outcomes
  <2>4. ConnTypes' /\ BrokerTypes' /\ WireStep
    BY <2>1, ClientPackets DEF ConnTypes, BrokerTypes, connVars, brokerVars, sockVars, WireStep
  <2> QED
    BY <2>3, <2>4
<1>9. CASE HandlePuback
  <2>1. PICK p : /\ Reads(p)
                 /\ \/ UNCHANGED <<outbound, store>>
                    \/ \E i \in Waiting(p.id, p.type) :
                          /\ outbound' = RemoveAt(outbound, i)
                          /\ store' = Removed({"s", "sc"}, p.id)
                 /\ Answered(p.id, "success")
                 /\ UNCHANGED <<kind, caller, token, crossed, commands, inbound, msgID, connVars, pending_write,
                                processing, stage, held, misplaced, brokerVars, link, stale, write_pending,
                                writes, toBroker, up, delivered, events>>
    BY <1>9 DEF HandlePuback
  <2>2. toClient' \in Seq(Packets)
    BY <2>1, ReadsTyped
  <2>3. outcome' \in [AllJobs -> Outcomes] /\ responses' \in Seq(Jobs)
    BY <2>1, AnsweredTyped
  <2>4. outbound' \in Seq(Messages) /\ store' \subseteq store
    <3>1. CASE UNCHANGED <<outbound, store>>
      BY <3>1 DEF QueueTypes
    <3>2. ASSUME NEW i \in Waiting(p.id, p.type),
                 outbound' = RemoveAt(outbound, i), store' = Removed({"s", "sc"}, p.id)
          PROVE  outbound' \in Seq(Messages) /\ store' \subseteq store
      <4>1. i \in DOMAIN outbound
        BY DEF Waiting
      <4>2. outbound' \in Seq(Messages)
        BY <3>2, <4>1, RemoveAtFacts DEF QueueTypes
      <4> QED
        BY <3>2, <4>2 DEF Removed
    <3> QED
      BY <2>1, <3>1, <3>2
  <2>5. AppTypes' /\ QueueTypes'
    <3>1. IsFiniteSet(store')
      BY <2>4, FS_Subset DEF QueueTypes
    <3> QED
      BY <2>1, <2>3, <2>4, <3>1 DEF AppTypes, QueueTypes, Outcomes
  <2>6. ConnTypes' /\ BrokerTypes' /\ WireStep
    BY <2>1, <2>2 DEF ConnTypes, BrokerTypes, connVars, brokerVars, WireStep
  <2> QED
    BY <2>5, <2>6
<1>10. CASE HandlePubrec
  BY <1>10, AcknowledgeTyped
<1>11. CASE HandlePublish1 \/ HandlePublish2 \/ HandlePubrel
  BY <1>11, AcknowledgeTyped
<1>12. CASE HandlePingresp
  <2>1. PICK p : /\ Reads(p)
                 /\ UNCHANGED <<appVars, queueVars, connected, connect_state, connect, pending_write, processing,
                                stage, held, misplaced, brokerVars, link, stale, write_pending, writes, toBroker,
                                up, delivered>>
    BY <1>12 DEF HandlePingresp
  <2>2. toClient' \in Seq(Packets)
    BY <2>1, ReadsTyped
  <2>3. AppTypes' /\ QueueTypes'
    BY <2>1 DEF AppTypes, QueueTypes, appVars, queueVars
  <2>4. ConnTypes' /\ BrokerTypes' /\ WireStep
    BY <2>1, <2>2 DEF ConnTypes, BrokerTypes, brokerVars, WireStep
  <2> QED
    BY <2>3, <2>4
<1> QED
  BY <1>1, <1>2, <1>3, <1>4, <1>5, <1>6, <1>7, <1>8, <1>9, <1>10, <1>11, <1>12 DEF ReceiveThread

LEMMA DiesTyped ==
    ASSUME TypeInv, Dies
    PROVE  OtherTypes' /\ WireStep
<1> USE DEF TypeInv, OtherTypes, Dies
<1>1. AppTypes'
  BY DEF AppTypes
<1>2. QueueTypes'
  BY EmptySeq DEF QueueTypes
<1>3. ConnTypes'
  <2>1. connect' \in [job : Calls \cup {none}, version : Nat, armed : BOOLEAN]
    <3>1. FALSE \in BOOLEAN
      OBVIOUS
    <3> QED
      BY <3>1
  <2>2. connected' \in BOOLEAN /\ up' \in BOOLEAN
    BY Zenon
  <2> QED
    BY <2>1, <2>2, ClientPackets DEF ConnTypes
<1>4. BrokerTypes'
  BY EmptySeq DEF BrokerTypes, brokerVars
<1>5. WireStep
  BY DEF WireStep
<1> QED
  BY <1>1, <1>2, <1>3, <1>4, <1>5

(* The files in the order they are read. *)
LEMMA ListedTyped ==
    ASSUME NEW files, IsFiniteSet(files), NEW q \in Listed(files)
    PROVE  \E n \in Nat : q \in [1 .. n -> files]
<1>1. Cardinality(files) \in Nat
  BY FS_CardinalityType
<1> QED
  BY <1>1 DEF Listed

LEMMA RestartTyped ==
    ASSUME TypeInv, Restart
    PROVE  OtherTypes' /\ WireStep
<1> USE DEF TypeInv, OtherTypes
<1>1. /\ AppTypes' /\ BrokerTypes' /\ WireStep
  BY DEF Restart, AppTypes, BrokerTypes, WireStep, appVars, brokerVars, sockVars
<1>2. ConnTypes'
  <2>1. up' \in BOOLEAN
    BY Zenon DEF Restart
  <2> QED
    BY <2>1 DEF Restart, ConnTypes, connVars, threadVars
<1>3. \A files \in SUBSET store : \A q \in Listed(files) : \E n \in Nat : q \in [1 .. n -> files]
  BY ListedTyped, FS_Subset DEF QueueTypes
<1>4. outbound' \in Seq(Messages)
  <2>1. PICK q \in Listed(FilesOf("s")) :
            outbound' = [i \in DOMAIN q |->
                            [createMessage(q[i].about) EXCEPT
                                !.next = IF File("sc", q[i].id, none) \in store THEN "PUBCOMP" ELSE @]]
    BY DEF Restart, restore
  <2>2. FilesOf("s") \in SUBSET store /\ \A f \in FilesOf("s") : f.about \in Jobs
    BY DEF FilesOf, QueueTypes
  <2>3. PICK n \in Nat : q \in [1 .. n -> FilesOf("s")]
    BY <1>3, <2>2
  <2>4. ASSUME NEW i \in 1 .. n PROVE outbound'[i] \in Messages
    <3>1. q[i].about \in Jobs
      BY <2>2, <2>3
    <3>2. createMessage(q[i].about) \in Messages
      BY <3>1 DEF createMessage, Messages
    <3> QED
      BY <2>1, <2>3, <3>2 DEF Messages
  <2>5. outbound' \in [1 .. n -> Messages]
    BY <2>1, <2>3, <2>4
  <2> QED
    BY <2>5, SeqDef
<1>5. commands' \in Seq(Entries)
  <2>1. PICK q \in Listed(FilesOf("c")) : commands' = [i \in DOMAIN q |-> Command(q[i].about, 0)]
    BY DEF Restart, restoreCommands
  <2>2. FilesOf("c") \in SUBSET store /\ \A f \in FilesOf("c") : f.about \in Jobs
    BY DEF FilesOf, QueueTypes
  <2>3. PICK n \in Nat : q \in [1 .. n -> FilesOf("c")]
    BY <1>3, <2>2
  <2>4. ASSUME NEW i \in 1 .. n PROVE Command(q[i].about, 0) \in Entries
    BY <2>2, <2>3, EntryTyped DEF AllJobs
  <2>5. commands' \in [1 .. n -> Entries]
    BY <2>1, <2>3, <2>4
  <2> QED
    BY <2>5, SeqDef
<1>6. inbound' \subseteq [id : Nat, about : Nat]
  <2>1. inbound' = {[id |-> f.id, about |-> f.about] : f \in FilesOf("r")}
    BY DEF Restart, restore
  <2>2. \A f \in FilesOf("r") : f.id \in Nat /\ f.about \in Nat
    BY DEF FilesOf, QueueTypes, Files
  <2> QED
    BY <2>1, <2>2
<1>7. QueueTypes'
  BY <1>4, <1>5, <1>6 DEF Restart, QueueTypes
<1> QED
  BY <1>1, <1>2, <1>7

LEMMA BrokerTyped ==
    ASSUME TypeInv, KeepAlive \/ BrokerReads \/ BrokerSends \/ BrokerDrops \/ NetworkBreaks
    PROVE  OtherTypes' /\ WireStep
<1> USE DEF TypeInv, OtherTypes
<1>1. CASE KeepAlive
  <2>1. /\ UNCHANGED <<appVars, responses, outbound, inbound, store, msgID, connected, connect_state, connect,
                       threadVars, brokerVars, link, stale, toClient, up, delivered>>
        /\ commands' = commands \/ commands' = disconnect_internal
        /\ \/ \E rc \in Results : Socket_putdatas(Packet("PINGREQ", 0, none), rc)
           \/ UNCHANGED <<write_pending, writes, toBroker>>
    BY <1>1 DEF KeepAlive
  <2>2. commands' \in Seq(Entries)
    BY <2>1, disconnect_internalTyped DEF QueueTypes
  <2>3. AppTypes' /\ QueueTypes'
    BY <2>1, <2>2 DEF AppTypes, QueueTypes, appVars
  <2>4. ConnTypes' /\ BrokerTypes'
    BY <2>1 DEF ConnTypes, BrokerTypes, threadVars, brokerVars
  <2>5. WireStep
    BY <2>1, ClientPackets DEF WireStep
  <2> QED
    BY <2>3, <2>4, <2>5
<1>2. CASE BrokerReads
  <2> DEFINE p == Head(toBroker).packet
  <2>1. /\ UNCHANGED <<appVars, queueVars, connVars, threadVars, link, stale, write_pending, writes, up, delivered>>
        /\ Readable
        /\ toBroker' = AfterReadable
    BY <1>2 DEF BrokerReads
  <2>2. p \in Packets /\ p.id \in Nat /\ p.about \in Nat
    <3>1. toBroker # <<>> /\ toBroker \in Seq(Pieces)
      BY <2>1, EmptySeq DEF Readable, WireTypes
    <3>2. Head(toBroker) \in Pieces
      BY <3>1, SeqFacts
    <3> QED
      BY <3>2 DEF Pieces, Packets
  <2>3. {"CONNACK", "REFUSED", "PUBACK", "PUBREC", "PUBREL", "PUBCOMP", "SUBACK", "SUBACK_BAD", "PINGRESP"}
            \subseteq PacketTypes
    BY DEF PacketTypes
  <2>4. toClient' \in Seq(Packets)
    <3>1. \A r \in Packets : Reply(r) => toClient' \in Seq(Packets)
      BY DEF Reply, BrokerTypes
    <3>2. \/ \E r \in Packets : Reply(r)
          \/ NoReply
      <4> HIDE DEF p
      <4>1. /\ \A answer \in {"CONNACK", "REFUSED"} : Packet(answer, 0, none) \in Packets
            /\ Packet("PUBACK", p.id, none) \in Packets
            /\ Packet("PUBREC", p.id, none) \in Packets
            /\ Packet("PUBCOMP", p.id, none) \in Packets
            /\ Packet("SUBACK", p.id, p.about) \in Packets
            /\ Packet("SUBACK_BAD", p.id, p.about) \in Packets
            /\ Packet("PINGRESP", 0, none) \in Packets
            /\ Packet("PUBREL", p.id, p.about) \in Packets
        BY <2>2, <2>3, SentTyped
      <4> QED
        BY <1>2, <4>1, Zenon DEF BrokerReads, p
    <3>3. NoReply => toClient' \in Seq(Packets)
      BY DEF NoReply, BrokerTypes
    <3> QED
      BY <3>1, <3>2, <3>3
  <2>5. sent' \in [Inbound -> {"unsent", "sent1", "sent2", "released", "done"}]
    <3>1. \/ sent' = sent
          \/ sent' = [sent EXCEPT ![p.about] = IF @ = "sent2" THEN "released" ELSE @]
          \/ sent' = [sent EXCEPT ![p.about] = "done"]
      BY <1>2, Zenon DEF BrokerReads
    <3> QED
      BY <3>1 DEF BrokerTypes
  <2>6. AppTypes' /\ QueueTypes'
    BY <2>1 DEF AppTypes, QueueTypes, appVars, queueVars
  <2>7. ConnTypes' /\ BrokerTypes'
    BY <2>1, <2>4, <2>5 DEF ConnTypes, BrokerTypes, connVars, threadVars
  <2>8. WireStep
    BY <2>1 DEF WireStep
  <2> QED
    BY <2>6, <2>7, <2>8
<1>3. CASE BrokerSends
  <2>1. UNCHANGED <<appVars, queueVars, connVars, threadVars, released, session, accepted, link, stale,
                    write_pending, writes, toBroker, up, delivered>>
    BY <1>3 DEF BrokerSends
  <2>2. PICK m \in Inbound :
            /\ \E type \in {"PUBLISH1", "PUBLISH2", "PUBREL_DUP"} : toClient' = Append(toClient, Packet(type, m, m))
            /\ \/ UNCHANGED sent
               \/ \E how \in {"sent1", "sent2"} : sent' = [sent EXCEPT ![m] = how]
    <3>1. PICK m \in Inbound :
          \/ /\ sent[m] = "unsent"
             /\ \E type \in {"PUBLISH1", "PUBLISH2"} :
                   /\ toClient' = Append(toClient, Packet(type, m, m))
                   /\ sent' = [sent EXCEPT ![m] = IF type = "PUBLISH1" THEN "sent1" ELSE "sent2"]
          \/ /\ sent[m] = "sent2"
             /\ toClient' = Append(toClient, Packet("PUBLISH2", m, m))
             /\ UNCHANGED sent
          \/ /\ sent[m] = "released"
             /\ toClient' = Append(toClient, Packet("PUBREL_DUP", m, m))
             /\ UNCHANGED sent
      BY <1>3, Zenon DEF BrokerSends
    <3> QED
      BY <3>1
  <2>3. toClient' \in Seq(Packets)
    <3>1. \A type \in {"PUBLISH1", "PUBLISH2", "PUBREL_DUP"} : Packet(type, m, m) \in Packets
      BY SentTyped DEF PacketTypes
    <3> QED
      BY <2>2, <3>1 DEF BrokerTypes
  <2>4. AppTypes' /\ QueueTypes'
    BY <2>1 DEF AppTypes, QueueTypes, appVars, queueVars
  <2>5. ConnTypes' /\ BrokerTypes'
    BY <2>1, <2>2, <2>3 DEF ConnTypes, BrokerTypes, connVars, threadVars
  <2>6. WireStep
    BY <2>1 DEF WireStep
  <2> QED
    BY <2>4, <2>5, <2>6
<1>4. CASE BrokerDrops \/ NetworkBreaks
  <2>1. /\ UNCHANGED <<appVars, queueVars, connVars, threadVars, sent, up, delivered>>
        /\ toClient' = toClient \/ toClient' = <<>>
    BY <1>4 DEF BrokerDrops, NetworkBreaks, Breaks, brokerVars
  <2>2. AppTypes' /\ QueueTypes'
    BY <2>1 DEF AppTypes, QueueTypes, appVars, queueVars
  <2>3. ConnTypes' /\ BrokerTypes'
    <3>1. toClient' \in Seq(Packets)
      BY <2>1, EmptySeq DEF BrokerTypes
    <3> QED
      BY <2>1, <3>1 DEF ConnTypes, BrokerTypes, connVars, threadVars
  <2>4. WireStep
    BY <1>4 DEF BrokerDrops, NetworkBreaks, Breaks, WireStep
  <2> QED
    BY <2>2, <2>3, <2>4
<1> QED
  BY <1>1, <1>2, <1>3, <1>4

LEMMA NextTyped ==
    ASSUME TypeInv, Next
    PROVE  OtherTypes' /\ WireStep
BY ApplicationTyped, SendTyped, ReceiveTyped, DiesTyped, RestartTyped, BrokerTyped, Zenon
   DEF Next, Crash, WriteCompleteCrashes

LEMMA WireInit == Init => WireInv
<1> SUFFICES ASSUME Init PROVE WireInv
  OBVIOUS
<1> USE DEF Init
<1>1. AppTypes
  BY JobsAssumption DEF AppTypes, AllJobs, Kinds
<1>2. QueueTypes
  BY EmptySeq, FS_EmptySet DEF QueueTypes
<1>3. ConnTypes
  <2>1. TRUE \in BOOLEAN /\ FALSE \in BOOLEAN
    OBVIOUS
  <2> QED
    BY <2>1, ClientPackets DEF ConnTypes
<1>4. WireTypes /\ BrokerTypes
  BY EmptySeq DEF WireTypes, BrokerTypes, SocketInit
<1>5. StreamInv
  BY DEF StreamInv, SocketInit, WellFormed
<1> QED
  BY <1>1, <1>2, <1>3, <1>4, <1>5 DEF WireInv, TypeInv

LEMMA WireNext == WireInv /\ [Next]_vars => WireInv'
<1>1. ASSUME WireInv, Next PROVE WireInv'
  <2>1. OtherTypes' /\ WireStep
    BY <1>1, NextTyped DEF WireInv
  <2>2. WireTypes' /\ StreamInv'
    BY <1>1, <2>1, StreamStep DEF WireInv, TypeInv, ConnTypes
  <2> QED
    BY <2>1, <2>2 DEF WireInv, TypeInv, OtherTypes
<1>2. ASSUME WireInv, UNCHANGED vars PROVE WireInv'
  <2> USE <1>2 DEF WireInv, TypeInv, vars
  <2>1. AppTypes' /\ QueueTypes'
    BY DEF AppTypes, QueueTypes, appVars, queueVars
  <2>2. ConnTypes' /\ BrokerTypes'
    BY DEF ConnTypes, BrokerTypes, connVars, threadVars, brokerVars, sockVars
  <2>3. WireTypes' /\ StreamInv'
    BY DEF WireTypes, StreamInv, WellFormed, Pending, sockVars
  <2> QED
    BY <2>1, <2>2, <2>3
<1> QED
  BY <1>1, <1>2

\* The inductive invariant about the connection: every variable keeps its
\* type, and what was written is a sequence of packets of which the last may
\* be cut, as writes and write_pending have it (Socket_putdatas,
\* Socket_continueWrites).
THEOREM PahoWire == Spec => []WireInv
BY WireInit, WireNext, PTL DEF Spec

\* What reaches the broker is a sequence of whole packets, for any number of
\* jobs and messages and wherever writes are cut, unless the connection began
\* with a write kept of an earlier one (Socket_close leaves it in writes).
THEOREM PahoStreamIntact == Spec => []StreamIntact
<1>1. WireInv => StreamIntact
  BY WellFormedReadable DEF WireInv, TypeInv, StreamInv, StreamIntact
<1> QED
  BY <1>1, PahoWire, PTL

-----------------------------------------------------------------------------
(* Messages from the broker.                                               *)

\* What comes after the first d packets is what is left to be read.
FromBroker(d) ==
    \A i \in DOMAIN toClient' :
        toClient'[i].type \in InboundTypes => i + d \in DOMAIN toClient /\ toClient'[i] = toClient[i + d]

\* A step that takes nothing but away from what there is of messages.
QuietStep ==
    /\ \E d \in Nat : FromBroker(d)
    /\ UNCHANGED <<sent, delivered>>
    /\ Recs' \subseteq Recs
    /\ Kept' \subseteq Kept

\* The same for what there is of message m.
QuietFor(m, d) ==
    /\ \A i \in DOMAIN toClient' :
          toClient'[i].type \in InboundTypes /\ toClient'[i].about = m
              => i + d \in DOMAIN toClient /\ toClient'[i] = toClient[i + d]
    /\ sent'[m] = sent[m] /\ delivered'[m] = delivered[m]
    /\ Packet("PUBREC", m, m) \in Recs' => Packet("PUBREC", m, m) \in Recs
    /\ Message(m) \in Kept' => Message(m) \in Kept

LEMMA TypesOfMessages ==
    /\ {"PUBLISH1"} \in SUBSET InboundTypes
    /\ {"PUBLISH2"} \in SUBSET InboundTypes
    /\ {"PUBLISH1", "PUBLISH2"} \in SUBSET InboundTypes
    /\ {"PUBLISH2"} \cup Releases \in SUBSET InboundTypes
    /\ Releases \in SUBSET InboundTypes
BY DEF InboundTypes, Releases

LEMMA MessageQuiet ==
    ASSUME toClient' \in Seq(Packets), NEW m \in Inbound, MessageInv(m), NEW d \in Nat, QuietFor(m, d)
    PROVE  MessageInv(m)'
<1> USE DEF QuietFor
<1>1. /\ \A types \in SUBSET InboundTypes, i \in DOMAIN toClient' :
            At(toClient', i, types, m) => i + d \in DOMAIN toClient /\ At(toClient, i + d, types, m)
      /\ \A i \in DOMAIN toClient' : i \in Nat
  BY LenProperties DEF At
<1>2. Second(m)' => Second(m)
  <2>1. ASSUME NEW i \in DOMAIN toClient', At(toClient', i, {"PUBLISH2"} \cup Releases, m) PROVE Second(m)
    BY <1>1, TypesOfMessages, <2>1 DEF Second
  <2> QED
    BY <2>1 DEF Second
<1>3. ASSUME NEW i \in DOMAIN toClient', At(toClient', i, {"PUBLISH1"}, m)
      PROVE  /\ delivered'[m] = 0
             /\ ~Second(m)'
             /\ sent'[m] \in {"sent1", "done"}
             /\ \A k \in DOMAIN toClient' : At(toClient', k, {"PUBLISH1"}, m) => k = i
  <2>1. i + d \in DOMAIN toClient /\ At(toClient, i + d, {"PUBLISH1"}, m)
    BY <1>1, TypesOfMessages, <1>3
  <2>2. delivered[m] = 0 /\ ~Second(m) /\ sent[m] \in {"sent1", "done"}
    BY <1>1, <2>1 DEF MessageInv
  <2>3. ASSUME NEW k \in DOMAIN toClient', At(toClient', k, {"PUBLISH1"}, m) PROVE k = i
    <3>1. k + d \in DOMAIN toClient /\ At(toClient, k + d, {"PUBLISH1"}, m)
      BY <1>1, TypesOfMessages, <2>3
    <3>2. k + d = i + d
      BY <1>1, <2>1, <3>1 DEF MessageInv
    <3> QED
      BY <1>1, <3>2
  <2> QED
    BY <1>2, <2>2, <2>3
<1>4. ASSUME NEW i \in DOMAIN toClient', At(toClient', i, Releases, m)
      PROVE  /\ sent'[m] \in {"released", "done"}
             /\ \A k \in DOMAIN toClient' : k > i => ~At(toClient', k, {"PUBLISH2"}, m)
  <2>1. i + d \in DOMAIN toClient /\ At(toClient, i + d, Releases, m)
    BY <1>1, TypesOfMessages, <1>4
  <2>2. sent[m] \in {"released", "done"}
    BY <1>1, <2>1 DEF MessageInv
  <2>3. ASSUME NEW k \in DOMAIN toClient', k > i, At(toClient', k, {"PUBLISH2"}, m) PROVE FALSE
    <3>1. k + d \in DOMAIN toClient /\ At(toClient, k + d, {"PUBLISH2"}, m)
      BY <1>1, TypesOfMessages, <2>3
    <3>2. k + d > i + d
      BY <1>1, <2>3
    <3> QED
      BY <1>1, <2>1, <3>1, <3>2 DEF MessageInv
  <2> QED
    BY <2>2, <2>3
<1>5. ASSUME delivered'[m] # 0
      PROVE  /\ delivered'[m] = 1
             /\ Message(m) \notin Kept'
             /\ \A i \in DOMAIN toClient' : ~At(toClient', i, {"PUBLISH1", "PUBLISH2"}, m)
             /\ sent'[m] \in {"sent1", "released", "done"}
  <2>1. /\ delivered[m] = 1
        /\ Message(m) \notin Kept
        /\ \A i \in DOMAIN toClient : ~At(toClient, i, {"PUBLISH1", "PUBLISH2"}, m)
        /\ sent[m] \in {"sent1", "released", "done"}
    BY <1>1, <1>5 DEF MessageInv
  <2>2. \A i \in DOMAIN toClient' : ~At(toClient', i, {"PUBLISH1", "PUBLISH2"}, m)
    BY <1>1, TypesOfMessages, <2>1
  <2> QED
    BY <2>1, <2>2
<1>6. sent'[m] = "unsent" => delivered'[m] = 0 /\ ~Second(m)'
  BY <1>1, <1>2 DEF MessageInv
<1>7. Second(m)' => sent'[m] \in {"sent2", "released", "done"}
  BY <1>1, <1>2 DEF MessageInv
<1>8. Message(m)' = Message(m)
  BY DEF Message
<1> QED
  BY <1>3, <1>4, <1>5, <1>6, <1>7, <1>8 DEF MessageInv

LEMMA InboundQuiet ==
    ASSUME toClient \in Seq(Packets), toClient' \in Seq(Packets), InboundInv, QuietStep
    PROVE  InboundInv'
<1> USE DEF QuietStep
<1>1. PICK d \in Nat : FromBroker(d)
  OBVIOUS
<1>2. \A i \in DOMAIN toClient' : toClient'[i].type \in InboundTypes => AboutMessage(toClient'[i])
  BY <1>1 DEF FromBroker, InboundInv
<1>3. (\A p \in Recs' : AboutMessage(p)) /\ (\A x \in Kept' : AboutMessage(x))
  BY DEF InboundInv
<1>4. ASSUME NEW m \in Inbound PROVE MessageInv(m)'
  <2>1. QuietFor(m, d)
    BY <1>1 DEF QuietFor, FromBroker
  <2> QED
    BY <2>1, MessageQuiet DEF InboundInv
<1> QED
  BY <1>2, <1>3, <1>4 DEF InboundInv, AboutMessage

(* What is offered to the broker after a step of the wire. *)
LEMMA OfferedAppend ==
    ASSUME WireTypes, NEW part \in {"whole", "front", "rest"}, NEW p \in Packets,
           toBroker' = Append(toBroker, Piece(part, p))
    PROVE  Offered' \subseteq IF part = "rest" THEN Offered ELSE Offered \cup {p}
<1> DEFINE e == Piece(part, p)
           n == Len(toBroker)
<1>1. toBroker \in Seq(Pieces) /\ n \in Nat /\ DOMAIN toBroker = 1 .. n
  BY LenProperties DEF WireTypes
<1>2. e \in Pieces /\ e.part = part /\ e.packet = p
  BY PieceTyped
<1> HIDE DEF e
<1>3. /\ toBroker' \in Seq(Pieces)
      /\ Len(toBroker') = n + 1
      /\ \A i \in 1 .. n : toBroker'[i] = toBroker[i]
      /\ toBroker'[n + 1] = e
  BY <1>1, <1>2, AppendFacts DEF e
<1>4. DOMAIN toBroker' = 1 .. n + 1
  BY <1>3, LenProperties
<1> HIDE DEF n
<1>5. ASSUME NEW i \in 1 .. n + 1, toBroker'[i].part # "rest"
      PROVE  toBroker'[i].packet \in IF part = "rest" THEN Offered ELSE Offered \cup {p}
  <2>1. CASE i = n + 1
    BY <1>2, <1>3, <1>5, <2>1
  <2>2. CASE i # n + 1
    <3>1. i \in 1 .. n
      BY <1>1, <2>2
    <3> QED
      BY <1>1, <1>3, <1>5, <3>1 DEF Offered
  <2> QED
    BY <2>1, <2>2
<1> QED
  BY <1>4, <1>5 DEF Offered

LEMMA OfferedPut ==
    ASSUME WireTypes, NEW p \in Packets, NEW rc \in Results, Socket_putdatas(p, rc)
    PROVE  Offered' \subseteq Offered \cup {p}
<1>1. CASE toBroker' = toBroker
  BY <1>1 DEF Offered
<1>2. ASSUME NEW part \in {"whole", "front"}, toBroker' = Append(toBroker, Piece(part, p))
      PROVE  Offered' \subseteq Offered \cup {p}
  BY <1>2, OfferedAppend
<1> QED
  BY <1>1, <1>2 DEF Socket_putdatas

LEMMA OfferedRead ==
    ASSUME WireTypes, Readable, toBroker' = AfterReadable
    PROVE  Offered' \subseteq Offered /\ Head(toBroker).packet \in Offered
<1>1. toBroker \in Seq(Pieces) /\ toBroker # <<>>
  BY EmptySeq DEF WireTypes, Readable
<1>2. /\ Len(toBroker) \in Nat \ {0}
      /\ DOMAIN toBroker = 1 .. Len(toBroker)
      /\ Head(toBroker) = toBroker[1]
      /\ Tail(toBroker) \in Seq(Pieces)
      /\ Len(Tail(toBroker)) = Len(toBroker) - 1
      /\ \A i \in 1 .. Len(toBroker) - 1 : Tail(toBroker)[i] = toBroker[i + 1]
  BY <1>1, SeqFacts, LenProperties
<1>3. Head(toBroker).packet \in Offered
  BY <1>2 DEF Offered, Readable
<1>4. \A i \in DOMAIN Tail(toBroker) : \E k \in DOMAIN toBroker : Tail(toBroker)[i] = toBroker[k]
  <2> SUFFICES ASSUME NEW i \in DOMAIN Tail(toBroker) PROVE \E k \in DOMAIN toBroker : Tail(toBroker)[i] = toBroker[k]
    OBVIOUS
  <2>1. DOMAIN Tail(toBroker) = 1 .. Len(toBroker) - 1
    BY <1>2, LenProperties
  <2>2. i \in 1 .. Len(toBroker) - 1 /\ i + 1 \in 1 .. Len(toBroker)
    BY <1>2, <2>1
  <2> QED
    BY <1>2, <2>2
<1>5. CASE Head(toBroker).part = "whole"
  <2>1. toBroker' = Tail(toBroker)
    BY <1>5 DEF AfterReadable
  <2> QED
    BY <1>3, <1>4, <2>1 DEF Offered
<1>6. CASE Head(toBroker).part # "whole"
  <2>1. toBroker' = Tail(Tail(toBroker)) /\ Len(toBroker) > 1
    BY <1>6 DEF AfterReadable, Readable
  <2>2. Tail(toBroker) # <<>>
    <3>1. \A n \in Nat : n > 1 => n - 1 # 0
      OBVIOUS
    <3>2. Len(Tail(toBroker)) # 0
      BY <1>2, <2>1, <3>1
    <3> QED
      BY <3>2, EmptySeq
  <2> DEFINE t == Tail(toBroker)
  <2>3. t \in Seq(Pieces) /\ t # <<>>
    BY <1>2, <2>2
  <2> HIDE DEF t
  <2>4. /\ Len(t) \in Nat \ {0}
        /\ DOMAIN t = 1 .. Len(t)
        /\ Tail(t) \in Seq(Pieces)
        /\ Len(Tail(t)) = Len(t) - 1
        /\ \A i \in 1 .. Len(t) - 1 : Tail(t)[i] = t[i + 1]
    BY <2>3, SeqFacts, LenProperties
  <2>5. \A i \in DOMAIN Tail(t) : \E k \in DOMAIN t : Tail(t)[i] = t[k]
    <3> SUFFICES ASSUME NEW i \in DOMAIN Tail(t) PROVE \E k \in DOMAIN t : Tail(t)[i] = t[k]
      OBVIOUS
    <3>1. DOMAIN Tail(t) = 1 .. Len(t) - 1
      BY <2>4, LenProperties
    <3>2. i \in 1 .. Len(t) - 1 /\ i + 1 \in 1 .. Len(t)
      BY <2>4, <3>1
    <3> QED
      BY <2>4, <3>2
  <2>6. \A i \in DOMAIN toBroker' : \E k \in DOMAIN toBroker : toBroker'[i] = toBroker[k]
    BY <1>4, <2>1, <2>5 DEF t
  <2> QED
    BY <1>3, <2>6 DEF Offered
<1> QED
  BY <1>5, <1>6

(* Steps of the wire on which no PUBREC is written. *)
LEMMA NoRec ==
    ASSUME TypeInv, StreamInv,
           \/ UNCHANGED toBroker
           \/ toBroker' = <<>>
           \/ Readable /\ toBroker' = AfterReadable
           \/ \E p \in Packets, rc \in Results : p.type # "PUBREC" /\ Socket_putdatas(p, rc)
           \/ Socket_continueWrites
           \/ Written(Packet("CONNECT", 0, none))
           \/ closeOnly
    PROVE  Recs' \subseteq Recs
<1> USE DEF TypeInv
<1>1. CASE UNCHANGED toBroker
  BY <1>1 DEF Recs, Offered
<1>2. CASE toBroker' = <<>>
  BY <1>2 DEF Recs, Offered
<1>3. CASE Readable /\ toBroker' = AfterReadable
  BY <1>3, OfferedRead DEF Recs
<1>4. ASSUME NEW p \in Packets, NEW rc \in Results, p.type # "PUBREC", Socket_putdatas(p, rc)
      PROVE  Recs' \subseteq Recs
  BY <1>4, OfferedPut DEF Recs
<1>5. CASE Socket_continueWrites
  <2>1. CASE toBroker' = toBroker
    BY <1>1, <2>1
  <2>2. CASE toBroker' = Append(toBroker, Piece("rest", Head(writes)))
    <3>1. writes \in Seq(Packets) /\ writes # <<>>
      BY <1>5 DEF Socket_continueWrites, StreamInv, WireTypes
    <3>2. Head(writes) \in Packets
      BY <3>1, SeqFacts
    <3>3. Offered' \subseteq Offered
      BY <2>2, <3>2, OfferedAppend
    <3> QED
      BY <3>3 DEF Recs
  <2> QED
    BY <1>5, <2>1, <2>2 DEF Socket_continueWrites
<1>6. CASE Written(Packet("CONNECT", 0, none))
  <2> DEFINE p == Packet("CONNECT", 0, none)
  <2>1. p \in Packets /\ p.type # "PUBREC"
    BY ClientPackets DEF Packet
  <2> HIDE DEF p
  <2>2. Offered' \subseteq Offered \cup {p}
    BY <1>6, <2>1, OfferedAppend DEF Written, p
  <2> QED
    BY <2>1, <2>2 DEF Recs
<1>7. CASE closeOnly
  <2> DEFINE p == Packet("DISCONNECT", 0, none)
  <2>1. p \in Packets /\ p.type # "PUBREC"
    BY ClientPackets DEF Packet
  <2> HIDE DEF p
  <2>2. toBroker' = toBroker \/ toBroker' = Append(toBroker, Piece("whole", p))
    BY <1>7 DEF closeOnly, Socket_close, p
  <2>3. CASE toBroker' = toBroker
    BY <1>1, <2>3
  <2>4. CASE toBroker' = Append(toBroker, Piece("whole", p))
    <3>1. Offered' \subseteq Offered \cup {p}
      BY <2>1, <2>4, OfferedAppend
    <3> QED
      BY <2>1, <3>1 DEF Recs
  <2> QED
    BY <2>2, <2>3, <2>4
<1> QED
  BY <1>1, <1>2, <1>3, <1>4, <1>5, <1>6, <1>7

(* What is left to be read. *)
LEMMA Remaining ==
    ASSUME toClient \in Seq(Packets)
    PROVE  /\ UNCHANGED toClient => FromBroker(0)
           /\ toClient' = <<>> => FromBroker(0)
           /\ \A p : Reads(p) => FromBroker(1)
           /\ \A r \in Packets : r.type \notin InboundTypes /\ toClient' = Append(toClient, r) => FromBroker(0)
<1>1. Len(toClient) \in Nat /\ DOMAIN toClient = 1 .. Len(toClient)
  BY LenProperties
<1>2. UNCHANGED toClient => FromBroker(0)
  BY <1>1 DEF FromBroker
<1>3. toClient' = <<>> => FromBroker(0)
  BY DEF FromBroker
<1>4. ASSUME NEW p, Reads(p) PROVE FromBroker(1)
  <2>1. toClient # <<>> /\ toClient' = Tail(toClient)
    BY <1>4 DEF Reads
  <2>2. /\ toClient' \in Seq(Packets)
        /\ Len(toClient') = Len(toClient) - 1
        /\ \A i \in 1 .. Len(toClient) - 1 : toClient'[i] = toClient[i + 1]
    BY <2>1, SeqFacts
  <2>3. DOMAIN toClient' = 1 .. Len(toClient) - 1
    BY <2>2, LenProperties
  <2> QED
    BY <1>1, <2>2, <2>3 DEF FromBroker
<1>5. ASSUME NEW r \in Packets, r.type \notin InboundTypes, toClient' = Append(toClient, r) PROVE FromBroker(0)
  <2>1. /\ toClient' \in Seq(Packets)
        /\ Len(toClient') = Len(toClient) + 1
        /\ \A i \in 1 .. Len(toClient) : toClient'[i] = toClient[i]
        /\ toClient'[Len(toClient) + 1] = r
    BY <1>5, AppendFacts
  <2>2. DOMAIN toClient' = 1 .. Len(toClient) + 1
    BY <2>1, LenProperties
  <2> SUFFICES ASSUME NEW i \in 1 .. Len(toClient) + 1, toClient'[i].type \in InboundTypes
               PROVE  i + 0 \in 1 .. Len(toClient) /\ toClient'[i] = toClient[i + 0]
    BY <1>1, <2>2 DEF FromBroker
  <2>3. i # Len(toClient) + 1
    BY <1>5, <2>1
  <2>4. i \in 1 .. Len(toClient) /\ i + 0 = i
    BY <1>1, <2>3
  <2> QED
    BY <2>1, <2>4
<1> QED
  BY <1>2, <1>3, <1>4, <1>5

LEMMA KeptShrinks ==
    ASSUME inbound' \subseteq inbound, FilesOf("r")' \subseteq FilesOf("r")
    PROVE  Kept' \subseteq Kept
BY DEF Kept

\* The actions that handle no message from the broker.
Quiet ==
    \/ ApplicationStep
    \/ SendThread
    \/ ConnectTimesOut
    \/ Select \/ ContinueWrite
    \/ NothingToRead \/ Connecting \/ ConnectBreaks \/ ReadFails \/ AfterFailure
    \/ HoldPacket \/ ReceiveConnack \/ ReceiveSuback
    \/ HandlePuback \/ HandlePubrec \/ HandlePingresp
    \/ KeepAlive
    \/ Dies
    \/ Restart
    \/ BrokerDrops
    \/ NetworkBreaks

LEMMA QuietNext ==
    ASSUME TypeInv, StreamInv, Quiet
    PROVE  QuietStep
<1>0. 0 \in Nat /\ 1 \in Nat /\ toClient \in Seq(Packets)
  BY DEF TypeInv, BrokerTypes
<1>1. ASSUME UNCHANGED <<sent, delivered>>,
             FromBroker(0) \/ FromBroker(1),
             Recs' \subseteq Recs,
             Kept' \subseteq Kept
      PROVE  QuietStep
  BY <1>0, <1>1 DEF QuietStep
<1>2. ASSUME UNCHANGED <<sent, delivered, inbound, store, toBroker>>,
             FromBroker(0) \/ FromBroker(1)
      PROVE  QuietStep
  <2>1. Recs' \subseteq Recs
    BY <1>2, NoRec
  <2>2. Kept' \subseteq Kept
    BY <1>2, KeptShrinks DEF FilesOf
  <2> QED
    BY <1>1, <1>2, <2>1, <2>2
<1>3. CASE ApplicationStep
  <2>1. /\ UNCHANGED <<sent, delivered, inbound, toBroker, toClient>>
        /\ store' = store \/ \E j \in Jobs : store' = store \cup Persisted(j)
    BY <1>3 DEF ApplicationStep, Connect, CheckConnected, ReadMsgId, AssignMsgId, AddCommand, queueVars,
         brokerVars, sockVars
  <2>2. FilesOf("r")' \subseteq FilesOf("r")
    BY <2>1 DEF FilesOf, Persisted, File
  <2>3. Recs' \subseteq Recs
    BY <2>1, NoRec
  <2>4. Kept' \subseteq Kept
    BY <2>1, <2>2, KeptShrinks
  <2>5. FromBroker(0)
    BY <1>0, <2>1, Remaining
  <2> QED
    BY <1>1, <2>1, <2>3, <2>4, <2>5
<1>4. ASSUME closeOnly, UNCHANGED <<sent, delivered>>,
             UNCHANGED <<inbound, store>> \/ \E q, job, what : cleanSession(q, job, what)
      PROVE  QuietStep
  <2>1. toClient' = <<>>
    BY <1>4 DEF closeOnly, Socket_close
  <2>2. Kept' \subseteq Kept
    BY <1>4, KeptShrinks DEF cleanSession, FilesOf
  <2>3. Recs' \subseteq Recs
    BY <1>4, NoRec
  <2>4. FromBroker(0)
    BY <1>0, <2>1, Remaining
  <2> QED
    BY <1>1, <1>4, <2>2, <2>3, <2>4
<1>5. ASSUME ConnectFails, UNCHANGED <<sent, delivered>> PROVE QuietStep
  <2>1. closeOnly /\ (UNCHANGED <<inbound, store>> \/ \E q, job, what : cleanSession(q, job, what))
    BY <1>5 DEF ConnectFails, closeSession
  <2> QED
    BY <1>4, <1>5, <2>1
<1>6. CASE ProcessConnect
  <2>1. /\ UNCHANGED <<sent, delivered, inbound, store>>
        /\ UNCHANGED <<toBroker, toClient>> \/ (toBroker' = <<>> /\ toClient' = <<>>)
    BY <1>6 DEF ProcessConnect, Socket_new, brokerVars, sockVars
  <2>2. Recs' \subseteq Recs
    BY <2>1, NoRec
  <2>3. Kept' \subseteq Kept
    BY <2>1, KeptShrinks DEF FilesOf
  <2>4. FromBroker(0)
    BY <1>0, <2>1, Remaining
  <2> QED
    BY <1>1, <2>1, <2>2, <2>3, <2>4
<1>7. CASE ProcessDisconnect
  <2>1. /\ UNCHANGED <<sent, delivered>>
        /\ \/ closeOnly /\ \E q, job, what : cleanSession(q, job, what)
           \/ UNCHANGED <<inbound, store, toBroker, toClient>>
    BY <1>7 DEF ProcessDisconnect, checkDisconnect, closeSession, brokerVars, sockVars
  <2>2. CASE closeOnly /\ \E q, job, what : cleanSession(q, job, what)
    BY <1>4, <2>1, <2>2
  <2>3. CASE UNCHANGED <<inbound, store, toBroker, toClient>>
    BY <1>0, <1>2, <2>1, <2>3, Remaining
  <2> QED
    BY <2>1, <2>2, <2>3
<1>8. CASE ProcessPublish0
  <2>1. PICK rc \in Results :
            /\ stage # "idle"
            /\ Socket_putdatas(Packet("PUBLISH", 0, processing), rc)
            /\ UNCHANGED <<sent, delivered, inbound, store, toClient>>
    BY <1>8 DEF ProcessPublish0, Processes, queueVars, brokerVars
  <2>2. Packet("PUBLISH", 0, processing) \in Packets /\ Packet("PUBLISH", 0, processing).type # "PUBREC"
    BY <2>1, ProcessingTyped, SentTyped DEF PacketTypes, Packet
  <2>3. Recs' \subseteq Recs
    BY <2>1, <2>2, NoRec
  <2>4. Kept' \subseteq Kept
    BY <2>1, KeptShrinks DEF FilesOf
  <2>5. FromBroker(0)
    BY <1>0, <2>1, Remaining
  <2> QED
    BY <1>1, <2>1, <2>3, <2>4, <2>5
<1>9. CASE ProcessRequest
  <2> DEFINE j == processing
             type == IF kind[j] \in {"pub1", "pub2"} THEN "PUBLISH" ELSE "SUBSCRIBE"
             p == Packet(type, token[j], j)
  <2>1. PICK rc \in Results :
            /\ stage # "idle"
            /\ Socket_putdatas(p, rc)
            /\ store' = IF kind[j] \in {"pub1", "pub2"} THEN Put(store, File("s", token[j], j)) ELSE store
    BY <1>9 DEF ProcessRequest, Processes
  <2>2. UNCHANGED <<sent, delivered, inbound, toClient>>
    BY <1>9 DEF ProcessRequest, brokerVars
  <2>3. p \in Packets /\ p.type # "PUBREC"
    <3>1. token[j] \in Nat /\ j \in Nat
      BY <2>1, ProcessingTyped, SentTyped
    <3>2. type \in PacketTypes /\ type # "PUBREC"
      BY DEF PacketTypes
    <3> HIDE DEF type
    <3>3. p \in Packets
      BY <3>1, <3>2, PacketTyped
    <3> QED
      BY <3>2, <3>3 DEF Packet
  <2>4. Recs' \subseteq Recs
    <3> HIDE DEF p
    <3> QED
      BY <2>1, <2>3, NoRec
  <2>5. FilesOf("r")' \subseteq FilesOf("r")
    BY <2>1 DEF FilesOf, Put, File
  <2>6. Kept' \subseteq Kept
    BY <2>2, <2>5, KeptShrinks
  <2>7. FromBroker(0)
    BY <1>0, <2>2, Remaining
  <2> QED
    BY <1>1, <2>2, <2>4, <2>6, <2>7
<1>10. CASE ConnectTimesOut \/ ConnectBreaks
  BY <1>5, <1>10 DEF ConnectTimesOut, ConnectBreaks, brokerVars
<1>11. CASE NotePendingWrite \/ Register \/ Select \/ NothingToRead \/ ReadFails \/ ReceiveSuback
  <2>1. UNCHANGED <<sent, delivered, inbound, store, toBroker, toClient>>
    BY <1>11 DEF NotePendingWrite, Register, Select, NothingToRead, ReadFails, ReceiveSuback, queueVars,
         brokerVars, sockVars
  <2> QED
    BY <1>0, <1>2, <2>1, Remaining
<1>12. CASE ContinueWrite
  <2>1. Socket_continueWrites /\ UNCHANGED <<sent, delivered, inbound, store, toClient>>
    BY <1>12 DEF ContinueWrite, brokerVars
  <2>2. Recs' \subseteq Recs
    BY <2>1, NoRec
  <2>3. Kept' \subseteq Kept
    BY <2>1, KeptShrinks DEF FilesOf
  <2> QED
    BY <1>0, <1>1, <2>1, <2>2, <2>3, Remaining
<1>13. CASE Connecting
  <2>1. Written(Packet("CONNECT", 0, none)) /\ UNCHANGED <<sent, delivered, inbound, store, toClient>>
    BY <1>13 DEF Connecting, Written, queueVars, brokerVars
  <2>2. Recs' \subseteq Recs
    BY <2>1, NoRec
  <2>3. Kept' \subseteq Kept
    BY <2>1, KeptShrinks DEF FilesOf
  <2> QED
    BY <1>0, <1>1, <2>1, <2>2, <2>3, Remaining
<1>14. CASE AfterFailure
  <2>1. /\ UNCHANGED <<sent, delivered, inbound, store>>
        /\ closeOnly \/ UNCHANGED <<toBroker, toClient>>
    BY <1>14 DEF AfterFailure, brokerVars, sockVars
  <2>2. CASE closeOnly
    BY <1>4, <2>1, <2>2
  <2>3. CASE UNCHANGED <<toBroker, toClient>>
    BY <1>0, <1>2, <2>1, <2>3, Remaining
  <2> QED
    BY <2>1, <2>2, <2>3
<1>15. CASE HoldPacket \/ HandlePingresp
  <2>1. (\E p : Reads(p)) /\ UNCHANGED <<sent, delivered, inbound, store, toBroker>>
    BY <1>15 DEF HoldPacket, HandlePingresp, queueVars, brokerVars
  <2> QED
    BY <1>0, <1>2, <2>1, Remaining
<1>16. CASE ReceiveConnack
  <2>1. UNCHANGED <<sent, delivered>>
    BY <1>16 DEF ReceiveConnack, brokerVars
  <2>2. CASE UNCHANGED <<queueVars, sockVars>>
    BY <1>0, <1>2, <2>1, <2>2, Remaining DEF queueVars, sockVars
  <2>3. CASE UNCHANGED sockVars /\ \E q, job, what : cleanSession(q, job, what)
    <3>1. UNCHANGED <<toBroker, toClient>>
      BY <2>3 DEF sockVars
    <3>2. Kept' \subseteq Kept
      BY <2>3, KeptShrinks DEF cleanSession, FilesOf
    <3>3. Recs' \subseteq Recs
      BY <3>1, NoRec
    <3> QED
      BY <1>0, <1>1, <2>1, <3>1, <3>2, <3>3, Remaining
  <2>4. CASE ConnectFails
    BY <1>5, <2>1, <2>4
  <2> QED
    BY <1>16, <2>2, <2>3, <2>4 DEF ReceiveConnack
<1>17. CASE HandlePuback
  <2>1. PICK p : /\ Reads(p)
                 /\ store' = store \/ store' = Removed({"s", "sc"}, p.id)
                 /\ UNCHANGED <<sent, delivered, inbound, toBroker>>
    BY <1>17 DEF HandlePuback, brokerVars
  <2>2. Recs' \subseteq Recs
    BY <2>1, NoRec
  <2>3. Kept' \subseteq Kept
    BY <2>1, KeptShrinks DEF FilesOf, Removed
  <2> QED
    BY <1>0, <1>1, <2>1, <2>2, <2>3, Remaining
<1>18. CASE HandlePubrec
  <2>1. PICK p : /\ Reads(p)
                 /\ \/ UNCHANGED <<store, toBroker>>
                    \/ /\ store' = store \cup {File("sc", p.id, none)}
                       /\ \E i \in Waiting(p.id, "PUBREC"), rc \in Results :
                             Socket_putdatas(Packet("PUBREL", p.id, outbound[i].job), rc)
                 /\ UNCHANGED <<sent, delivered, inbound>>
    BY <1>18 DEF HandlePubrec, brokerVars
  <2>2. p.id \in Nat
    BY <2>1, ReadsTyped
  <2>3. Recs' \subseteq Recs
    <3>1. ASSUME NEW i \in Waiting(p.id, "PUBREC"), NEW rc \in Results,
                 Socket_putdatas(Packet("PUBREL", p.id, outbound[i].job), rc)
          PROVE  Recs' \subseteq Recs
      <4>1. outbound[i] \in Messages
        BY LenProperties DEF Waiting, TypeInv, QueueTypes
      <4>2. outbound[i].job \in Jobs
        BY <4>1 DEF Messages
      <4> DEFINE r == Packet("PUBREL", p.id, outbound[i].job)
      <4>3. r \in Packets /\ r.type # "PUBREC"
        BY <2>2, <4>2, SentTyped DEF PacketTypes, Packet
      <4> HIDE DEF r
      <4>4. Socket_putdatas(r, rc)
        BY <3>1 DEF r
      <4> QED
        BY <4>3, <4>4, NoRec
    <3> QED
      BY <2>1, <3>1, NoRec
  <2>4. Kept' \subseteq Kept
    BY <2>1, KeptShrinks DEF FilesOf, File
  <2> QED
    BY <1>0, <1>1, <2>1, <2>3, <2>4, Remaining
<1>19. CASE KeepAlive
  <2>1. /\ UNCHANGED <<sent, delivered, inbound, store, toClient>>
        /\ \/ \E rc \in Results : Socket_putdatas(Packet("PINGREQ", 0, none), rc)
           \/ UNCHANGED toBroker
    BY <1>19 DEF KeepAlive, brokerVars
  <2>2. Packet("PINGREQ", 0, none) \in Packets /\ Packet("PINGREQ", 0, none).type # "PUBREC"
    BY ClientPackets DEF Packet
  <2>3. Recs' \subseteq Recs
    BY <2>1, <2>2, NoRec
  <2>4. Kept' \subseteq Kept
    BY <2>1, KeptShrinks DEF FilesOf
  <2> QED
    BY <1>0, <1>1, <2>1, <2>3, <2>4, Remaining
<1>20. CASE Dies
  <2>1. UNCHANGED <<sent, delivered, store, toBroker>> /\ inbound' = {} /\ toClient' = <<>>
    BY <1>20 DEF Dies, brokerVars
  <2>2. Recs' \subseteq Recs
    BY <2>1, NoRec
  <2>3. Kept' \subseteq Kept
    BY <2>1, KeptShrinks DEF FilesOf
  <2> QED
    BY <1>0, <1>1, <2>1, <2>2, <2>3, Remaining
<1>21. CASE Restart
  <2>1. /\ UNCHANGED <<sent, delivered, store, toBroker, toClient>>
        /\ inbound' = {[id |-> f.id, about |-> f.about] : f \in FilesOf("r")}
    BY <1>21 DEF Restart, restore, brokerVars, sockVars
  <2>2. Recs' \subseteq Recs
    BY <2>1, NoRec
  <2>3. Kept' \subseteq Kept
    BY <2>1 DEF Kept, FilesOf
  <2> QED
    BY <1>0, <1>1, <2>1, <2>2, <2>3, Remaining
<1>22. CASE BrokerDrops \/ NetworkBreaks
  <2>1. /\ UNCHANGED <<sent, delivered, inbound, store>>
        /\ UNCHANGED toBroker \/ toBroker' = <<>>
        /\ UNCHANGED toClient \/ toClient' = <<>>
    BY <1>22 DEF BrokerDrops, NetworkBreaks, Breaks, queueVars, brokerVars
  <2>2. Recs' \subseteq Recs
    BY <2>1, NoRec
  <2>3. Kept' \subseteq Kept
    BY <2>1, KeptShrinks DEF FilesOf
  <2> QED
    BY <1>0, <1>1, <2>1, <2>2, <2>3, Remaining
<1>23. CASE TakeCommand
  <2>1. UNCHANGED <<sent, delivered, inbound, toBroker, toClient>> /\ store' \subseteq store
    BY <1>23 DEF TakeCommand, Unpersisted, brokerVars, sockVars
  <2>2. Recs' \subseteq Recs
    BY <2>1, NoRec
  <2>3. Kept' \subseteq Kept
    BY <2>1, KeptShrinks DEF FilesOf
  <2> QED
    BY <1>0, <1>1, <2>1, <2>2, <2>3, Remaining
<1> QED
  BY <1>3, <1>6, <1>7, <1>8, <1>9, <1>10, <1>11, <1>12, <1>13, <1>14, <1>15, <1>16, <1>17, <1>18, <1>19, <1>20, <1>21,
     <1>22, <1>23 DEF Quiet, SendThread

(* A packet is read that hands a message over. *)
LEMMA ReadsMessage ==
    ASSUME TypeInv, InboundInv, NEW p, Reads(p), p.type \in InboundTypes
    PROVE  /\ p \in Packets /\ p.id = p.about /\ p.about \in Inbound /\ p.about \in Nat
           /\ toClient \in Seq(Packets) /\ 1 \in DOMAIN toClient /\ p = toClient[1]
           /\ FromBroker(1)
           /\ At(toClient, 1, {p.type}, p.about)
<1>1. p \in Packets /\ p.about \in Nat /\ toClient # <<>> /\ p = toClient[1]
  BY ReadsTyped
<1>2. toClient \in Seq(Packets) /\ Len(toClient) \in Nat \ {0} /\ DOMAIN toClient = 1 .. Len(toClient)
  BY <1>1, SeqFacts, LenProperties DEF TypeInv, BrokerTypes
<1>3. 1 \in DOMAIN toClient
  BY <1>2
<1>4. FromBroker(1)
  BY <1>2, Remaining
<1> QED
  BY <1>1, <1>2, <1>3, <1>4 DEF InboundInv, AboutMessage, At

(* An answer is written. *)
LEMMA AnswerOffered ==
    ASSUME TypeInv, NEW type \in {"PUBACK", "PUBREC", "PUBCOMP"}, NEW id \in Nat, NEW about \in Nat,
           NEW rc \in Results, Socket_putdatas(Packet(type, id, about), rc)
    PROVE  Recs' \subseteq IF type = "PUBREC" THEN Recs \cup {Packet(type, id, about)} ELSE Recs
<1> DEFINE r == Packet(type, id, about)
<1>1. r \in Packets /\ r.type = type
  BY SentTyped DEF PacketTypes, Packet
<1> HIDE DEF r
<1>2. Offered' \subseteq Offered \cup {r}
  BY <1>1, OfferedPut DEF TypeInv, r
<1>3. Recs' \subseteq IF type = "PUBREC" THEN Recs \cup {r} ELSE Recs
  BY <1>1, <1>2 DEF Recs
<1> QED
  BY <1>3 DEF r

(* What a packet that is read leaves to be read. *)
LEMMA AtAfterRead ==
    ASSUME toClient' \in Seq(Packets), FromBroker(1)
    PROVE  /\ \A i \in DOMAIN toClient' : i \in Nat \ {0}
           /\ \A types \in SUBSET InboundTypes, m \in Inbound, i \in DOMAIN toClient' :
                 At(toClient', i, types, m) => i + 1 \in DOMAIN toClient /\ At(toClient, i + 1, types, m)
<1>1. \A i \in DOMAIN toClient' : i \in Nat \ {0}
  BY LenProperties
<1> QED
  BY <1>1 DEF FromBroker, At

(* A message at QoS 1 is delivered when it is read. *)
LEMMA Publish1Inbound ==
    ASSUME TypeInv, toClient' \in Seq(Packets), InboundInv, HandlePublish1
    PROVE  InboundInv'
<1>1. PICK p \in ToSet(toClient), rc \in Results :
               /\ Reads(p)
               /\ p.type = "PUBLISH1"
               /\ Socket_putdatas(Packet("PUBACK", p.id, p.about), rc)
               /\ processPublication(p.about)
               /\ UNCHANGED <<sent, inbound, store>>
  BY DEF HandlePublish1, queueVars, brokerVars
<1> DEFINE m == p.about
<1>2. /\ p \in Packets /\ p.id = m /\ m \in Inbound /\ m \in Nat
      /\ toClient \in Seq(Packets) /\ 1 \in DOMAIN toClient
      /\ FromBroker(1)
      /\ At(toClient, 1, {"PUBLISH1"}, m)
  BY <1>1, ReadsMessage DEF InboundTypes
<1>3. Recs' \subseteq Recs
  BY <1>1, <1>2, AnswerOffered
<1>4. Kept' = Kept
  BY <1>1 DEF Kept, FilesOf
<1> HIDE DEF m
<1>5. /\ \A i \in DOMAIN toClient' : i \in Nat \ {0}
      /\ \A types \in SUBSET InboundTypes, n \in Inbound, i \in DOMAIN toClient' :
            At(toClient', i, types, n) => i + 1 \in DOMAIN toClient /\ At(toClient, i + 1, types, n)
  BY <1>2, AtAfterRead
<1>6. \A n \in Inbound : Second(n)' => Second(n)
  <2> SUFFICES ASSUME NEW n \in Inbound, Second(n)' PROVE Second(n)
    OBVIOUS
  <2>1. ASSUME NEW i \in DOMAIN toClient', At(toClient', i, {"PUBLISH2"} \cup Releases, n) PROVE Second(n)
    BY <1>5, <2>1, TypesOfMessages DEF Second
  <2> QED
    BY <1>3, <1>4, <2>1 DEF Second
<1>7. MessageInv(m)'
  <2>1. /\ delivered[m] = 0
        /\ ~Second(m)
        /\ sent[m] \in {"sent1", "done"}
        /\ \A k \in DOMAIN toClient : At(toClient, k, {"PUBLISH1"}, m) => k = 1
    BY <1>2 DEF InboundInv, MessageInv
  <2>2. delivered'[m] = 1 /\ sent' = sent
    BY <1>1, <1>2, <2>1 DEF processPublication, TypeInv, BrokerTypes, m
  <2>3. ~Second(m)'
    BY <1>2, <1>6, <2>1
  <2>4. ASSUME NEW i \in DOMAIN toClient' PROVE ~At(toClient', i, {"PUBLISH1"}, m)
    <3> SUFFICES ASSUME At(toClient', i, {"PUBLISH1"}, m) PROVE FALSE
      OBVIOUS
    <3>1. i + 1 \in DOMAIN toClient /\ At(toClient, i + 1, {"PUBLISH1"}, m)
      BY <1>2, <1>5, TypesOfMessages
    <3>2. i + 1 = 1
      BY <2>1, <3>1
    <3> QED
      BY <1>5, <3>2
  <2>5. ASSUME NEW i \in DOMAIN toClient'
        PROVE  /\ ~At(toClient', i, {"PUBLISH2"}, m)
               /\ ~At(toClient', i, Releases, m)
    BY <2>3 DEF Second, At
  <2>6. ASSUME NEW i \in DOMAIN toClient' PROVE ~At(toClient', i, {"PUBLISH1", "PUBLISH2"}, m)
    BY <2>4, <2>5 DEF At
  <2>7. Message(m) \notin Kept'
    BY <2>3 DEF Second, Message
  <2> QED
    BY <2>1, <2>2, <2>3, <2>4, <2>5, <2>6, <2>7 DEF MessageInv, Message
<1>8. ASSUME NEW n \in Inbound, n # m PROVE MessageInv(n)'
  <2>1. delivered'[n] = delivered[n]
    BY <1>1, <1>2, <1>8 DEF processPublication, TypeInv, BrokerTypes, m
  <2>2. QuietFor(n, 1)
    BY <1>1, <1>2, <1>3, <1>4, <2>1 DEF QuietFor, FromBroker
  <2> QED
    BY <2>2, MessageQuiet DEF InboundInv
<1>9. \A i \in DOMAIN toClient' : toClient'[i].type \in InboundTypes => AboutMessage(toClient'[i])
  BY <1>2 DEF FromBroker, InboundInv
<1> QED
  BY <1>3, <1>4, <1>7, <1>8, <1>9 DEF InboundInv, AboutMessage

(* A message at QoS 2 is kept when it is read. *)
LEMMA Publish2Inbound ==
    ASSUME TypeInv, toClient' \in Seq(Packets), InboundInv, HandlePublish2
    PROVE  InboundInv'
<1>1. PICK p \in ToSet(toClient), rc \in Results :
               /\ Reads(p)
               /\ p.type = "PUBLISH2"
               /\ Socket_putdatas(Packet("PUBREC", p.id, p.about), rc)
               /\ inbound' = (inbound \ {x \in inbound : x.id = p.id}) \cup {[id |-> p.id, about |-> p.about]}
               /\ store' = Put(store, File("r", p.id, p.about))
               /\ UNCHANGED <<sent, delivered>>
  BY DEF HandlePublish2, brokerVars
<1> DEFINE m == p.about
<1>2. /\ p \in Packets /\ p.id = m /\ m \in Inbound /\ m \in Nat
      /\ toClient \in Seq(Packets) /\ 1 \in DOMAIN toClient
      /\ FromBroker(1)
      /\ At(toClient, 1, {"PUBLISH2"}, m)
  BY <1>1, ReadsMessage DEF InboundTypes
<1>3. Recs' \subseteq Recs \cup {Packet("PUBREC", m, m)}
  BY <1>1, <1>2, AnswerOffered
<1>4. Kept' \subseteq Kept \cup {Message(m)}
  <2>1. inbound' \subseteq inbound \cup {Message(m)}
    BY <1>1, <1>2 DEF Message
  <2>2. FilesOf("r")' \subseteq FilesOf("r") \cup {File("r", m, m)}
    BY <1>1, <1>2 DEF FilesOf, Put
  <2>3. [id |-> File("r", m, m).id, about |-> File("r", m, m).about] = Message(m)
    BY DEF File, Message
  <2> QED
    BY <2>1, <2>2, <2>3 DEF Kept
<1>5. AboutMessage(Packet("PUBREC", m, m)) /\ AboutMessage(Message(m))
  BY <1>2 DEF AboutMessage, Packet, Message
<1> HIDE DEF m
<1>6. /\ \A i \in DOMAIN toClient' : i \in Nat \ {0}
      /\ \A types \in SUBSET InboundTypes, n \in Inbound, i \in DOMAIN toClient' :
            At(toClient', i, types, n) => i + 1 \in DOMAIN toClient /\ At(toClient, i + 1, types, n)
  BY <1>2, AtAfterRead
<1>7. MessageInv(m)'
  <2>1. MessageInv(m)
    BY <1>2 DEF InboundInv
  <2>2. Second(m)
    BY <1>2 DEF Second, At
  <2>3. sent[m] \in {"sent2", "released", "done"} /\ \A i \in DOMAIN toClient : ~At(toClient, i, {"PUBLISH1"}, m)
    BY <2>1, <2>2 DEF MessageInv
  <2>4. delivered[m] = 0
    BY <1>2, <2>1 DEF MessageInv, At
  <2>5. ASSUME NEW i \in DOMAIN toClient' PROVE ~At(toClient', i, {"PUBLISH1"}, m)
    BY <1>2, <1>6, <2>3, TypesOfMessages
  <2>6. ASSUME NEW i \in DOMAIN toClient', At(toClient', i, Releases, m)
        PROVE  /\ sent'[m] \in {"released", "done"}
               /\ \A k \in DOMAIN toClient' : k > i => ~At(toClient', k, {"PUBLISH2"}, m)
    <3>1. i + 1 \in DOMAIN toClient /\ At(toClient, i + 1, Releases, m)
      BY <1>2, <1>6, <2>6, TypesOfMessages
    <3>2. sent[m] \in {"released", "done"}
      BY <2>1, <3>1 DEF MessageInv
    <3>3. ASSUME NEW k \in DOMAIN toClient', k > i, At(toClient', k, {"PUBLISH2"}, m) PROVE FALSE
      <4>1. k + 1 \in DOMAIN toClient /\ At(toClient, k + 1, {"PUBLISH2"}, m)
        BY <1>2, <1>6, <3>3, TypesOfMessages
      <4>2. k + 1 > i + 1
        BY <1>6, <3>3
      <4> QED
        BY <2>1, <3>1, <4>1, <4>2 DEF MessageInv
    <3> QED
      BY <1>1, <3>2, <3>3
  <2> QED
    BY <1>1, <2>3, <2>4, <2>5, <2>6 DEF MessageInv
<1>8. ASSUME NEW n \in Inbound, n # m PROVE MessageInv(n)'
  <2>1. Packet("PUBREC", n, n) # Packet("PUBREC", m, m) /\ Message(n) # Message(m)
    BY <1>8 DEF Packet, Message
  <2>2. QuietFor(n, 1)
    BY <1>1, <1>2, <1>3, <1>4, <2>1 DEF QuietFor, FromBroker
  <2> QED
    BY <2>2, MessageQuiet DEF InboundInv
<1>9. \A i \in DOMAIN toClient' : toClient'[i].type \in InboundTypes => AboutMessage(toClient'[i])
  BY <1>2 DEF FromBroker, InboundInv
<1> QED
  BY <1>3, <1>4, <1>5, <1>7, <1>8, <1>9 DEF InboundInv, AboutMessage

(* A message at QoS 2 is delivered and forgotten when it is released. *)
LEMMA PubrelInbound ==
    ASSUME TypeInv, toClient' \in Seq(Packets), InboundInv, HandlePubrel
    PROVE  InboundInv'
<1>1. PICK p \in ToSet(toClient), rc \in Results :
               /\ Reads(p)
               /\ p.type \in {"PUBREL", "PUBREL_DUP"}
               /\ \/ \E x \in inbound :
                        /\ x.id = p.id
                        /\ Socket_putdatas(Packet("PUBCOMP", p.id, x.about), rc)
                        /\ processPublication(x.about)
                        /\ inbound' = inbound \ {x}
                        /\ store' = Removed({"r"}, p.id)
                  \/ /\ \/ Socket_putdatas(Packet("PUBCOMP", p.id, p.about), rc)
                        \/ UNCHANGED toBroker
                     /\ UNCHANGED <<delivered, inbound, store>>
               /\ UNCHANGED sent
  BY DEF HandlePubrel, brokerVars
<1> DEFINE m == p.about
<1>2. /\ p \in Packets /\ p.id = m /\ m \in Inbound /\ m \in Nat
      /\ toClient \in Seq(Packets) /\ 1 \in DOMAIN toClient
      /\ FromBroker(1)
      /\ At(toClient, 1, Releases, m)
  BY <1>1, ReadsMessage DEF InboundTypes, Releases, At
<1>3. CASE /\ \/ Socket_putdatas(Packet("PUBCOMP", p.id, p.about), rc)
              \/ UNCHANGED toBroker
           /\ UNCHANGED <<delivered, inbound, store>>
  <2>1. Recs' \subseteq Recs
    <3>1. CASE Socket_putdatas(Packet("PUBCOMP", p.id, p.about), rc)
      BY <1>2, <3>1, AnswerOffered
    <3>2. CASE UNCHANGED toBroker
      BY <3>2 DEF Recs, Offered
    <3> QED
      BY <1>3, <3>1, <3>2
  <2>2. Kept' \subseteq Kept
    BY <1>3, KeptShrinks DEF FilesOf
  <2>3. QuietStep
    BY <1>1, <1>2, <1>3, <2>1, <2>2 DEF QuietStep
  <2> QED
    BY <1>2, <2>3, InboundQuiet
<1>4. ASSUME NEW x \in inbound,
             x.id = p.id,
             Socket_putdatas(Packet("PUBCOMP", p.id, x.about), rc),
             processPublication(x.about),
             inbound' = inbound \ {x},
             store' = Removed({"r"}, p.id)
      PROVE  InboundInv'
  <2>1. x \in [id : Nat, about : Nat] /\ AboutMessage(x) /\ x \in Kept
    BY DEF TypeInv, QueueTypes, InboundInv, Kept
  <2>2. x = Message(m) /\ x.about = m
    BY <1>2, <1>4, <2>1 DEF AboutMessage, Message
  <2>3. Recs' \subseteq Recs
    BY <1>2, <1>4, <2>2, AnswerOffered
  <2>4. Kept' \subseteq Kept
    BY <1>4, KeptShrinks DEF FilesOf, Removed
  <2>5. Message(m) \notin Kept'
    <3>1. \A f \in FilesOf("r")' : f.id # m
      BY <1>2, <1>4 DEF FilesOf, Removed
    <3>2. Message(m) \notin inbound'
      BY <1>4, <2>2
    <3> QED
      BY <3>1, <3>2 DEF Kept, Message
  <2> HIDE DEF m
  <2>6. /\ \A i \in DOMAIN toClient' : i \in Nat \ {0}
        /\ \A types \in SUBSET InboundTypes, n \in Inbound, i \in DOMAIN toClient' :
              At(toClient', i, types, n) => i + 1 \in DOMAIN toClient /\ At(toClient, i + 1, types, n)
    BY <1>2, AtAfterRead
  <2>7. MessageInv(m)'
    <3>1. MessageInv(m) /\ Message(m) \in Kept /\ Second(m)
      BY <1>2, <2>1, <2>2 DEF InboundInv, Second
    <3>2. /\ delivered[m] = 0
          /\ sent[m] \in {"released", "done"}
          /\ \A k \in DOMAIN toClient : k > 1 => ~At(toClient, k, {"PUBLISH2"}, m)
          /\ \A k \in DOMAIN toClient : ~At(toClient, k, {"PUBLISH1"}, m)
      BY <1>2, <3>1 DEF MessageInv
    <3>3. delivered'[m] = 1 /\ sent' = sent
      BY <1>1, <1>2, <1>4, <2>2, <3>2 DEF processPublication, TypeInv, BrokerTypes
    <3>4. ASSUME NEW i \in DOMAIN toClient'
          PROVE  ~At(toClient', i, {"PUBLISH1"}, m) /\ ~At(toClient', i, {"PUBLISH2"}, m)
      <4>1. i + 1 > 1
        BY <2>6
      <4> QED
        BY <1>2, <2>6, <3>2, <4>1, TypesOfMessages
    <3>5. ASSUME NEW i \in DOMAIN toClient' PROVE ~At(toClient', i, {"PUBLISH1", "PUBLISH2"}, m)
      BY <3>4 DEF At
    <3> QED
      BY <2>5, <3>2, <3>3, <3>4, <3>5 DEF MessageInv, Message
  <2>8. ASSUME NEW n \in Inbound, n # m PROVE MessageInv(n)'
    <3>1. delivered'[n] = delivered[n]
      BY <1>2, <1>4, <2>2, <2>8 DEF processPublication, TypeInv, BrokerTypes
    <3>2. QuietFor(n, 1)
      BY <1>1, <1>2, <2>3, <2>4, <3>1 DEF QuietFor, FromBroker
    <3> QED
      BY <3>2, MessageQuiet DEF InboundInv
  <2>9. \A i \in DOMAIN toClient' : toClient'[i].type \in InboundTypes => AboutMessage(toClient'[i])
    BY <1>2 DEF FromBroker, InboundInv
  <2> QED
    BY <2>3, <2>4, <2>7, <2>8, <2>9 DEF InboundInv, AboutMessage
<1> QED
  BY <1>1, <1>3, <1>4

(* The positions of the packets after one was appended. *)
LEMMA AtAppended ==
    ASSUME toClient \in Seq(Packets), NEW r \in Packets, toClient' = Append(toClient, r)
    PROVE  /\ \A i \in DOMAIN toClient : i \in DOMAIN toClient' /\ toClient'[i] = toClient[i]
           /\ \A i \in DOMAIN toClient' :
                 /\ i \in Nat
                 /\ \/ i \in DOMAIN toClient
                    \/ i \notin DOMAIN toClient /\ toClient'[i] = r /\ \A k \in DOMAIN toClient' : k <= i
           /\ toClient' \in Seq(Packets)
<1>1. /\ toClient' \in Seq(Packets)
      /\ Len(toClient') = Len(toClient) + 1
      /\ \A i \in 1 .. Len(toClient) : toClient'[i] = toClient[i]
      /\ toClient'[Len(toClient) + 1] = r
  BY AppendFacts
<1>2. DOMAIN toClient' = 1 .. Len(toClient) + 1 /\ DOMAIN toClient = 1 .. Len(toClient) /\ Len(toClient) \in Nat
  BY <1>1, LenProperties
<1> QED
  BY <1>1, <1>2

(* A step that sends or repeats a packet of message m. *)
LEMMA MessageSent ==
    ASSUME toClient \in Seq(Packets), NEW m \in Inbound, MessageInv(m), NEW type \in InboundTypes,
           Packet(type, m, m) \in Packets,
           UNCHANGED toClient \/ toClient' = Append(toClient, Packet(type, m, m)),
           delivered'[m] = delivered[m],
           Recs' \subseteq Recs,
           Kept' \subseteq Kept,
           \/ type = "PUBLISH1" /\ sent[m] = "unsent" /\ sent'[m] = "sent1"
           \/ type = "PUBLISH2" /\ sent[m] \in {"unsent", "sent2"} /\ sent'[m] = "sent2"
           \/ type \in Releases /\ (Second(m) \/ sent[m] = "released") /\ sent'[m] \in {"released", "done"}
    PROVE  MessageInv(m)'
<1> DEFINE r == Packet(type, m, m)
           Newest(i) == i \notin DOMAIN toClient /\ \A k \in DOMAIN toClient' : k <= i
<1>1. r \in Packets /\ r.type = type
  BY DEF Packet
<1> HIDE DEF r
<1>2. \A i \in DOMAIN toClient : i \in Nat
  BY LenProperties
<1>3. \A types \in SUBSET InboundTypes, i \in DOMAIN toClient' :
          /\ i \in Nat
          /\ At(toClient', i, types, m) =>
                \/ i \in DOMAIN toClient /\ At(toClient, i, types, m)
                \/ type \in types /\ Newest(i)
  <2>1. CASE UNCHANGED toClient
    BY <1>2, <2>1 DEF At
  <2>2. CASE toClient' = Append(toClient, r)
    BY <1>1, <2>2, AtAppended DEF At
  <2> QED
    BY <2>1, <2>2 DEF r
<1> HIDE DEF Newest
<1>4. Second(m)' => Second(m) \/ type \in {"PUBLISH2"} \cup Releases
  <2>1. ASSUME NEW i \in DOMAIN toClient', At(toClient', i, {"PUBLISH2"} \cup Releases, m)
        PROVE  Second(m) \/ type \in {"PUBLISH2"} \cup Releases
    BY <1>3, TypesOfMessages, <2>1 DEF Second
  <2> QED
    BY <2>1 DEF Second
<1>5. /\ sent[m] = "unsent" => delivered[m] = 0 /\ ~Second(m)
      /\ Second(m) => \A i \in DOMAIN toClient : ~At(toClient, i, {"PUBLISH1"}, m)
      /\ sent[m] \in {"unsent", "sent2", "released"} => \A i \in DOMAIN toClient : ~At(toClient, i, {"PUBLISH1"}, m)
      /\ sent[m] \in {"unsent", "sent2"} => \A i \in DOMAIN toClient : ~At(toClient, i, Releases, m)
      /\ sent[m] \in {"unsent", "sent2"} => delivered[m] = 0
  BY DEF MessageInv
<1>6. \A i \in DOMAIN toClient : ~At(toClient, i, {"PUBLISH1"}, m)
  BY <1>5
<1>7. /\ \A x \in Releases : x \notin {"PUBLISH1"} /\ x \notin {"PUBLISH2"} /\ x \notin {"PUBLISH1", "PUBLISH2"}
      /\ "PUBLISH1" \notin Releases /\ "PUBLISH2" \notin Releases
  BY DEF Releases
<1>8. CASE type = "PUBLISH1"
  <2>1. sent[m] = "unsent" /\ sent'[m] = "sent1"
    BY <1>7, <1>8
  <2>2. delivered'[m] = 0 /\ ~Second(m)'
    BY <1>4, <1>5, <1>7, <1>8, <2>1
  <2>3. \A i \in DOMAIN toClient' : At(toClient', i, {"PUBLISH1"}, m) => Newest(i)
    BY <1>3, <1>6, TypesOfMessages
  <2>4. ASSUME NEW i \in DOMAIN toClient', NEW k \in DOMAIN toClient',
               At(toClient', i, {"PUBLISH1"}, m), At(toClient', k, {"PUBLISH1"}, m)
        PROVE  k = i
    <3>1. k <= i /\ i <= k
      BY <2>3, <2>4 DEF Newest
    <3>2. i \in Nat /\ k \in Nat
      BY <1>3, TypesOfMessages
    <3> QED
      BY <3>1, <3>2
  <2>5. \A i \in DOMAIN toClient' : ~At(toClient', i, Releases, m)
    BY <2>2 DEF Second, At
  <2> QED
    BY <2>1, <2>2, <2>4, <2>5 DEF MessageInv
<1>9. ASSUME type # "PUBLISH1"
      PROVE  \A i \in DOMAIN toClient' : ~At(toClient', i, {"PUBLISH1"}, m)
  BY <1>3, <1>6, <1>9, TypesOfMessages
<1>10. CASE type = "PUBLISH2"
  <2>1. sent[m] \in {"unsent", "sent2"} /\ sent'[m] = "sent2"
    BY <1>7, <1>10
  <2>2. delivered'[m] = 0
    BY <1>5, <2>1
  <2>3. \A i \in DOMAIN toClient' : ~At(toClient', i, Releases, m)
    BY <1>3, <1>5, <1>7, <1>10, <2>1, TypesOfMessages
  <2> QED
    BY <1>9, <1>10, <2>1, <2>2, <2>3 DEF MessageInv
<1>11. CASE type \in Releases
  <2>1. sent'[m] \in {"released", "done"}
    BY <1>7, <1>11
  <2>2. ASSUME NEW types \in SUBSET InboundTypes, type \notin types, NEW i \in DOMAIN toClient',
               At(toClient', i, types, m)
        PROVE  i \in DOMAIN toClient /\ At(toClient, i, types, m)
    BY <1>3, <2>2
  <2>3. ASSUME NEW i \in DOMAIN toClient', At(toClient', i, Releases, m),
               NEW k \in DOMAIN toClient', k > i, At(toClient', k, {"PUBLISH2"}, m)
        PROVE  FALSE
    <3>1. k \in DOMAIN toClient /\ At(toClient, k, {"PUBLISH2"}, m)
      BY <1>7, <1>11, <2>2, <2>3, TypesOfMessages
    <3>2. i \in Nat /\ k \in Nat
      BY <1>3, TypesOfMessages
    <3>3. ~Newest(i)
      BY <2>3, <3>2 DEF Newest
    <3>4. i \in DOMAIN toClient /\ At(toClient, i, Releases, m)
      BY <1>3, <2>3, <3>3, TypesOfMessages
    <3> QED
      BY <2>3, <3>1, <3>4 DEF MessageInv
  <2>4. ASSUME delivered'[m] # 0
        PROVE  /\ delivered'[m] = 1
               /\ Message(m) \notin Kept'
               /\ \A i \in DOMAIN toClient' : ~At(toClient', i, {"PUBLISH1", "PUBLISH2"}, m)
    <3>1. /\ delivered[m] = 1
          /\ Message(m) \notin Kept
          /\ \A i \in DOMAIN toClient : ~At(toClient, i, {"PUBLISH1", "PUBLISH2"}, m)
      BY <2>4 DEF MessageInv
    <3>2. \A i \in DOMAIN toClient' : ~At(toClient', i, {"PUBLISH1", "PUBLISH2"}, m)
      BY <1>7, <1>11, <2>2, <3>1, TypesOfMessages
    <3> QED
      BY <3>1, <3>2
  <2>5. type # "PUBLISH1"
    BY <1>7, <1>11
  <2>6. \A i \in DOMAIN toClient' : ~At(toClient', i, {"PUBLISH1"}, m)
    BY <1>9, <2>5
  <2> QED
    BY <2>1, <2>3, <2>4, <2>6 DEF MessageInv, Message
<1> QED
  BY <1>8, <1>10, <1>11

(* The broker sends a message, or repeats what it has had no answer to. *)
LEMMA BrokerSendsInbound ==
    ASSUME TypeInv, InboundInv, BrokerSends
    PROVE  InboundInv'
<1>1. UNCHANGED <<inbound, store, toBroker, delivered>>
  BY DEF BrokerSends, queueVars
<1>2. PICK m \in Inbound, type \in InboundTypes :
          /\ toClient' = Append(toClient, Packet(type, m, m))
          /\ \/ type = "PUBLISH1" /\ sent[m] = "unsent" /\ sent' = [sent EXCEPT ![m] = "sent1"]
             \/ type = "PUBLISH2" /\ sent[m] = "unsent" /\ sent' = [sent EXCEPT ![m] = "sent2"]
             \/ type = "PUBLISH2" /\ sent[m] = "sent2" /\ sent' = sent
             \/ type = "PUBREL_DUP" /\ sent[m] = "released" /\ sent' = sent
  <2>1. {"PUBLISH1", "PUBLISH2", "PUBREL_DUP"} \subseteq InboundTypes
    BY DEF InboundTypes, Releases
  <2> QED
    BY <2>1 DEF BrokerSends
<1> DEFINE r == Packet(type, m, m)
<1>3. r \in Packets /\ r.about = m /\ AboutMessage(r)
  <2>1. InboundTypes \subseteq PacketTypes
    BY DEF InboundTypes, Releases, PacketTypes
  <2> QED
    BY <2>1, SentTyped DEF Packet, AboutMessage
<1> HIDE DEF r
<1>4. Recs' = Recs /\ Kept' = Kept /\ toClient \in Seq(Packets)
  BY <1>1 DEF Recs, Offered, Kept, FilesOf, TypeInv, BrokerTypes
<1>5. /\ \A i \in DOMAIN toClient' : i \in Nat /\ (i \in DOMAIN toClient \/ toClient'[i] = r)
      /\ \A i \in DOMAIN toClient : toClient'[i] = toClient[i]
      /\ toClient' \in Seq(Packets)
  BY <1>2, <1>3, <1>4, AtAppended DEF r
<1>6. MessageInv(m)'
  <2>1. \/ type = "PUBLISH1" /\ sent[m] = "unsent" /\ sent'[m] = "sent1"
        \/ type = "PUBLISH2" /\ sent[m] \in {"unsent", "sent2"} /\ sent'[m] = "sent2"
        \/ type \in Releases /\ sent[m] = "released" /\ sent'[m] \in {"released", "done"}
    BY <1>2 DEF TypeInv, BrokerTypes, Releases
  <2> QED
    BY <1>1, <1>2, <1>3, <1>4, <2>1, MessageSent DEF InboundInv, r
<1>7. ASSUME NEW n \in Inbound, n # m PROVE MessageInv(n)'
  <2>1. sent'[n] = sent[n]
    BY <1>2, <1>7 DEF TypeInv, BrokerTypes
  <2>2. QuietFor(n, 0)
    <3> SUFFICES ASSUME NEW i \in DOMAIN toClient', toClient'[i].about = n
                 PROVE  i + 0 \in DOMAIN toClient /\ toClient'[i] = toClient[i + 0]
      BY <1>1, <1>4, <2>1 DEF QuietFor
    <3>1. i \in DOMAIN toClient /\ i + 0 = i
      BY <1>3, <1>5, <1>7
    <3> QED
      BY <1>5, <3>1
  <2>3. 0 \in Nat
    OBVIOUS
  <2> QED
    BY <1>5, <2>2, <2>3, MessageQuiet DEF InboundInv
<1>8. \A i \in DOMAIN toClient' : toClient'[i].type \in InboundTypes => AboutMessage(toClient'[i])
  BY <1>3, <1>5 DEF InboundInv
<1> QED
  BY <1>4, <1>6, <1>7, <1>8 DEF InboundInv, AboutMessage

(* The broker reads an answer to a message, or a packet about a job. *)
LEMMA BrokerReadsInbound ==
    ASSUME TypeInv, StreamInv, toClient' \in Seq(Packets), InboundInv, BrokerReads
    PROVE  InboundInv'
<1>0. PICK p : p = Head(toBroker).packet
  OBVIOUS
<1> DEFINE m == p.about
<1>1. Readable /\ toBroker' = AfterReadable /\ UNCHANGED <<inbound, store, delivered, link>>
  BY DEF BrokerReads, queueVars
<1>2. p \in Offered /\ Recs' \subseteq Recs /\ Kept' = Kept /\ toClient \in Seq(Packets)
  BY <1>0, <1>1, OfferedRead, NoRec DEF Kept, FilesOf, TypeInv, BrokerTypes
<1>3. p \in Packets /\ p.id \in Nat /\ m \in Nat
  <2>1. toBroker # <<>> /\ toBroker \in Seq(Pieces)
    BY <1>1, EmptySeq DEF Readable, TypeInv, WireTypes
  <2>2. Head(toBroker) \in Pieces
    BY <2>1, SeqFacts
  <2> QED
    BY <1>0, <2>2 DEF Pieces, Packets
<1>4. ASSUME NEW n \in Inbound, sent'[n] = sent[n], FromBroker(0) PROVE MessageInv(n)'
  <2>1. QuietFor(n, 0) /\ 0 \in Nat
    BY <1>1, <1>2, <1>4 DEF QuietFor, FromBroker
  <2> QED
    BY <1>4, <2>1, MessageQuiet DEF InboundInv
<1>5. ASSUME UNCHANGED sent, NoReply \/ \E r \in Packets : r.type \notin InboundTypes /\ Reply(r)
      PROVE  InboundInv'
  <2>1. FromBroker(0) /\ 0 \in Nat
    BY <1>2, <1>5, Remaining DEF Reply, NoReply
  <2>2. QuietStep
    BY <1>1, <1>2, <1>5, <2>1 DEF QuietStep
  <2> QED
    BY <1>2, <2>2, InboundQuiet
<1>6. CASE p.type = "PUBREC" /\ Reply(Packet("PUBREL", p.id, p.about))
               /\ sent' = [sent EXCEPT ![p.about] = IF @ = "sent2" THEN "released" ELSE @]
  <2>1. p \in Recs
    BY <1>2, <1>6 DEF Recs
  <2>2. m \in Inbound /\ p.id = m
    BY <2>1 DEF InboundInv, AboutMessage
  <2>3. p = Packet("PUBREC", m, m)
    BY <1>3, <1>6, <2>2 DEF Packets, Packet
  <2> DEFINE r == Packet("PUBREL", m, m)
  <2>4. r \in Packets /\ r.about = m /\ AboutMessage(r)
    BY <1>3, <2>2, SentTyped DEF PacketTypes, Packet, AboutMessage
  <2>5. toClient' = toClient \/ toClient' = Append(toClient, r)
    BY <1>6, <2>2 DEF Reply
  <2>6. sent' = [sent EXCEPT ![m] = IF @ = "sent2" THEN "released" ELSE @]
    BY <1>6
  <2>7. Packet("PUBREC", m, m) \in Recs
    BY <2>1, <2>3
  <2> HIDE DEF r, m
  <2>8. Second(m) /\ MessageInv(m)
    BY <2>2, <2>7 DEF Second, InboundInv
  <2>9. MessageInv(m)'
    <3>1. sent[m] \in {"sent2", "released", "done"}
      BY <2>8 DEF MessageInv
    <3>2. sent'[m] \in {"released", "done"}
      BY <2>2, <2>6, <3>1 DEF TypeInv, BrokerTypes
    <3>3. "PUBREL" \in InboundTypes /\ "PUBREL" \in Releases
      BY DEF InboundTypes, Releases
    <3>4. delivered'[m] = delivered[m] /\ Recs' \subseteq Recs /\ Kept' \subseteq Kept
      BY <1>1, <1>2
    <3> QED
      BY <1>2, <2>2, <2>4, <2>5, <2>8, <3>2, <3>3, <3>4, MessageSent DEF r
  <2>10. ASSUME NEW n \in Inbound, n # m PROVE MessageInv(n)'
    <3>1. sent'[n] = sent[n] /\ delivered'[n] = delivered[n]
      BY <1>1, <2>2, <2>6, <2>10 DEF TypeInv, BrokerTypes
    <3>2. ASSUME NEW i \in DOMAIN toClient', toClient'[i].about = n
          PROVE  i + 0 \in DOMAIN toClient /\ toClient'[i] = toClient[i + 0]
      <4>1. CASE toClient' = toClient
        BY <3>2, <4>1, <1>2, LenProperties
      <4>2. CASE toClient' = Append(toClient, r)
        <5>1. i \in Nat /\ i \in DOMAIN toClient /\ toClient'[i] = toClient[i]
          BY <1>2, <2>4, <2>10, <3>2, <4>2, AtAppended
        <5> QED
          BY <5>1
      <4> QED
        BY <2>5, <4>1, <4>2
    <3>3. QuietFor(n, 0) /\ 0 \in Nat
      BY <1>2, <3>1, <3>2 DEF QuietFor
    <3> QED
      BY <3>3, MessageQuiet DEF InboundInv
  <2>11. \A i \in DOMAIN toClient' : toClient'[i].type \in InboundTypes => AboutMessage(toClient'[i])
    <3>1. \A i \in DOMAIN toClient' : (i \in DOMAIN toClient /\ toClient'[i] = toClient[i]) \/ toClient'[i] = r
      BY <1>2, <2>4, <2>5, AtAppended
    <3> QED
      BY <2>4, <3>1 DEF InboundInv
  <2> QED
    BY <1>2, <2>9, <2>10, <2>11 DEF InboundInv, AboutMessage
<1>7. CASE sent' = [sent EXCEPT ![p.about] = "done"] /\ NoReply
  <2>1. toClient' = toClient /\ sent' = [sent EXCEPT ![m] = "done"]
    BY <1>7 DEF NoReply
  <2> HIDE DEF m
  <2>2. ASSUME NEW n \in Inbound PROVE MessageInv(n)'
    <3>1. CASE n # m
      BY <1>2, <1>4, <2>1, <3>1, Remaining DEF TypeInv, BrokerTypes
    <3>2. CASE n = m
      <4>1. sent'[n] = "done" /\ delivered'[n] = delivered[n]
        BY <1>1, <2>1, <3>2 DEF TypeInv, BrokerTypes
      <4>2. Second(n)' => Second(n)
        BY <1>2, <2>1 DEF Second, At
      <4> QED
        BY <1>2, <2>1, <4>1, <4>2 DEF InboundInv, MessageInv, Message
    <3> QED
      BY <3>1, <3>2
  <2> QED
    BY <1>2, <2>1, <2>2 DEF InboundInv, AboutMessage
<1> DEFINE Other == {r \in Packets : r.type \notin InboundTypes}
<1>8. /\ \A answer \in {"CONNACK", "REFUSED"} : Packet(answer, 0, none) \in Other
      /\ Packet("PUBACK", p.id, none) \in Other
      /\ Packet("PUBREC", p.id, none) \in Other
      /\ Packet("PUBCOMP", p.id, none) \in Other
      /\ Packet("SUBACK", p.id, p.about) \in Other
      /\ Packet("SUBACK_BAD", p.id, p.about) \in Other
      /\ Packet("PINGRESP", 0, none) \in Other
  <2> DEFINE Others == {"CONNACK", "REFUSED", "PUBACK", "PUBREC", "PUBCOMP", "SUBACK", "SUBACK_BAD", "PINGRESP"}
  <2>1. \A answer \in Others : answer \in PacketTypes /\ answer \notin InboundTypes
    BY DEF PacketTypes, InboundTypes, Releases
  <2>2. ASSUME NEW type \in Others, NEW id \in Nat, NEW about \in Nat PROVE Packet(type, id, about) \in Other
    <3>1. Packet(type, id, about) \in Packets
      BY <2>1, SentTyped
    <3>2. Packet(type, id, about).type = type
      BY DEF Packet
    <3> QED
      BY <2>1, <3>1, <3>2
  <2>3. 0 \in Nat /\ none \in Nat
    BY DEF none
  <2> HIDE DEF Other
  <2> QED
    BY <1>3, <2>2, <2>3
<1>9. \A r \in Other : r \in Packets /\ r.type \notin InboundTypes
  OBVIOUS
<1> HIDE DEF Other
<1>10. \/ UNCHANGED sent /\ (NoReply \/ \E r \in Other : Reply(r))
       \/ /\ p.type = "PUBREC"
          /\ Reply(Packet("PUBREL", p.id, p.about))
          /\ sent' = [sent EXCEPT ![p.about] = IF @ = "sent2" THEN "released" ELSE @]
       \/ sent' = [sent EXCEPT ![p.about] = "done"] /\ NoReply
  BY <1>0, <1>8, Zenon DEF BrokerReads
<1> QED
  BY <1>5, <1>6, <1>7, <1>9, <1>10

LEMMA InboundInit == Init => InboundInv
<1> SUFFICES ASSUME Init PROVE InboundInv
  OBVIOUS
<1>1. toClient = <<>> /\ toBroker = <<>> /\ inbound = {} /\ store = {}
  BY DEF Init, SocketInit
<1>2. Recs = {} /\ Kept = {}
  BY <1>1 DEF Recs, Offered, Kept, FilesOf
<1>3. ASSUME NEW m \in Inbound PROVE MessageInv(m)
  BY <1>1, <1>2 DEF MessageInv, Second, Init
<1> QED
  BY <1>1, <1>2, <1>3 DEF InboundInv

LEMMA InboundNext == WireInv /\ InboundInv /\ [Next]_vars => InboundInv'
<1>1. ASSUME WireInv, InboundInv, Next PROVE InboundInv'
  <2>1. toClient \in Seq(Packets) /\ toClient' \in Seq(Packets)
    BY <1>1, WireNext DEF WireInv, TypeInv, BrokerTypes
  <2>2. CASE Quiet
    BY <1>1, <2>1, <2>2, QuietNext, InboundQuiet DEF WireInv
  <2>3. CASE HandlePublish1 \/ HandlePublish2 \/ HandlePubrel
    BY <1>1, <2>1, <2>3, Publish1Inbound, Publish2Inbound, PubrelInbound DEF WireInv
  <2>4. CASE BrokerReads \/ BrokerSends
    BY <1>1, <2>1, <2>4, BrokerReadsInbound, BrokerSendsInbound DEF WireInv
  <2> QED
    BY <1>1, <2>2, <2>3, <2>4, Zenon DEF Next, ReceiveThread, Quiet, Crash, WriteCompleteCrashes
<1>2. ASSUME WireInv, InboundInv, UNCHANGED vars PROVE InboundInv'
  <2>1. UNCHANGED <<sent, delivered, toClient, toBroker, inbound, store>>
    BY <1>2 DEF vars, queueVars, brokerVars, sockVars
  <2>2. Recs' = Recs /\ Kept' = Kept /\ toClient \in Seq(Packets)
    BY <1>2, <2>1 DEF Recs, Offered, Kept, FilesOf, WireInv, TypeInv, BrokerTypes
  <2>3. QuietStep
    <3>1. FromBroker(0) /\ 0 \in Nat
      BY <2>1, <2>2, Remaining
    <3> QED
      BY <2>1, <2>2, <3>1 DEF QuietStep
  <2> QED
    BY <1>2, <2>1, <2>2, <2>3, InboundQuiet
<1> QED
  BY <1>1, <1>2

\* The inductive invariant about the messages from the broker: which packets
\* of a message may be under way, and in which order, while it is kept and
\* after it was delivered.
THEOREM PahoInbound == Spec => []InboundInv
BY InboundInit, InboundNext, PahoWire, PTL DEF Spec

\* The application sees each inbound message once, whatever is repeated,
\* broken, crashed or restarted, and however many messages there are
\* (Protocol_processPublication).
THEOREM PahoDeliveredOnce == Spec => []DeliveredOnce
<1>1. InboundInv => DeliveredOnce
  BY DEF InboundInv, MessageInv, DeliveredOnce
<1> QED
  BY <1>1, PahoInbound, PTL

-----------------------------------------------------------------------------
(* Jobs and their tokens.                                                  *)

(* The commands after one was taken, appended or put at the head. *)
LEMMA CommandsTail ==
    ASSUME NEW S, NEW q \in Seq(Entries), q # <<>>
    PROVE  /\ JobsOf(q) = JobsOf(Tail(q)) \cup ({Head(q).job} \ {none})
           /\ DistinctJobs(q, S) => DistinctJobs(Tail(q), S)
           /\ DistinctJobs(q, S) /\ Head(q).job \in S => Head(q).job \notin JobsOf(Tail(q))
<1> DEFINE t == Tail(q)
           n == Len(q)
<1>1. /\ n \in Nat \ {0}
      /\ DOMAIN q = 1 .. n
      /\ Head(q) = q[1]
      /\ t \in Seq(Entries)
      /\ Len(t) = n - 1
      /\ \A i \in 1 .. n - 1 : t[i] = q[i + 1]
  BY SeqFacts, LenProperties
<1>2. DOMAIN t = 1 .. n - 1
  BY <1>1, LenProperties
<1> HIDE DEF t, n
<1>3. \A i \in DOMAIN q : i = 1 \/ (i - 1 \in DOMAIN t /\ q[i] = t[i - 1])
  BY <1>1, <1>2
<1>4. \A i \in DOMAIN t : i \in Nat /\ i + 1 \in DOMAIN q /\ i + 1 # 1 /\ t[i] = q[i + 1]
  BY <1>1, <1>2
<1>5. 1 \in DOMAIN q
  BY <1>1
<1>6. JobsOf(q) = JobsOf(t) \cup ({Head(q).job} \ {none})
  <2>1. JobsOf(q) \subseteq JobsOf(t) \cup ({Head(q).job} \ {none})
    BY <1>1, <1>3 DEF JobsOf
  <2>2. JobsOf(t) \cup ({Head(q).job} \ {none}) \subseteq JobsOf(q)
    BY <1>1, <1>4, <1>5 DEF JobsOf
  <2> QED
    BY <2>1, <2>2
<1>7. ASSUME DistinctJobs(q, S) PROVE DistinctJobs(t, S)
  <2> SUFFICES ASSUME NEW i \in DOMAIN t, NEW k \in DOMAIN t, t[i].job \in S, t[i].job = t[k].job PROVE i = k
    BY DEF DistinctJobs
  <2>1. i + 1 = k + 1
    BY <1>4, <1>7 DEF DistinctJobs
  <2> QED
    BY <1>4, <2>1
<1>8. ASSUME DistinctJobs(q, S), Head(q).job \in S PROVE Head(q).job \notin JobsOf(t)
  <2> SUFFICES ASSUME NEW i \in DOMAIN t, t[i].job = Head(q).job PROVE FALSE
    BY DEF JobsOf
  <2>1. i + 1 = 1
    BY <1>1, <1>4, <1>5, <1>8 DEF DistinctJobs
  <2> QED
    BY <1>4, <2>1
<1> QED
  BY <1>6, <1>7, <1>8 DEF t

LEMMA CommandsAppend ==
    ASSUME NEW S, NEW q \in Seq(Entries), NEW c \in Entries
    PROVE  /\ JobsOf(Append(q, c)) = JobsOf(q) \cup ({c.job} \ {none})
           /\ DistinctJobs(q, S) /\ (c.job \in S => c.job \notin JobsOf(q)) /\ none \notin S
                 => DistinctJobs(Append(q, c), S)
<1> DEFINE t == Append(q, c)
           n == Len(q)
<1>1. /\ n \in Nat
      /\ DOMAIN q = 1 .. n
      /\ t \in Seq(Entries)
      /\ Len(t) = n + 1
      /\ \A i \in 1 .. n : t[i] = q[i]
      /\ t[n + 1] = c
  BY AppendFacts, LenProperties
<1>2. DOMAIN t = 1 .. n + 1
  BY <1>1, LenProperties
<1> HIDE DEF t, n
<1>3. \A i \in DOMAIN t : (i \in DOMAIN q /\ t[i] = q[i]) \/ (i = n + 1 /\ t[i] = c)
  BY <1>1, <1>2
<1>4. \A i \in DOMAIN q : i \in DOMAIN t /\ t[i] = q[i]
  BY <1>1, <1>2
<1>5. n + 1 \in DOMAIN t
  BY <1>1, <1>2
<1>6. JobsOf(t) = JobsOf(q) \cup ({c.job} \ {none})
  <2>1. JobsOf(t) \subseteq JobsOf(q) \cup ({c.job} \ {none})
    BY <1>3 DEF JobsOf
  <2>2. JobsOf(q) \cup ({c.job} \ {none}) \subseteq JobsOf(t)
    BY <1>1, <1>4, <1>5 DEF JobsOf
  <2> QED
    BY <2>1, <2>2
<1>7. ASSUME DistinctJobs(q, S), c.job \in S => c.job \notin JobsOf(q), none \notin S PROVE DistinctJobs(t, S)
  <2> SUFFICES ASSUME NEW i \in DOMAIN t, NEW k \in DOMAIN t, t[i].job \in S, t[i].job = t[k].job PROVE i = k
    BY DEF DistinctJobs
  <2>1. ASSUME NEW l \in DOMAIN q, q[l].job = c.job, c.job \in S PROVE FALSE
    BY <1>7, <2>1 DEF JobsOf
  <2> QED
    BY <1>3, <1>7, <2>1 DEF DistinctJobs
<1> QED
  BY <1>6, <1>7 DEF t

LEMMA CommandsCons ==
    ASSUME NEW S, NEW q \in Seq(Entries), NEW c \in Entries
    PROVE  /\ JobsOf(<<c>> \o q) = JobsOf(q) \cup ({c.job} \ {none})
           /\ DistinctJobs(q, S) /\ c.job \notin S => DistinctJobs(<<c>> \o q, S)
<1> DEFINE t == <<c>> \o q
           n == Len(q)
<1>1. /\ n \in Nat
      /\ DOMAIN q = 1 .. n
      /\ t \in Seq(Entries)
      /\ Len(t) = n + 1
      /\ t[1] = c
      /\ \A i \in 1 .. n : t[i + 1] = q[i]
  <2>1. <<c>> \in Seq(Entries) /\ Len(<<c>>) = 1 /\ <<c>>[1] = c
    OBVIOUS
  <2> DEFINE o == <<c>>
  <2> HIDE DEF o
  <2>2. /\ o \o q \in Seq(Entries)
        /\ Len(o \o q) = Len(o) + Len(q)
        /\ \A i \in 1 .. Len(o) + Len(q) : (o \o q)[i] = IF i <= Len(o) THEN o[i] ELSE q[i - Len(o)]
    BY <2>1, ConcatProperties DEF o
  <2>3. Len(o) = 1 /\ o[1] = c /\ n \in Nat /\ Len(q) = n
    BY <2>1, LenProperties DEF o
  <2> HIDE DEF n
  <2>4. Len(o \o q) = n + 1 /\ \A i \in 1 .. 1 + n : (o \o q)[i] = IF i <= 1 THEN o[i] ELSE q[i - 1]
    BY <2>2, <2>3
  <2>5. ASSUME NEW i \in 1 .. n PROVE (o \o q)[i + 1] = q[i]
    <3>1. i + 1 \in 1 .. 1 + n /\ ~(i + 1 <= 1) /\ (i + 1) - 1 = i
      BY <2>3
    <3> QED
      BY <2>4, <3>1
  <2>6. (o \o q)[1] = c
    <3>1. 1 \in 1 .. 1 + n /\ 1 <= 1
      BY <2>3
    <3> QED
      BY <2>3, <2>4, <3>1
  <2> QED
    BY <2>2, <2>3, <2>4, <2>5, <2>6, LenProperties DEF o, n
<1>2. DOMAIN t = 1 .. n + 1
  BY <1>1, LenProperties
<1> HIDE DEF t, n
<1>3. \A i \in DOMAIN t : (i = 1 /\ t[i] = c) \/ (i - 1 \in DOMAIN q /\ t[i] = q[i - 1])
  <2> SUFFICES ASSUME NEW i \in DOMAIN t, i # 1 PROVE i - 1 \in DOMAIN q /\ t[i] = q[i - 1]
    BY <1>1
  <2>1. i - 1 \in 1 .. n /\ (i - 1) + 1 = i
    BY <1>1, <1>2
  <2> QED
    BY <1>1, <2>1
<1>4. \A i \in DOMAIN q : i + 1 \in DOMAIN t /\ t[i + 1] = q[i]
  BY <1>1, <1>2
<1>5. 1 \in DOMAIN t /\ t[1] = c
  BY <1>1, <1>2
<1>6. JobsOf(t) = JobsOf(q) \cup ({c.job} \ {none})
  <2>1. JobsOf(t) \subseteq JobsOf(q) \cup ({c.job} \ {none})
    BY <1>3 DEF JobsOf
  <2>2. JobsOf(q) \cup ({c.job} \ {none}) \subseteq JobsOf(t)
    BY <1>4, <1>5 DEF JobsOf
  <2> QED
    BY <2>1, <2>2
<1>7. ASSUME DistinctJobs(q, S), c.job \notin S PROVE DistinctJobs(t, S)
  <2> SUFFICES ASSUME NEW i \in DOMAIN t, NEW k \in DOMAIN t, t[i].job \in S, t[i].job = t[k].job PROVE i = k
    BY DEF DistinctJobs
  <2>1. i - 1 \in DOMAIN q /\ k - 1 \in DOMAIN q /\ t[i] = q[i - 1] /\ t[k] = q[k - 1]
    BY <1>3, <1>7
  <2>2. i - 1 = k - 1
    BY <1>7, <2>1 DEF DistinctJobs
  <2>3. i \in Nat /\ k \in Nat
    BY <1>1, <1>2
  <2> QED
    BY <2>2, <2>3
<1> QED
  BY <1>6, <1>7 DEF t

(* The responses after one was added or detached. *)
LEMMA ResponsesTail ==
    ASSUME NEW S, NEW s \in Seq(Jobs), s # <<>>
    PROVE  /\ ToSet(s) = ToSet(Tail(s)) \cup {Head(s)}
           /\ Distinct(s, S) => Distinct(Tail(s), S)
           /\ Distinct(s, S) /\ Head(s) \in S => Head(s) \notin ToSet(Tail(s))
<1> DEFINE t == Tail(s)
           n == Len(s)
<1>1. /\ n \in Nat \ {0}
      /\ DOMAIN s = 1 .. n
      /\ Head(s) = s[1]
      /\ t \in Seq(Jobs)
      /\ Len(t) = n - 1
      /\ \A i \in 1 .. n - 1 : t[i] = s[i + 1]
  BY SeqFacts, LenProperties
<1>2. DOMAIN t = 1 .. n - 1
  BY <1>1, LenProperties
<1> HIDE DEF t, n
<1>3. \A i \in DOMAIN s : i = 1 \/ (i - 1 \in DOMAIN t /\ s[i] = t[i - 1])
  BY <1>1, <1>2
<1>4. \A i \in DOMAIN t : i \in Nat /\ i + 1 \in DOMAIN s /\ i + 1 # 1 /\ t[i] = s[i + 1]
  BY <1>1, <1>2
<1>5. 1 \in DOMAIN s
  BY <1>1
<1>6. ToSet(s) = ToSet(t) \cup {Head(s)}
  <2>1. ToSet(s) \subseteq ToSet(t) \cup {Head(s)}
    BY <1>1, <1>3 DEF ToSet
  <2>2. ToSet(t) \cup {Head(s)} \subseteq ToSet(s)
    BY <1>1, <1>4, <1>5 DEF ToSet
  <2> QED
    BY <2>1, <2>2
<1>7. ASSUME Distinct(s, S) PROVE Distinct(t, S)
  <2> SUFFICES ASSUME NEW i \in DOMAIN t, NEW k \in DOMAIN t, t[i] \in S, t[i] = t[k] PROVE i = k
    BY DEF Distinct
  <2>1. i + 1 = k + 1
    BY <1>4, <1>7 DEF Distinct
  <2> QED
    BY <1>4, <2>1
<1>8. ASSUME Distinct(s, S), Head(s) \in S PROVE Head(s) \notin ToSet(t)
  <2> SUFFICES ASSUME NEW i \in DOMAIN t, t[i] = Head(s) PROVE FALSE
    BY DEF ToSet
  <2>1. i + 1 = 1
    BY <1>1, <1>4, <1>5, <1>8 DEF Distinct
  <2> QED
    BY <1>4, <2>1
<1> QED
  BY <1>6, <1>7, <1>8 DEF t

LEMMA ResponsesAppend ==
    ASSUME NEW S, NEW s \in Seq(Jobs), NEW e \in Jobs
    PROVE  /\ ToSet(Append(s, e)) = ToSet(s) \cup {e}
           /\ Distinct(s, S) /\ (e \in S => e \notin ToSet(s)) => Distinct(Append(s, e), S)
<1> DEFINE t == Append(s, e)
           n == Len(s)
<1>1. /\ n \in Nat
      /\ DOMAIN s = 1 .. n
      /\ t \in Seq(Jobs)
      /\ Len(t) = n + 1
      /\ \A i \in 1 .. n : t[i] = s[i]
      /\ t[n + 1] = e
  BY AppendFacts, LenProperties
<1>2. DOMAIN t = 1 .. n + 1
  BY <1>1, LenProperties
<1> HIDE DEF t, n
<1>3. \A i \in DOMAIN t : (i \in DOMAIN s /\ t[i] = s[i]) \/ (i = n + 1 /\ t[i] = e)
  BY <1>1, <1>2
<1>4. \A i \in DOMAIN s : i \in DOMAIN t /\ t[i] = s[i]
  BY <1>1, <1>2
<1>5. n + 1 \in DOMAIN t
  BY <1>1, <1>2
<1>6. ToSet(t) = ToSet(s) \cup {e}
  <2>1. ToSet(t) \subseteq ToSet(s) \cup {e}
    BY <1>3 DEF ToSet
  <2>2. ToSet(s) \cup {e} \subseteq ToSet(t)
    BY <1>1, <1>4, <1>5 DEF ToSet
  <2> QED
    BY <2>1, <2>2
<1>7. ASSUME Distinct(s, S), e \in S => e \notin ToSet(s) PROVE Distinct(t, S)
  <2> SUFFICES ASSUME NEW i \in DOMAIN t, NEW k \in DOMAIN t, t[i] \in S, t[i] = t[k] PROVE i = k
    BY DEF Distinct
  <2>1. ASSUME NEW l \in DOMAIN s, s[l] = e, e \in S PROVE FALSE
    BY <1>7, <2>1 DEF ToSet
  <2> QED
    BY <1>3, <1>7, <2>1 DEF Distinct
<1> QED
  BY <1>6, <1>7 DEF t

LEMMA ResponsesRemove ==
    ASSUME NEW S, NEW s \in Seq(Jobs), NEW e \in DOMAIN s
    PROVE  /\ ToSet(s) = ToSet(RemoveAt(s, e)) \cup {s[e]}
           /\ Distinct(s, S) => Distinct(RemoveAt(s, e), S)
           /\ Distinct(s, S) /\ s[e] \in S => s[e] \notin ToSet(RemoveAt(s, e))
<1> DEFINE t == RemoveAt(s, e)
           n == Len(s)
           From(l) == IF l < e THEN l ELSE l + 1
<1>1. /\ t \in Seq(Jobs)
      /\ \A k \in DOMAIN s : k # e => \E l \in DOMAIN t : t[l] = s[k]
      /\ \A l \in DOMAIN t : t[l] = IF l < e THEN s[l] ELSE s[l + 1]
      /\ Len(t) = n - 1
  BY RemoveAtFacts
<1>2. DOMAIN t = 1 .. n - 1 /\ n \in Nat /\ DOMAIN s = 1 .. n /\ e \in 1 .. n
  BY <1>1, LenProperties
<1> HIDE DEF t, n
<1>3. \A l \in DOMAIN t : l \in Nat /\ From(l) \in DOMAIN s /\ From(l) # e /\ t[l] = s[From(l)]
  BY <1>1, <1>2
<1>4. \A l \in DOMAIN t : \A k \in DOMAIN t : From(l) = From(k) => l = k
  BY <1>2
<1> HIDE DEF From
<1>5. ToSet(s) = ToSet(t) \cup {s[e]}
  <2>1. ToSet(s) \subseteq ToSet(t) \cup {s[e]}
    BY <1>1 DEF ToSet
  <2>2. ToSet(t) \cup {s[e]} \subseteq ToSet(s)
    BY <1>3 DEF ToSet
  <2> QED
    BY <2>1, <2>2
<1>6. ASSUME Distinct(s, S) PROVE Distinct(t, S)
  <2> SUFFICES ASSUME NEW i \in DOMAIN t, NEW k \in DOMAIN t, t[i] \in S, t[i] = t[k] PROVE i = k
    BY DEF Distinct
  <2>1. From(i) = From(k)
    BY <1>3, <1>6 DEF Distinct
  <2> QED
    BY <1>4, <2>1
<1>7. ASSUME Distinct(s, S), s[e] \in S PROVE s[e] \notin ToSet(t)
  <2> SUFFICES ASSUME NEW l \in DOMAIN t, t[l] = s[e] PROVE FALSE
    BY DEF ToSet
  <2> QED
    BY <1>3, <1>7 DEF Distinct
<1> QED
  BY <1>5, <1>6, <1>7 DEF t

(* Every action is, on the jobs, one of a few steps. *)

\* The queue q without its head if that is a connect or a disconnect, with or
\* without a connect or an internal disconnect put at the head.
Relaid ==
    \E t : /\ \/ t = commands
              \/ commands # <<>> /\ Kind(Head(commands).job) \in {"con", "dis"} /\ t = Tail(commands)
           /\ \/ commands' = t
              \/ \E c \in Entries : c.job = none /\ commands' = <<c>> \o t
              \/ ~connected' /\ \E c \in Entries : c.job \in Calls /\ commands' = <<c>> \o t

\* No publication, subscription or disconnect is queued, sent or told.
Relays ==
    /\ UNCHANGED <<kind, caller, token, crossed, misplaced, responses, processing, stage, pending_write, up>>
    /\ FileJobs' = FileJobs
    /\ connected' = connected \/ (processing = none /\ connected' = FALSE)
    /\ \A j \in Jobs : outcome'[j] = outcome[j]
    /\ Relaid

\* The session ends or begins.
Clears ==
    /\ Locked
    /\ UNCHANGED <<kind, caller, token, crossed, misplaced, processing, stage, pending_write, up>>
    /\ \E q, job : \E what \in {"success", "failure"} :
          /\ cleanSession(q, job, what)
          /\ \/ q = commands /\ job \notin Jobs
             \/ commands # <<>> /\ q = Tail(commands) /\ job = Head(commands).job /\ Kind(job) = "dis"

\* A response may be detached and told.
Replies ==
    /\ HandlePuback \/ ReceiveSuback
    /\ UNCHANGED <<kind, caller, token, crossed, misplaced, commands, processing, stage, pending_write, up,
                   connected>>
    /\ FileJobs' = FileJobs
    /\ \E id : \E what \in {"success", "failure"} : Answered(id, what)

JobStep ==
    \/ Relays
    \/ Clears
    \/ Replies
    \/ \E j \in Calls : Connect(j)
    \/ \E j \in Jobs : (\E k \in Kinds : CheckConnected(j, k)) \/ ReadMsgId(j) \/ AssignMsgId(j) \/ AddCommand(j)
    \/ TakeCommand \/ ProcessPublish0 \/ NotePendingWrite \/ Register \/ ProcessRequest \/ ContinueWrite
    \/ Dies
    \/ Restart

LEMMA AddedFirst ==
    ASSUME NEW c, NEW q, IsFirst(c.job)
    PROVE  Added(c, q) = q \/ Added(c, q) = <<c>> \o q
BY DEF Added

LEMMA JobNext ==
    ASSUME TypeInv, Next
    PROVE  JobStep
<1>1. ASSUME UNCHANGED <<kind, caller, token, crossed, outcome, misplaced, commands, responses, processing, stage,
                         pending_write, up, connected>>,
             FilesOf("c")' = FilesOf("c")
      PROVE  JobStep
  <2>1. FileJobs' = FileJobs
    BY <1>1 DEF FileJobs
  <2>2. Relaid
    BY <1>1 DEF Relaid
  <2> QED
    BY <1>1, <2>1, <2>2 DEF Relays, JobStep
<1>2. ASSUME ConnectFails, Locked,
             UNCHANGED <<kind, caller, token, crossed, misplaced, processing, stage, pending_write, up>>
      PROVE  JobStep
  <2>1. connected' = FALSE
    BY <1>2 DEF ConnectFails, closeOnly, closeSession
  <2>2. connect.job \in Calls \cup {none}
    BY DEF TypeInv, ConnTypes
  <2>3. CASE /\ commands' = Added(Command(connect.job, 4), commands)
             /\ UNCHANGED <<responses, store, outcome>>
    <3> DEFINE c == Command(connect.job, 4)
    <3>1. c \in Entries /\ c.job = connect.job
      BY <2>2, EntryTyped DEF AllJobs, Command
    <3>2. IsFirst(c.job)
      BY <2>2, <3>1 DEF IsFirst, Kind, TypeInv, AppTypes
    <3>3. commands' = commands \/ commands' = <<c>> \o commands
      BY <2>3, <3>2, AddedFirst
    <3> HIDE DEF c
    <3>4. Relaid
      BY <2>1, <2>2, <3>1, <3>3 DEF Relaid
    <3>5. FileJobs' = FileJobs
      BY <2>3 DEF FileJobs, FilesOf
    <3> QED
      BY <1>2, <2>1, <2>3, <3>4, <3>5 DEF Relays, JobStep, Locked
  <2>4. CASE cleanSession(commands, connect.job, "failure")
    <3>1. connect.job \notin Jobs
      BY <2>2, JobsAssumption DEF none
    <3> QED
      BY <1>2, <2>4, <3>1 DEF Clears, JobStep
  <2> QED
    BY <1>2, <2>3, <2>4 DEF ConnectFails, closeSession
<1>3. CASE ApplicationStep
  BY <1>3 DEF ApplicationStep, JobStep
<1>4. CASE TakeCommand \/ ProcessPublish0 \/ NotePendingWrite \/ Register \/ ProcessRequest \/ ContinueWrite
           \/ Restart \/ Crash \/ WriteCompleteCrashes
  BY <1>4 DEF JobStep, Crash, WriteCompleteCrashes
<1>5. CASE ProcessConnect
  <2>1. PICK c \in ToSet(commands) :
            /\ Takes(c)
            /\ Kind(c.job) = "con"
            /\ \/ commands' = Tail(commands) /\ outcome' = outcome
               \/ ~connected /\ commands' = Added(Command(c.job, 4), Tail(commands)) /\ outcome' = outcome
               \/ commands' = Tail(commands) /\ outcome' = Tell(outcome, {c.job}, "failure")
    BY <1>5 DEF ProcessConnect
  <2>2. UNCHANGED <<kind, caller, token, crossed, misplaced, responses, processing, stage, pending_write, up,
                    store, connected>>
    BY <1>5 DEF ProcessConnect, threadVars
  <2>3. c.job \in Calls
    <3>1. c.job \in AllJobs \cup {none}
      BY <2>1, TakesTyped
    <3> QED
      BY <2>1, <3>1 DEF Kind, AllJobs, TypeInv, AppTypes
  <2>4. commands # <<>> /\ c = Head(commands)
    BY <2>1 DEF Takes
  <2>5. Relaid
    <3>1. CASE commands' = Tail(commands)
      BY <2>1, <2>4, <3>1 DEF Relaid
    <3>2. CASE ~connected /\ commands' = Added(Command(c.job, 4), Tail(commands))
      <4> DEFINE d == Command(c.job, 4)
      <4>1. d \in Entries /\ d.job = c.job
        BY <2>3, EntryTyped DEF AllJobs, Command
      <4>2. IsFirst(d.job)
        BY <2>1, <4>1 DEF IsFirst
      <4>3. commands' = Tail(commands) \/ commands' = <<d>> \o Tail(commands)
        BY <3>2, <4>2, AddedFirst
      <4> HIDE DEF d
      <4> QED
        BY <2>1, <2>2, <2>3, <2>4, <3>2, <4>1, <4>3 DEF Relaid
    <3> QED
      BY <2>1, <3>1, <3>2
  <2>6. FileJobs' = FileJobs
    BY <2>2 DEF FileJobs, FilesOf
  <2>7. \A j \in Jobs : outcome'[j] = outcome[j]
    <3>1. \A j \in Jobs : j \in AllJobs /\ j \notin {c.job}
      BY <2>3, JobsAssumption DEF AllJobs
    <3> QED
      BY <2>1, <3>1 DEF Tell
  <2> QED
    BY <2>2, <2>5, <2>6, <2>7 DEF Relays, JobStep
<1>6. CASE ProcessDisconnect
  <2>1. PICK c \in ToSet(commands) :
            /\ Takes(c)
            /\ Kind(c.job) = "dis"
            /\ \/ cleanSession(Tail(commands), c.job, "success")
               \/ commands' = Tail(commands) /\ UNCHANGED <<outcome, responses, store, connected>>
    BY <1>6 DEF ProcessDisconnect, checkDisconnect, closeSession
  <2>2. UNCHANGED <<kind, caller, token, crossed, misplaced, processing, stage, pending_write, up>>
    BY <1>6 DEF ProcessDisconnect, threadVars
  <2>3. commands # <<>> /\ c = Head(commands) /\ Locked
    BY <2>1 DEF Takes
  <2>4. CASE cleanSession(Tail(commands), c.job, "success")
    BY <2>1, <2>2, <2>3, <2>4 DEF Clears, JobStep
  <2>5. CASE commands' = Tail(commands) /\ UNCHANGED <<outcome, responses, store, connected>>
    <3>1. Relaid
      BY <2>1, <2>3, <2>5 DEF Relaid
    <3>2. FileJobs' = FileJobs
      BY <2>5 DEF FileJobs, FilesOf
    <3> QED
      BY <2>2, <2>5, <3>1, <3>2 DEF Relays, JobStep
  <2> QED
    BY <2>1, <2>4, <2>5
<1>7. CASE ConnectTimesOut \/ ConnectBreaks
  BY <1>2, <1>7 DEF ConnectTimesOut, ConnectBreaks, Cycles, threadVars
<1>8. CASE Select \/ NothingToRead \/ Connecting \/ ReadFails \/ HoldPacket \/ HandlePublish1 \/ HandlePingresp
           \/ BrokerReads \/ BrokerSends \/ BrokerDrops \/ NetworkBreaks
  <2>1. UNCHANGED <<kind, caller, token, crossed, outcome, misplaced, commands, responses, processing, stage,
                    pending_write, up, connected, store>>
    BY <1>8 DEF Select, NothingToRead, Connecting, ReadFails, HoldPacket, HandlePublish1, HandlePingresp, BrokerReads,
                BrokerSends, BrokerDrops, NetworkBreaks, appVars, queueVars, connVars, threadVars
  <2>2. FilesOf("c")' = FilesOf("c")
    BY <2>1 DEF FilesOf
  <2> QED
    BY <1>1, <2>1, <2>2
<1>9. CASE HandlePubrec \/ HandlePublish2 \/ HandlePubrel
  <2>1. UNCHANGED <<kind, caller, token, crossed, outcome, misplaced, commands, responses, processing, stage,
                    pending_write, up, connected>>
    BY <1>9 DEF HandlePubrec, HandlePublish2, HandlePubrel, appVars, connVars
  <2>2. \/ store' = store
        \/ \E id : store' = store \cup {File("sc", id, none)}
        \/ \E id, about : store' = Put(store, File("r", id, about))
        \/ \E id : store' = Removed({"r"}, id)
    BY <1>9 DEF HandlePubrec, HandlePublish2, HandlePubrel
  <2>3. FilesOf("c")' = FilesOf("c")
    BY <2>2 DEF FilesOf, Put, Removed, File
  <2> QED
    BY <1>1, <2>1, <2>3
<1>10. CASE AfterFailure \/ KeepAlive
  <2>1. /\ UNCHANGED <<kind, caller, token, crossed, outcome, misplaced, responses, processing, stage,
                       pending_write, up, store>>
        /\ processing = none
        /\ commands' = commands \/ commands' = disconnect_internal
        /\ connected' = connected \/ connected' = FALSE
    BY <1>10 DEF AfterFailure, KeepAlive, closeOnly, appVars, threadVars, Locked
  <2> DEFINE c == Command(none, 0)
  <2>2. c \in Entries /\ c.job = none
    BY EntryTyped DEF Command
  <2>3. commands' = commands \/ commands' = <<c>> \o commands
    BY <2>1, <2>2, AddedFirst DEF disconnect_internal, IsFirst
  <2> HIDE DEF c
  <2>4. Relaid
    BY <2>2, <2>3 DEF Relaid
  <2>5. FileJobs' = FileJobs
    BY <2>1 DEF FileJobs, FilesOf
  <2> QED
    BY <2>1, <2>4, <2>5 DEF Relays, JobStep
<1>11. CASE ReceiveConnack
  <2>1. UNCHANGED <<kind, caller, token, crossed, misplaced, processing, stage, pending_write, up>> /\ Locked
    BY <1>11 DEF ReceiveConnack
  <2>2. CASE UNCHANGED <<outcome, queueVars, connVars, sockVars>>
    <3>1. FilesOf("c")' = FilesOf("c")
      BY <2>2 DEF FilesOf, queueVars
    <3> QED
      BY <1>1, <2>1, <2>2, <3>1 DEF queueVars, connVars
  <2>3. CASE cleanSession(commands, IF connect.armed THEN connect.job ELSE none, "success")
    <3>1. (IF connect.armed THEN connect.job ELSE none) \notin Jobs
      BY JobsAssumption DEF none, TypeInv, ConnTypes
    <3> QED
      BY <2>1, <2>3, <3>1 DEF Clears, JobStep
  <2>4. CASE ConnectFails
    BY <1>2, <2>1, <2>4
  <2> QED
    BY <1>11, <2>2, <2>3, <2>4 DEF ReceiveConnack
<1>12. CASE ReceiveSuback
  <2>1. UNCHANGED <<kind, caller, token, crossed, misplaced, commands, processing, stage, pending_write, up,
                    connected, store>>
    BY <1>12 DEF ReceiveSuback, connVars
  <2>2. UNCHANGED <<responses, outcome>> \/ \E id : \E what \in {"success", "failure"} : Answered(id, what)
    BY <1>12 DEF ReceiveSuback
  <2>3. FilesOf("c")' = FilesOf("c") /\ FileJobs' = FileJobs
    BY <2>1 DEF FilesOf, FileJobs
  <2> QED
    BY <1>1, <1>12, <2>1, <2>2, <2>3 DEF Replies, JobStep
<1>13. CASE HandlePuback
  <2>1. /\ UNCHANGED <<kind, caller, token, crossed, misplaced, commands, processing, stage, pending_write, up,
                       connected>>
        /\ \E id : \E what \in {"success", "failure"} : Answered(id, what)
        /\ store' = store \/ \E id : store' = Removed({"s", "sc"}, id)
    BY <1>13 DEF HandlePuback, connVars
  <2>2. FilesOf("c")' = FilesOf("c")
    BY <2>1 DEF FilesOf, Removed
  <2>3. FileJobs' = FileJobs
    BY <2>2 DEF FileJobs
  <2> QED
    BY <1>13, <2>1, <2>3 DEF Replies, JobStep
<1> QED
  BY <1>3, <1>4, <1>5, <1>6, <1>7, <1>8, <1>9, <1>10, <1>11, <1>12, <1>13 DEF Next, SendThread, ReceiveThread

(* What the steps do to the queues. *)
LEMMA JobsFacts ==
    ASSUME TypeInv
    PROVE  /\ none \notin AllJobs /\ none \notin Jobs /\ Jobs \subseteq AllJobs /\ Calls \subseteq AllJobs
           /\ \A j \in Jobs : j \notin Calls
           /\ FileJobs \subseteq Jobs
           /\ ToSet(responses) \subseteq Jobs
           /\ JobsOf(commands) \subseteq AllJobs
           /\ Acknowledged \subseteq Jobs
<1>1. none \notin AllJobs /\ none \notin Jobs /\ Jobs \subseteq AllJobs /\ Calls \subseteq AllJobs
  BY JobsAssumption DEF none, AllJobs
<1>2. FileJobs \subseteq Jobs
  BY DEF FileJobs, FilesOf, TypeInv, QueueTypes
<1>3. ToSet(responses) \subseteq Jobs
  BY LenProperties DEF ToSet, TypeInv, QueueTypes
<1>4. JobsOf(commands) \subseteq AllJobs
  <2>1. \A i \in DOMAIN commands : commands[i] \in Entries
    BY LenProperties DEF TypeInv, QueueTypes
  <2> QED
    BY <2>1 DEF JobsOf, Entries
<1> QED
  BY <1>1, <1>2, <1>3, <1>4, JobsAssumption DEF Acknowledged

LEMMA RelaidJobs ==
    ASSUME TypeInv, Relaid
    PROVE  /\ Jobs \cap JobsOf(commands') \subseteq JobsOf(commands)
           /\ connected' => JobsOf(commands') \subseteq JobsOf(commands)
           /\ \A j \in Jobs \cap JobsOf(commands) : kind[j] \notin {"con", "dis"} => j \in JobsOf(commands')
           /\ \A S \in SUBSET Jobs : DistinctJobs(commands, S) => DistinctJobs(commands', S)
<1>1. PICK t : /\ \/ t = commands
                  \/ commands # <<>> /\ Kind(Head(commands).job) \in {"con", "dis"} /\ t = Tail(commands)
               /\ \/ commands' = t
                  \/ \E c \in Entries : c.job = none /\ commands' = <<c>> \o t
                  \/ ~connected' /\ \E c \in Entries : c.job \in Calls /\ commands' = <<c>> \o t
  BY DEF Relaid
<1>2. commands \in Seq(Entries)
  BY DEF TypeInv, QueueTypes
<1>3. /\ t \in Seq(Entries)
      /\ JobsOf(t) \subseteq JobsOf(commands)
      /\ \A j \in Jobs \cap JobsOf(commands) : kind[j] \notin {"con", "dis"} => j \in JobsOf(t)
      /\ \A S \in SUBSET Jobs : DistinctJobs(commands, S) => DistinctJobs(t, S)
  <2>1. CASE t = commands
    BY <1>2, <2>1
  <2>2. CASE commands # <<>> /\ Kind(Head(commands).job) \in {"con", "dis"} /\ t = Tail(commands)
    <3>1. t \in Seq(Entries) /\ JobsOf(commands) = JobsOf(t) \cup ({Head(commands).job} \ {none})
      BY <1>2, <2>2, CommandsTail, SeqFacts
    <3>2. \A j \in Jobs : kind[j] \notin {"con", "dis"} => j # Head(commands).job
      BY <2>2, JobsFacts DEF Kind
    <3>3. \A S \in SUBSET Jobs : DistinctJobs(commands, S) => DistinctJobs(t, S)
      BY <1>2, <2>2, CommandsTail
    <3> QED
      BY <3>1, <3>2, <3>3
  <2> QED
    BY <1>1, <2>1, <2>2
<1>4. CASE commands' = t
  BY <1>3, <1>4
<1>5. ASSUME NEW c \in Entries, c.job \in Calls \cup {none}, commands' = <<c>> \o t, c.job = none \/ ~connected'
      PROVE  /\ Jobs \cap JobsOf(commands') \subseteq JobsOf(commands)
             /\ connected' => JobsOf(commands') \subseteq JobsOf(commands)
             /\ \A j \in Jobs \cap JobsOf(commands) : kind[j] \notin {"con", "dis"} => j \in JobsOf(commands')
             /\ \A S \in SUBSET Jobs : DistinctJobs(commands, S) => DistinctJobs(commands', S)
  <2>1. JobsOf(commands') = JobsOf(t) \cup ({c.job} \ {none})
    BY <1>3, <1>5, CommandsCons
  <2>2. c.job \notin Jobs
    BY <1>5, JobsFacts
  <2>3. \A S \in SUBSET Jobs : DistinctJobs(t, S) => DistinctJobs(commands', S)
    BY <1>3, <1>5, <2>2, CommandsCons
  <2> QED
    BY <1>3, <1>5, <2>1, <2>2, <2>3
<1> QED
  BY <1>1, <1>4, <1>5

LEMMA ConnectJobs ==
    ASSUME TypeInv, NEW j \in Calls, Connect(j)
    PROVE  /\ JobsOf(commands') \subseteq JobsOf(commands) \cup {j}
           /\ JobsOf(commands) \subseteq JobsOf(commands')
           /\ \A S \in SUBSET Jobs : DistinctJobs(commands, S) => DistinctJobs(commands', S)
           /\ FileJobs' = FileJobs
<1> DEFINE c == Command(j, 0)
<1>1. c \in Entries /\ c.job = j
  BY EntryTyped DEF AllJobs, Command
<1>2. IsFirst(c.job)
  BY <1>1, JobsFacts DEF IsFirst, Kind, TypeInv, AppTypes
<1>3. commands' = commands \/ commands' = <<c>> \o commands
  BY <1>2, AddedFirst DEF Connect
<1> HIDE DEF c
<1>4. commands \in Seq(Entries) /\ j \notin Jobs
  BY JobsFacts DEF TypeInv, QueueTypes
<1>5. FileJobs' = FileJobs
  BY DEF Connect, FileJobs, FilesOf
<1>6. CASE commands' = commands
  BY <1>5, <1>6
<1>7. CASE commands' = <<c>> \o commands
  <2>1. JobsOf(commands') = JobsOf(commands) \cup ({c.job} \ {none})
    BY <1>1, <1>4, <1>7, CommandsCons
  <2>2. \A S \in SUBSET Jobs : DistinctJobs(commands, S) => DistinctJobs(commands', S)
    BY <1>1, <1>4, <1>7, CommandsCons
  <2> QED
    BY <1>1, <1>5, <2>1, <2>2
<1> QED
  BY <1>3, <1>6, <1>7

LEMMA AddCommandJobs ==
    ASSUME TypeInv, NEW j \in Jobs, AddCommand(j)
    PROVE  /\ JobsOf(commands') = JobsOf(commands) \cup {j}
           /\ \A S \in SUBSET Jobs :
                 DistinctJobs(commands, S) /\ (j \in S => j \notin JobsOf(commands)) => DistinctJobs(commands', S)
           /\ FileJobs' = FileJobs \cup IF kind[j] \in {"con", "dis"} THEN {} ELSE {j}
<1> DEFINE c == Command(j, 0)
<1>1. c \in Entries /\ c.job = j /\ j # none
  BY EntryTyped, JobsFacts DEF Command
<1>2. ~IsFirst(c.job)
  BY <1>1 DEF IsFirst, Kind, TypeInv, AppTypes
<1>3. commands' = Append(commands, c)
  BY <1>2 DEF AddCommand, Added
<1> HIDE DEF c
<1>4. commands \in Seq(Entries)
  BY DEF TypeInv, QueueTypes
<1>5. FileJobs' = FileJobs \cup IF kind[j] \in {"con", "dis"} THEN {} ELSE {j}
  <2>1. store' = store \cup Persisted(j)
    BY DEF AddCommand
  <2>2. CASE kind[j] \in {"con", "dis"}
    BY <2>1, <2>2 DEF Persisted, FileJobs, FilesOf
  <2>3. CASE kind[j] \notin {"con", "dis"}
    <3>1. FilesOf("c")' = FilesOf("c") \cup {File("c", token[j], j)}
      BY <2>1, <2>3 DEF Persisted, FilesOf, File
    <3>2. File("c", token[j], j).about = j
      BY DEF File
    <3> QED
      BY <2>3, <3>1, <3>2 DEF FileJobs
  <2> QED
    BY <2>2, <2>3
<1>6. JobsOf(commands') = JobsOf(commands) \cup {j}
  BY <1>1, <1>3, <1>4, CommandsAppend
<1>7. ASSUME NEW S \in SUBSET Jobs, DistinctJobs(commands, S), j \in S => j \notin JobsOf(commands)
      PROVE  DistinctJobs(commands', S)
  <2>1. none \notin S
    BY JobsFacts
  <2> QED
    BY <1>1, <1>3, <1>4, <1>7, <2>1, CommandsAppend
<1> QED
  BY <1>5, <1>6, <1>7

LEMMA TakesJobs ==
    ASSUME TypeInv, NEW c, Takes(c), Kind(c.job) \notin {"con", "dis"}
    PROVE  /\ c.job \in Jobs /\ kind[c.job] = Kind(c.job) /\ connected /\ up /\ processing = none
           /\ commands \in Seq(Entries) /\ Tail(commands) \in Seq(Entries)
           /\ JobsOf(commands) = JobsOf(Tail(commands)) \cup {c.job}
           /\ \A S \in SUBSET Jobs :
                 DistinctJobs(commands, S) =>
                     DistinctJobs(Tail(commands), S) /\ (c.job \in S => c.job \notin JobsOf(Tail(commands)))
<1>1. c.job \in Jobs /\ kind[c.job] = Kind(c.job)
  BY TakesTyped
<1>2. connected /\ up /\ processing = none /\ commands # <<>> /\ c = Head(commands)
  BY DEF Takes, Locked
<1>3. commands \in Seq(Entries) /\ Tail(commands) \in Seq(Entries)
  BY TakesTyped DEF TypeInv, QueueTypes
<1>4. JobsOf(commands) = JobsOf(Tail(commands)) \cup {c.job}
  <2>1. c.job # none
    BY <1>1, JobsFacts
  <2> QED
    BY <1>2, <1>3, <2>1, CommandsTail
<1>5. \A S \in SUBSET Jobs :
          DistinctJobs(commands, S) =>
              DistinctJobs(Tail(commands), S) /\ (c.job \in S => c.job \notin JobsOf(Tail(commands)))
  BY <1>2, <1>3, CommandsTail
<1> QED
  BY <1>1, <1>2, <1>3, <1>4, <1>5

\* A command leaves the queue and is in the send thread's hands.
CommandTaken(j) ==
    /\ UNCHANGED <<kind, caller, token, outcome, crossed, misplaced, responses, connected, pending_write, up>>
    /\ connected /\ up /\ processing = none
    /\ processing' = j
    /\ stage' = "taken"
    /\ kind[j] \notin {"con", "dis"}
    /\ JobsOf(commands) = JobsOf(commands') \cup {j}
    /\ \A S \in SUBSET Jobs :
          DistinctJobs(commands, S) => DistinctJobs(commands', S) /\ (j \in S => j \notin JobsOf(commands'))
    /\ FileJobs' = FileJobs \ {j}

LEMMA TakeCommandJobs ==
    ASSUME TypeInv, TakeCommand
    PROVE  \E j \in Jobs : CommandTaken(j)
<1>1. PICK c \in ToSet(commands) :
          /\ Takes(c)
          /\ Kind(c.job) \notin {"con", "dis"}
          /\ processing' = c.job
          /\ stage' = "taken"
          /\ commands' = Tail(commands)
          /\ store' = Unpersisted(c.job)
          /\ UNCHANGED <<kind, caller, token, outcome, crossed, misplaced, responses, connected, pending_write, up>>
  BY DEF TakeCommand, appVars, connVars
<1>2. FileJobs' = FileJobs \ {c.job}
  BY <1>1 DEF FileJobs, FilesOf, Unpersisted
<1> QED
  BY <1>1, <1>2, TakesJobs DEF CommandTaken

\* A publication at QoS 0 leaves the send thread's hands.
Publish0Leaves(rc) ==
    /\ UNCHANGED <<kind, caller, token, crossed, misplaced, commands, responses, connected, up>>
    /\ up /\ processing \in Jobs /\ processing # none
    /\ kind[processing] = "pub0"
    /\ FileJobs' = FileJobs
    /\ outcome' = IF rc = "complete" THEN Tell(outcome, {processing}, "success") ELSE outcome
    /\ processing' = IF rc = "interrupted" THEN processing ELSE none
    /\ stage' = IF rc = "interrupted" THEN "cut" ELSE "idle"
    /\ pending_write' = IF rc = "error" THEN processing ELSE pending_write

LEMMA Publish0Jobs ==
    ASSUME TypeInv, ProcessPublish0
    PROVE  \E rc \in Results : Publish0Leaves(rc)
<1>1. /\ Processes({"pub0"})
      /\ UNCHANGED <<kind, caller, token, crossed, misplaced, commands, responses, connected, up, store>>
  BY DEF ProcessPublish0, queueVars, connVars
<1>2. processing \in Jobs /\ processing # none /\ up /\ kind[processing] = "pub0"
  BY <1>1, ProcessingTyped DEF Processes
<1>3. FileJobs' = FileJobs
  BY <1>1 DEF FileJobs, FilesOf
<1> QED
  BY <1>1, <1>2, <1>3 DEF ProcessPublish0, Publish0Leaves

\* A request leaves the send thread's hands, and waits for its answer or is
\* told of a failure.
RequestLeaves ==
    /\ UNCHANGED <<kind, caller, token, crossed, misplaced, pending_write, connected, up>>
    /\ up /\ processing \in Jobs /\ processing # none
    /\ processing' = none
    /\ stage' = "idle"
    /\ kind[processing] \in {"pub1", "pub2", "sub"}
    /\ JobsOf(commands') = JobsOf(commands)
    /\ \A S \in SUBSET Jobs : DistinctJobs(commands, S) => DistinctJobs(commands', S)
    /\ FileJobs' = FileJobs
    /\ \/ responses' = Append(responses, processing) /\ UNCHANGED outcome
       \/ outcome' = Tell(outcome, {processing}, "failure") /\ UNCHANGED responses

LEMMA RequestJobs ==
    ASSUME TypeInv, ProcessRequest
    PROVE  RequestLeaves
<1>1. /\ Processes({"pub1", "pub2", "sub"})
      /\ store' = Put(store, File("s", token[processing], processing)) \/ store' = store
      /\ \/ /\ responses' = Append(responses, processing)
            /\ UNCHANGED <<commands, outcome>>
         \/ /\ commands' = disconnect_internal
            /\ outcome' = Tell(outcome, {processing}, "failure")
            /\ UNCHANGED responses
  BY DEF ProcessRequest
<1>2. /\ UNCHANGED <<kind, caller, token, crossed, misplaced, pending_write, connected, up>>
      /\ processing' = none
      /\ stage' = "idle"
  BY DEF ProcessRequest, connVars
<1>3. FileJobs' = FileJobs
  <2>1. FilesOf("c")' = FilesOf("c")
    BY <1>1 DEF FilesOf, Put, File
  <2> QED
    BY <2>1 DEF FileJobs
<1>4. processing \in Jobs /\ processing # none /\ up /\ kind[processing] \in {"pub1", "pub2", "sub"}
  BY <1>1, ProcessingTyped DEF Processes
<1>5. /\ JobsOf(commands') = JobsOf(commands)
      /\ \A S \in SUBSET Jobs : DistinctJobs(commands, S) => DistinctJobs(commands', S)
  <2> DEFINE d == Command(none, 0)
  <2>1. d \in Entries /\ d.job = none
    BY EntryTyped DEF Command
  <2>2. commands' = commands \/ commands' = <<d>> \o commands
    BY <1>1, <2>1, AddedFirst DEF disconnect_internal, IsFirst
  <2> HIDE DEF d
  <2>3. CASE commands' = commands
    BY <2>3
  <2>4. CASE commands' = <<d>> \o commands
    <3>1. commands \in Seq(Entries)
      BY DEF TypeInv, QueueTypes
    <3>2. JobsOf(commands') = JobsOf(commands) \cup ({d.job} \ {none})
      BY <2>1, <2>4, <3>1, CommandsCons
    <3>3. d.job \notin Jobs
      BY <2>1, JobsFacts
    <3>4. \A S \in SUBSET Jobs : DistinctJobs(commands, S) => DistinctJobs(commands', S)
      BY <2>1, <2>4, <3>1, <3>3, CommandsCons
    <3> QED
      BY <2>1, <3>2, <3>4
  <2> QED
    BY <2>2, <2>3, <2>4
<1> QED
  BY <1>1, <1>2, <1>3, <1>4, <1>5 DEF RequestLeaves

LEMMA AnsweredJobs ==
    ASSUME TypeInv, NEW id, NEW what, Answered(id, what)
    PROVE  \/ UNCHANGED <<responses, outcome>>
           \/ \E j \in Jobs :
                 /\ outcome' = Tell(outcome, {j}, what)
                 /\ ToSet(responses) = ToSet(responses') \cup {j}
                 /\ \A S \in SUBSET Jobs :
                       Distinct(responses, S) => Distinct(responses', S) /\ (j \in S => j \notin ToSet(responses'))
<1>1. responses \in Seq(Jobs)
  BY DEF TypeInv, QueueTypes
<1>2. CASE Answers(id) = {}
  BY <1>2 DEF Answered
<1>3. CASE Answers(id) # {}
  <2> DEFINE i == CHOOSE i \in Answers(id) : \A k \in Answers(id) : i <= k
  <2>1. i \in DOMAIN responses
    BY <1>1, <1>3, FirstAnswer DEF Answers
  <2>2. responses' = RemoveAt(responses, i) /\ outcome' = Tell(outcome, {responses[i]}, what)
    BY <1>3, Zenon DEF Answered
  <2> HIDE DEF i
  <2>3. responses[i] \in Jobs
    BY <1>1, <2>1
  <2>4. ToSet(responses) = ToSet(responses') \cup {responses[i]}
    BY <1>1, <2>1, <2>2, ResponsesRemove
  <2>5. \A S \in SUBSET Jobs :
            Distinct(responses, S) =>
                Distinct(responses', S) /\ (responses[i] \in S => responses[i] \notin ToSet(responses'))
    BY <1>1, <2>1, <2>2, ResponsesRemove
  <2> QED
    BY <2>2, <2>3, <2>4, <2>5
<1> QED
  BY <1>2, <1>3

LEMMA RestartJobs ==
    ASSUME TypeInv, Restart
    PROVE  /\ JobsOf(commands') = FileJobs
           /\ FileJobs' = FileJobs
           /\ UNCHANGED <<kind, caller, token, outcome, crossed, misplaced, responses, connected, processing,
                          stage, pending_write>>
           /\ ~up /\ up'
<1>1. /\ UNCHANGED <<kind, caller, token, outcome, crossed, misplaced, responses, connected, processing, stage,
                     pending_write, store>>
      /\ ~up /\ up'
  BY DEF Restart, appVars, connVars, threadVars
<1>2. FileJobs' = FileJobs
  BY <1>1 DEF FileJobs, FilesOf
<1>3. PICK q \in Listed(FilesOf("c")) : commands' = [i \in DOMAIN q |-> Command(q[i].about, 0)]
  BY DEF Restart, restoreCommands
<1>4. ToSet(q) = FilesOf("c")
  BY <1>3 DEF Listed
<1>5. DOMAIN commands' = DOMAIN q /\ \A i \in DOMAIN q : commands'[i].job = q[i].about
  BY <1>3 DEF Command
<1>6. \A x : (\E i \in DOMAIN q : x = q[i].about) <=> x \in FileJobs
  BY <1>4 DEF FileJobs, ToSet
<1>7. JobsOf(commands') = FileJobs
  <2>1. none \notin FileJobs
    BY JobsFacts
  <2> QED
    BY <1>5, <1>6, <2>1 DEF JobsOf
<1> QED
  BY <1>1, <1>2, <1>7

LEMMA PlaceStep ==
    ASSUME TypeInv, PlaceInv, JobStep
    PROVE  PlaceInv'
<1> USE JobsFacts
<1>0. /\ caller \in [AllJobs -> {"idle", "refused", "checked", "numbering", "assigned", "queued", "gone"}]
      /\ kind \in [AllJobs -> Kinds \cup {"con", "unmade"}]
      /\ processing \in Jobs \cup {none} /\ pending_write \in Jobs \cup {none}
      /\ responses \in Seq(Jobs)
      /\ stage \in {"idle", "taken", "cut", "noted"}
      /\ (stage = "idle") = (processing = none)
  BY DEF TypeInv, AppTypes, ConnTypes, QueueTypes
<1>1. CASE Relays
  <2>1. /\ Jobs \cap JobsOf(commands') \subseteq JobsOf(commands)
        /\ connected' => JobsOf(commands') \subseteq JobsOf(commands)
        /\ \A j \in Jobs \cap JobsOf(commands) : kind[j] \notin {"con", "dis"} => j \in JobsOf(commands')
    BY <1>1, RelaidJobs DEF Relays
  <2>2. FileJobs' = FileJobs /\ (connected' => connected)
    BY <1>1 DEF Relays
  <2>3. processing # none => connected'
    <3>1. processing # none => connected
      BY DEF PlaceInv
    <3>2. connected' = connected \/ processing = none
      BY <1>1 DEF Relays
    <3> QED
      BY <3>1, <3>2
  <2> QED
    BY <1>1, <2>1, <2>2, <2>3 DEF Relays, PlaceInv
<1>2. CASE Clears
  <2>1. commands' = <<>> /\ responses' = <<>> /\ store' = {} /\ up' /\ processing' = none /\ stage' = "idle"
    BY <1>0, <1>2 DEF Clears, cleanSession, Locked
  <2>2. JobsOf(commands') = {} /\ ToSet(responses') = {} /\ FileJobs' = {}
    BY <2>1 DEF JobsOf, ToSet, FileJobs, FilesOf
  <2> QED
    BY <1>2, <2>1, <2>2 DEF Clears, PlaceInv
<1>3. CASE Replies
  <2>1. ToSet(responses') \subseteq ToSet(responses)
    BY <1>3, AnsweredJobs DEF Replies
  <2> QED
    BY <1>3, <2>1 DEF Replies, PlaceInv
<1>4. ASSUME NEW j \in Calls, Connect(j) PROVE PlaceInv'
  <2>1. /\ JobsOf(commands') \subseteq JobsOf(commands) \cup {j}
        /\ JobsOf(commands) \subseteq JobsOf(commands')
        /\ FileJobs' = FileJobs
    BY <1>4, ConnectJobs
  <2>2. /\ UNCHANGED <<kind, connected, responses, processing, stage, pending_write, up>>
        /\ up
        /\ caller' = [caller EXCEPT ![j] = "queued"]
    BY <1>4 DEF Connect, Begins, threadVars
  <2> QED
    BY <1>0, <2>1, <2>2 DEF PlaceInv
<1>5. ASSUME NEW j \in Jobs, NEW k \in Kinds, CheckConnected(j, k) PROVE PlaceInv'
  <2>1. /\ UNCHANGED <<connected, commands, responses, processing, stage, pending_write, up, store>>
        /\ up
        /\ caller[j] = "idle"
        /\ \/ /\ caller' = [caller EXCEPT ![j] = "refused"]
              /\ kind' = kind
           \/ /\ kind' = [kind EXCEPT ![j] = k]
              /\ caller' = [caller EXCEPT ![j] = IF k \in {"pub0", "dis"} THEN "assigned" ELSE "checked"]
    BY <1>5 DEF CheckConnected, Begins, connVars, queueVars, threadVars
  <2>2. FileJobs' = FileJobs
    BY <2>1 DEF FileJobs, FilesOf
  <2>3. /\ caller'[j] # "idle"
        /\ \A i \in AllJobs : i # j => caller'[i] = caller[i] /\ kind'[i] = kind[i]
    BY <1>0, <2>1
  <2>4. j \notin JobsOf(commands) \cup ToSet(responses) \cup FileJobs
    BY <2>1 DEF PlaceInv
  <2>5. kind[j] = "unmade"
    BY <2>1 DEF PlaceInv
  <2>6. pending_write # j /\ processing # j
    BY <2>1, <2>5 DEF PlaceInv
  <2>7. processing # none => caller'[processing] = "queued"
    BY <1>0, <2>3, <2>6 DEF PlaceInv
  <2>8. stage \in {"cut", "noted"} => kind'[processing] = "pub0"
    BY <1>0, <2>3, <2>6 DEF PlaceInv
  <2> QED
    BY <1>0, <2>1, <2>2, <2>3, <2>4, <2>6, <2>7, <2>8 DEF PlaceInv
<1>6. ASSUME NEW j \in Jobs, ReadMsgId(j) \/ AssignMsgId(j) PROVE PlaceInv'
  <2>1. /\ UNCHANGED <<kind, connected, commands, responses, processing, stage, pending_write, up, store>>
        /\ up
        /\ caller[j] \in {"checked", "numbering"}
        /\ \/ caller' = [caller EXCEPT ![j] = "numbering"]
           \/ caller' = [caller EXCEPT ![j] = "assigned"]
           \/ caller' = [caller EXCEPT ![j] = "refused"]
    BY <1>6 DEF ReadMsgId, AssignMsgId, Locked, queueVars, connVars, threadVars
  <2>2. FileJobs' = FileJobs
    BY <2>1 DEF FileJobs, FilesOf
  <2>3. /\ caller'[j] # "idle"
        /\ \A i \in AllJobs : i # j => caller'[i] = caller[i]
    BY <1>0, <2>1
  <2>4. j \notin JobsOf(commands) \cup ToSet(responses) \cup FileJobs /\ processing # j
    BY <2>1 DEF PlaceInv
  <2> QED
    BY <1>0, <2>1, <2>2, <2>3, <2>4 DEF PlaceInv
<1>7. ASSUME NEW j \in Jobs, AddCommand(j) PROVE PlaceInv'
  <2>1. /\ UNCHANGED <<kind, connected, responses, processing, stage, pending_write, up>>
        /\ up
        /\ caller' = [caller EXCEPT ![j] = "queued"]
    BY <1>7 DEF AddCommand, connVars, threadVars
  <2>2. /\ JobsOf(commands') = JobsOf(commands) \cup {j}
        /\ FileJobs' = FileJobs \cup IF kind[j] \in {"con", "dis"} THEN {} ELSE {j}
    BY <1>7, AddCommandJobs
  <2> QED
    BY <1>0, <2>1, <2>2 DEF PlaceInv
<1>8. CASE ProcessPublish0
  <2>1. PICK rc \in Results : Publish0Leaves(rc)
    BY <1>8, Publish0Jobs
  <2> QED
    BY <2>1 DEF Publish0Leaves, PlaceInv
<1>9. CASE ProcessRequest
  <2>1. RequestLeaves
    BY <1>9, RequestJobs
  <2>2. caller[processing] = "queued"
    BY <2>1 DEF RequestLeaves, PlaceInv
  <2>3. ToSet(responses') \subseteq ToSet(responses) \cup {processing}
    BY <1>0, <2>1, ResponsesAppend DEF RequestLeaves
  <2> QED
    BY <2>1, <2>2, <2>3 DEF RequestLeaves, PlaceInv
<1>10. CASE Register
  <2>1. /\ UNCHANGED <<kind, caller, connected, commands, up, store, pending_write>>
        /\ processing # none
        /\ responses' = Append(responses, processing)
        /\ processing' = none
        /\ stage' = "idle"
    BY <1>0, <1>10 DEF Register, appVars, connVars
  <2>2. ToSet(responses') = ToSet(responses) \cup {processing} /\ FileJobs' = FileJobs
    BY <1>0, <2>1, ResponsesAppend DEF FileJobs, FilesOf
  <2> QED
    BY <1>0, <2>1, <2>2 DEF PlaceInv
<1>14. CASE TakeCommand
  <2>1. PICK j \in Jobs : CommandTaken(j)
    BY <1>14, TakeCommandJobs
  <2>2. caller[j] = "queued"
    BY <2>1 DEF CommandTaken, PlaceInv
  <2> QED
    BY <2>1, <2>2 DEF CommandTaken, PlaceInv
<1>15. CASE NotePendingWrite
  <2>1. /\ UNCHANGED <<kind, caller, connected, commands, responses, processing, up, store>>
        /\ stage = "cut"
        /\ pending_write' = processing
        /\ stage' = "noted"
    BY <1>15 DEF NotePendingWrite, appVars, queueVars, connVars
  <2>2. FileJobs' = FileJobs
    BY <2>1 DEF FileJobs, FilesOf
  <2> QED
    BY <2>1, <2>2 DEF PlaceInv
<1>11. CASE ContinueWrite
  <2>1. /\ UNCHANGED <<kind, caller, connected, commands, processing, stage, up, store>>
        /\ pending_write' = none
        /\ responses' = responses \/ (responses # <<>> /\ responses' = Tail(responses))
    BY <1>11 DEF ContinueWrite, connVars
  <2>2. ToSet(responses') \subseteq ToSet(responses) /\ FileJobs' = FileJobs
    BY <1>0, <2>1, ResponsesTail DEF FileJobs, FilesOf
  <2> QED
    BY <2>1, <2>2 DEF PlaceInv
<1>12. CASE Dies
  <2>1. /\ UNCHANGED <<kind, store>>
        /\ caller' = [j \in AllJobs |-> IF caller[j] = "idle" THEN "idle" ELSE "gone"]
        /\ up' = FALSE /\ connected' = FALSE /\ commands' = <<>> /\ responses' = <<>>
        /\ processing' = none /\ stage' = "idle" /\ pending_write' = none
    BY <1>12 DEF Dies
  <2>2. JobsOf(commands') = {} /\ ToSet(responses') = {} /\ FileJobs' = FileJobs
    BY <2>1 DEF JobsOf, ToSet, FileJobs, FilesOf
  <2> QED
    BY <1>0, <2>1, <2>2 DEF PlaceInv
<1>13. CASE Restart
  <2>1. /\ JobsOf(commands') = FileJobs
        /\ FileJobs' = FileJobs
        /\ UNCHANGED <<kind, caller, responses, connected, processing, stage, pending_write>>
        /\ ~up /\ up'
    BY <1>13, RestartJobs
  <2> QED
    BY <2>1 DEF PlaceInv
<1> QED
  BY <1>1, <1>2, <1>3, <1>4, <1>5, <1>6, <1>7, <1>8, <1>9, <1>10, <1>11, <1>12, <1>13, <1>14,
     <1>15 DEF JobStep

(* What a callback tells. *)
LEMMA TellFacts ==
    ASSUME NEW told, NEW jobs, NEW what, NEW j \in AllJobs
    PROVE  /\ j \notin jobs \/ caller[j] # "queued" => Tell(told, jobs, what)[j] = told[j]
           /\ j \in jobs /\ caller[j] = "queued" => Tell(told, jobs, what)[j] = IF told[j] = "none" THEN what ELSE "again"
BY DEF Tell

(* Everybody who waits is told, and one job of what became of it. *)
LEMMA ClearsTells ==
    ASSUME TypeInv, NEW q, NEW job, NEW what \in {"success", "failure"}, cleanSession(q, job, what), NEW j \in AllJobs
    PROVE  /\ caller[j] # "queued" => outcome'[j] = outcome[j]
           /\ caller[j] = "queued" /\ j \in ToSet(responses) \cup JobsOf(q) => outcome'[j] # "none"
           /\ j \notin ToSet(responses) \cup JobsOf(q) \cup {job} => outcome'[j] = outcome[j]
           /\ j \notin (ToSet(responses) \cup JobsOf(q)) \cap {job} /\ outcome[j] = "none" => outcome'[j] # "again"
<1> DEFINE first == removeResponsesAndCommands(q)
<1>1. /\ j \notin ToSet(responses) \cup JobsOf(q) \/ caller[j] # "queued" => first[j] = outcome[j]
      /\ j \in ToSet(responses) \cup JobsOf(q) /\ caller[j] = "queued"
            => first[j] = IF outcome[j] = "none" THEN "failure" ELSE "again"
  BY TellFacts DEF removeResponsesAndCommands
<1> HIDE DEF first
<1>2. /\ j \notin {job} \/ caller[j] # "queued" => outcome'[j] = first[j]
      /\ j \in {job} /\ caller[j] = "queued" => outcome'[j] = IF first[j] = "none" THEN what ELSE "again"
  BY TellFacts DEF cleanSession, first
<1> QED
  BY <1>1, <1>2

LEMMA KeptStep ==
    ASSUME TypeInv, PlaceInv, TokenKept, JobStep
    PROVE  TokenKept'
<1> USE JobsFacts
<1>0. /\ caller \in [AllJobs -> {"idle", "refused", "checked", "numbering", "assigned", "queued", "gone"}]
      /\ kind \in [AllJobs -> Kinds \cup {"con", "unmade"}]
      /\ processing \in Jobs \cup {none} /\ pending_write \in Jobs \cup {none}
      /\ responses \in Seq(Jobs)
      /\ (stage = "idle") = (processing = none)
  BY DEF TypeInv, AppTypes, ConnTypes, QueueTypes
<1> SUFFICES ASSUME NEW j \in Jobs, kind'[j] \in {"pub1", "pub2", "sub"}, caller'[j] = "queued", outcome'[j] = "none",
                    ~misplaced'
             PROVE  j \in JobsOf(commands') \cup ToSet(responses') \cup {processing'}
  BY DEF TokenKept, Acknowledged, Live
<1>1. ASSUME kind[j] = kind'[j], caller[j] = "queued", outcome[j] = "none", ~misplaced
      PROVE  j \in JobsOf(commands) \cup ToSet(responses) \cup {processing}
  BY <1>1 DEF TokenKept, Acknowledged, Live
<1>2. CASE Relays
  <2>1. j \in JobsOf(commands) \cup ToSet(responses) \cup {processing}
    BY <1>1, <1>2 DEF Relays
  <2>2. j \in JobsOf(commands) => j \in JobsOf(commands')
    BY <1>2, RelaidJobs DEF Relays
  <2> QED
    BY <1>2, <2>1, <2>2 DEF Relays
<1>3. CASE Clears
  <2>1. PICK q, job : \E what \in {"success", "failure"} :
            /\ cleanSession(q, job, what)
            /\ \/ q = commands /\ job \notin Jobs
               \/ commands # <<>> /\ q = Tail(commands) /\ job = Head(commands).job /\ Kind(job) = "dis"
    BY <1>3 DEF Clears
  <2>2. UNCHANGED <<kind, caller, misplaced, processing>>
    BY <1>3 DEF Clears
  <2>3. j # job
    BY <2>1, <2>2 DEF Kind
  <2>4. j \notin ToSet(responses) \cup JobsOf(q)
    BY <2>1, <2>2, ClearsTells
  <2>5. outcome[j] = "none"
    BY <2>1, <2>3, <2>4, ClearsTells
  <2>6. JobsOf(commands) \subseteq JobsOf(q) \cup {job}
    BY <2>1, CommandsTail DEF TypeInv, QueueTypes
  <2> QED
    BY <1>1, <2>2, <2>3, <2>4, <2>5, <2>6
<1>4. CASE Replies
  <2>1. PICK id : \E what \in {"success", "failure"} : Answered(id, what)
    BY <1>4 DEF Replies
  <2>2. CASE UNCHANGED <<responses, outcome>>
    BY <1>1, <1>4, <2>2 DEF Replies
  <2>3. ASSUME NEW i \in Jobs, NEW what \in {"success", "failure"}, outcome' = Tell(outcome, {i}, what),
               ToSet(responses) = ToSet(responses') \cup {i}
        PROVE  j \in JobsOf(commands') \cup ToSet(responses') \cup {processing'}
    <3>1. UNCHANGED <<kind, caller, misplaced, commands, processing>>
      BY <1>4 DEF Replies
    <3>2. j # i
      BY <2>3, <3>1, TellFacts
    <3>3. outcome[j] = "none"
      BY <2>3, <3>2, TellFacts
    <3> QED
      BY <1>1, <2>3, <3>1, <3>2, <3>3
  <2> QED
    BY <2>1, <2>2, <2>3, AnsweredJobs
<1>5. ASSUME NEW i \in Calls, Connect(i) PROVE j \in JobsOf(commands') \cup ToSet(responses') \cup {processing'}
  <2>1. /\ UNCHANGED <<kind, misplaced, responses, outcome, processing>>
        /\ caller' = [caller EXCEPT ![i] = "queued"]
    BY <1>5 DEF Connect, threadVars
  <2>2. caller[j] = "queued"
    BY <1>0, <2>1
  <2> QED
    BY <1>1, <1>5, <2>1, <2>2, ConnectJobs
<1>6. ASSUME NEW i \in Jobs, (\E k \in Kinds : CheckConnected(i, k)) \/ ReadMsgId(i) \/ AssignMsgId(i)
      PROVE  j \in JobsOf(commands') \cup ToSet(responses') \cup {processing'}
  <2>1. /\ UNCHANGED <<misplaced, commands, responses, outcome, processing>>
        /\ \E x \in {"refused", "checked", "numbering", "assigned"} : caller' = [caller EXCEPT ![i] = x]
        /\ \A l \in AllJobs : l # i => kind'[l] = kind[l]
    BY <1>0, <1>6 DEF CheckConnected, ReadMsgId, AssignMsgId, threadVars, queueVars
  <2>2. i # j /\ caller[j] = "queued"
    BY <1>0, <2>1
  <2> QED
    BY <1>1, <2>1, <2>2
<1>7. ASSUME NEW i \in Jobs, AddCommand(i) PROVE j \in JobsOf(commands') \cup ToSet(responses') \cup {processing'}
  <2>1. /\ UNCHANGED <<kind, misplaced, responses, outcome, processing>>
        /\ caller' = [caller EXCEPT ![i] = "queued"]
    BY <1>7 DEF AddCommand, threadVars
  <2>2. JobsOf(commands') = JobsOf(commands) \cup {i}
    BY <1>7, AddCommandJobs
  <2>3. CASE i # j
    <3>1. caller[j] = "queued"
      BY <1>0, <2>1, <2>3
    <3> QED
      BY <1>1, <2>1, <2>2, <3>1
  <2> QED
    BY <2>2, <2>3
<1>8. CASE ProcessPublish0
  <2>1. PICK rc \in Results : Publish0Leaves(rc)
    BY <1>8, Publish0Jobs
  <2>2. processing # j /\ UNCHANGED <<kind, caller, misplaced, commands, responses>>
    BY <2>1 DEF Publish0Leaves
  <2>3. outcome[j] = "none"
    BY <2>1, <2>2, TellFacts DEF Publish0Leaves
  <2> QED
    BY <1>1, <2>2, <2>3
<1>9. CASE ProcessRequest
  <2>1. RequestLeaves
    BY <1>9, RequestJobs
  <2>2. UNCHANGED <<kind, caller, misplaced>> /\ JobsOf(commands') = JobsOf(commands)
    BY <2>1 DEF RequestLeaves
  <2>3. CASE responses' = Append(responses, processing) /\ UNCHANGED outcome
    <3>1. ToSet(responses') = ToSet(responses) \cup {processing}
      BY <1>0, <2>1, <2>3, ResponsesAppend DEF RequestLeaves
    <3> QED
      BY <1>1, <2>2, <2>3, <3>1
  <2>4. CASE outcome' = Tell(outcome, {processing}, "failure") /\ UNCHANGED responses
    <3>1. j # processing
      BY <2>2, <2>4, TellFacts
    <3>2. outcome[j] = "none"
      BY <2>4, <3>1, TellFacts
    <3> QED
      BY <1>1, <2>2, <2>4, <3>1, <3>2
  <2> QED
    BY <2>1, <2>3, <2>4 DEF RequestLeaves
<1>14. CASE TakeCommand
  <2>1. PICK i \in Jobs : CommandTaken(i)
    BY <1>14, TakeCommandJobs
  <2> QED
    BY <1>1, <2>1 DEF CommandTaken
<1>15. CASE NotePendingWrite
  BY <1>1, <1>15 DEF NotePendingWrite, appVars, queueVars
<1>10. CASE Register
  <2>1. /\ UNCHANGED <<kind, caller, outcome, misplaced, commands>>
        /\ processing # none
        /\ responses' = Append(responses, processing)
    BY <1>0, <1>10 DEF Register, appVars
  <2>2. ToSet(responses') = ToSet(responses) \cup {processing}
    BY <1>0, <2>1, ResponsesAppend
  <2> QED
    BY <1>1, <2>1, <2>2
<1>11. CASE ContinueWrite
  <2>1. /\ UNCHANGED <<kind, caller, commands, processing>>
        /\ \/ UNCHANGED <<outcome, responses, misplaced>>
           \/ /\ pending_write # none /\ responses # <<>>
              /\ outcome' = outcome \/ outcome' = Tell(outcome, {pending_write}, "success")
              /\ responses' = Tail(responses)
              /\ misplaced' = (misplaced \/ Head(responses) # pending_write)
    BY <1>11 DEF ContinueWrite
  <2>2. CASE UNCHANGED <<outcome, responses, misplaced>>
    BY <1>1, <2>1, <2>2
  <2>3. CASE /\ pending_write # none /\ responses # <<>>
             /\ outcome' = outcome \/ outcome' = Tell(outcome, {pending_write}, "success")
             /\ responses' = Tail(responses)
             /\ misplaced' = (misplaced \/ Head(responses) # pending_write)
    <3>1. ~misplaced /\ Head(responses) = pending_write
      BY <2>3
    <3>2. j # pending_write
      BY <2>1, <2>3 DEF PlaceInv
    <3>3. outcome[j] = "none"
      BY <2>3, <3>2, TellFacts
    <3>4. ToSet(responses) = ToSet(responses') \cup {pending_write}
      BY <1>0, <2>3, <3>1, ResponsesTail
    <3> QED
      BY <1>1, <2>1, <3>1, <3>2, <3>3, <3>4
  <2> QED
    BY <2>1, <2>2, <2>3
<1>12. CASE Dies
  BY <1>12 DEF Dies
<1>13. CASE Restart
  BY <1>13, RestartJobs DEF PlaceInv
<1> QED
  BY <1>2, <1>3, <1>4, <1>5, <1>6, <1>7, <1>8, <1>9, <1>10, <1>11, <1>12, <1>13, <1>14,
     <1>15 DEF JobStep

LEMMA OnceStep ==
    ASSUME TypeInv, PlaceInv, OnceInv, JobStep
    PROVE  OnceInv'
<1> USE JobsFacts
<1>0. /\ caller \in [AllJobs -> {"idle", "refused", "checked", "numbering", "assigned", "queued", "gone"}]
      /\ kind \in [AllJobs -> Kinds \cup {"con", "unmade"}]
      /\ processing \in Jobs \cup {none} /\ pending_write \in Jobs \cup {none}
      /\ responses \in Seq(Jobs)
      /\ (stage = "idle") = (processing = none)
      /\ Mine \in SUBSET Jobs
  BY DEF TypeInv, AppTypes, ConnTypes, QueueTypes, Mine
<1>1. CASE Relays
  <2>1. /\ Jobs \cap JobsOf(commands') \subseteq JobsOf(commands)
        /\ DistinctJobs(commands, Mine) => DistinctJobs(commands', Mine)
    BY <1>0, <1>1, RelaidJobs DEF Relays
  <2>2. Mine' = Mine /\ UNCHANGED <<caller, misplaced, responses, processing, stage>> /\ \A j \in Jobs : outcome'[j] = outcome[j]
    BY <1>1 DEF Relays, Mine
  <2> QED
    BY <1>0, <2>1, <2>2 DEF OnceInv
<1>2. CASE Clears
  <2>1. PICK q, job : \E what \in {"success", "failure"} :
            /\ cleanSession(q, job, what)
            /\ \/ q = commands /\ job \notin Jobs
               \/ commands # <<>> /\ q = Tail(commands) /\ job = Head(commands).job /\ Kind(job) = "dis"
    BY <1>2 DEF Clears
  <2>2. UNCHANGED <<caller, misplaced>> /\ processing' = none /\ commands' = <<>> /\ responses' = <<>>
    BY <1>2, <2>1 DEF Clears, cleanSession, Locked
  <2>3. JobsOf(commands') = {} /\ ToSet(responses') = {} /\ Mine' = Mine
    BY <2>2 DEF JobsOf, ToSet, Mine
  <2>4. DistinctJobs(commands', Mine) /\ Distinct(responses', Mine)
    BY <2>2 DEF DistinctJobs, Distinct
  <2>5. JobsOf(q) \subseteq JobsOf(commands) /\ (job \in Jobs => job \in JobsOf(commands))
    BY <2>1, CommandsTail DEF TypeInv, QueueTypes
  <2>6. ASSUME NEW j \in Jobs, ~misplaced PROVE outcome'[j] # "again"
    <3>1. CASE caller[j] # "queued"
      BY <2>1, <2>6, <3>1, ClearsTells DEF OnceInv
    <3>2. CASE caller[j] = "queued" /\ j \notin ToSet(responses) \cup JobsOf(q) \cup {job}
      BY <2>1, <2>6, <3>2, ClearsTells DEF OnceInv
    <3>3. CASE caller[j] = "queued" /\ j \in ToSet(responses) \cup JobsOf(q) \cup {job}
      <4>1. j \in Mine /\ j \in JobsOf(commands) \cup ToSet(responses)
        BY <2>5, <3>3 DEF Mine
      <4>2. outcome[j] = "none"
        BY <2>6, <4>1 DEF OnceInv
      <4>3. j = job => j \notin ToSet(responses) \cup JobsOf(q)
        <5> SUFFICES ASSUME j = job PROVE j \notin ToSet(responses) \cup JobsOf(q)
          OBVIOUS
        <5>1. commands # <<>> /\ q = Tail(commands) /\ job = Head(commands).job
          BY <2>1
        <5>2. j \in JobsOf(commands)
          BY <2>5
        <5>3. DistinctJobs(commands, Mine) /\ commands \in Seq(Entries)
          BY <2>6 DEF OnceInv, TypeInv, QueueTypes
        <5>4. j \notin JobsOf(q)
          BY <4>1, <5>1, <5>3, CommandsTail
        <5> QED
          BY <2>6, <4>1, <5>2, <5>4 DEF OnceInv
      <4> QED
        BY <2>1, <4>2, <4>3, ClearsTells
    <3> QED
      BY <3>1, <3>2, <3>3
  <2>7. \A j \in Jobs : caller'[j] \in {"idle", "checked", "numbering", "assigned"} => outcome'[j] = "none"
    BY <2>1, <2>2, ClearsTells DEF OnceInv
  <2>8. none \notin Mine
    BY <1>0
  <2> QED
    BY <2>2, <2>3, <2>4, <2>6, <2>7, <2>8 DEF OnceInv
<1>3. CASE Replies
  <2>1. PICK id : \E what \in {"success", "failure"} : Answered(id, what)
    BY <1>3 DEF Replies
  <2>2. Mine' = Mine /\ UNCHANGED <<caller, misplaced, commands, processing, stage>>
    BY <1>3 DEF Replies, Mine
  <2>3. CASE UNCHANGED <<responses, outcome>>
    BY <2>2, <2>3 DEF OnceInv
  <2>4. ASSUME NEW i \in Jobs, NEW what \in {"success", "failure"}, outcome' = Tell(outcome, {i}, what),
               ToSet(responses) = ToSet(responses') \cup {i},
               \A S \in SUBSET Jobs :
                   Distinct(responses, S) => Distinct(responses', S) /\ (i \in S => i \notin ToSet(responses'))
        PROVE  OnceInv'
    <3>1. Distinct(responses, Mine) => Distinct(responses', Mine) /\ (i \in Mine => i \notin ToSet(responses'))
      BY <1>0, <2>4
    <3>2. \A j \in Jobs : /\ j # i \/ j \notin Mine => outcome'[j] = outcome[j]
                          /\ j = i /\ j \in Mine /\ outcome[j] = "none" => outcome'[j] = what
      BY <2>4, TellFacts DEF Mine
    <3>3. \A j \in Jobs : caller'[j] \in {"idle", "checked", "numbering", "assigned"} => outcome'[j] = "none"
      BY <2>2, <3>2 DEF OnceInv, Mine
    <3>4. ASSUME ~misplaced
          PROVE  /\ Distinct(responses', Mine)
                 /\ Mine \cap JobsOf(commands) \cap ToSet(responses') = {}
                 /\ processing \in Mine => processing \notin JobsOf(commands) \cup ToSet(responses')
                 /\ i \in Mine => i \notin JobsOf(commands) \cup ToSet(responses') \cup {processing}
                 /\ i \in Mine => outcome[i] = "none"
      BY <2>4, <3>1, <3>4 DEF OnceInv
    <3>5. ASSUME ~misplaced
          PROVE  /\ \A j \in Mine \cap (JobsOf(commands) \cup ToSet(responses') \cup {processing}) : outcome'[j] = "none"
                 /\ \A j \in Jobs : outcome'[j] # "again"
      <4>1. \A j \in Mine \cap (JobsOf(commands) \cup ToSet(responses') \cup {processing}) : outcome[j] = "none" /\ j # i
        BY <2>4, <3>4, <3>5 DEF OnceInv
      <4>2. \A j \in Jobs : outcome[j] # "again"
        BY <3>5 DEF OnceInv
      <4> QED
        BY <1>0, <3>2, <3>4, <3>5, <4>1, <4>2
    <3> QED
      BY <2>2, <3>3, <3>4, <3>5 DEF OnceInv
  <2> QED
    BY <2>1, <2>3, <2>4, AnsweredJobs
<1>4. ASSUME NEW j \in Calls, Connect(j) PROVE OnceInv'
  <2>1. /\ JobsOf(commands') \subseteq JobsOf(commands) \cup {j}
        /\ DistinctJobs(commands, Mine) => DistinctJobs(commands', Mine)
    BY <1>0, <1>4, ConnectJobs
  <2>2. UNCHANGED <<misplaced, responses, processing, stage, outcome>> /\ caller' = [caller EXCEPT ![j] = "queued"]
    BY <1>4 DEF Connect, threadVars
  <2>3. \A i \in Jobs : caller'[i] = caller[i]
    BY <1>0, <2>2
  <2>4. Mine' = Mine
    BY <2>3 DEF Mine
  <2>5. Mine \cap JobsOf(commands') \subseteq JobsOf(commands)
    BY <1>0, <2>1
  <2> QED
    BY <2>1, <2>2, <2>3, <2>4, <2>5 DEF OnceInv
<1>5. ASSUME NEW j \in Jobs, (\E k \in Kinds : CheckConnected(j, k)) \/ ReadMsgId(j) \/ AssignMsgId(j)
      PROVE  OnceInv'
  <2>1. /\ UNCHANGED <<misplaced, commands, responses, processing, stage, outcome>>
        /\ caller[j] \in {"idle", "checked", "numbering"}
        /\ \E x \in {"refused", "checked", "numbering", "assigned"} : caller' = [caller EXCEPT ![j] = x]
    BY <1>5 DEF CheckConnected, ReadMsgId, AssignMsgId, Begins, threadVars, queueVars
  <2>2. Mine' = Mine
    BY <1>0, <2>1 DEF Mine
  <2>3. \A i \in Jobs : caller'[i] \in {"idle", "checked", "numbering", "assigned"} => outcome'[i] = "none"
    BY <1>0, <2>1 DEF OnceInv
  <2> QED
    BY <2>1, <2>2, <2>3 DEF OnceInv
<1>6. ASSUME NEW j \in Jobs, AddCommand(j) PROVE OnceInv'
  <2>1. /\ UNCHANGED <<misplaced, responses, processing, stage, outcome>>
        /\ caller[j] = "assigned"
        /\ caller' = [caller EXCEPT ![j] = "queued"]
    BY <1>6 DEF AddCommand, threadVars
  <2>2. Mine' = Mine \cup {j} /\ j \notin Mine
    BY <1>0, <2>1 DEF Mine
  <2>3. j \notin JobsOf(commands) \cup ToSet(responses) /\ processing # j
    BY <2>1 DEF PlaceInv
  <2>4. /\ JobsOf(commands') = JobsOf(commands) \cup {j}
        /\ DistinctJobs(commands, Mine \cup {j}) => DistinctJobs(commands', Mine \cup {j})
    BY <1>0, <1>6, <2>3, AddCommandJobs
  <2>5. DistinctJobs(commands, Mine) => DistinctJobs(commands, Mine \cup {j})
    <3>1. \A i \in DOMAIN commands : commands[i].job # j
      BY <2>3 DEF JobsOf
    <3> QED
      BY <3>1 DEF DistinctJobs
  <2>6. Distinct(responses, Mine) => Distinct(responses, Mine \cup {j})
    <3>1. \A i \in DOMAIN responses : responses[i] # j
      BY <2>3 DEF ToSet
    <3> QED
      BY <3>1 DEF Distinct
  <2>7. \A i \in Jobs : caller'[i] \in {"idle", "checked", "numbering", "assigned"} => outcome'[i] = "none"
    BY <1>0, <2>1 DEF OnceInv
  <2>8. outcome[j] = "none"
    BY <2>1 DEF OnceInv
  <2> QED
    BY <2>1, <2>2, <2>3, <2>4, <2>5, <2>6, <2>7, <2>8 DEF OnceInv
<1>7. CASE ProcessPublish0
  <2> DEFINE j == processing
  <2>1. PICK rc \in Results : Publish0Leaves(rc)
    BY <1>7, Publish0Jobs
  <2>2. Mine' = Mine /\ UNCHANGED <<caller, misplaced, commands, responses>>
    BY <2>1 DEF Publish0Leaves, Mine
  <2>3. /\ j \in Jobs
        /\ processing' \in {j, none}
        /\ processing' = j => outcome' = outcome
        /\ outcome' = outcome \/ outcome' = Tell(outcome, {j}, "success")
    BY <2>1 DEF Publish0Leaves
  <2>4. \A i \in Jobs : /\ i # j \/ i \notin Mine => outcome'[i] = outcome[i]
                        /\ i = j /\ i \in Mine /\ outcome[i] = "none" => outcome'[i] \in {"none", "success"}
    BY <2>3, TellFacts DEF Mine
  <2> HIDE DEF j
  <2>5. \A i \in Jobs : caller'[i] \in {"idle", "checked", "numbering", "assigned"} => outcome'[i] = "none"
    BY <2>2, <2>4 DEF OnceInv, Mine
  <2>6. ASSUME ~misplaced
        PROVE  /\ j \in Mine => j \notin JobsOf(commands) \cup ToSet(responses)
               /\ j \in Mine => outcome[j] = "none"
    BY <2>6 DEF OnceInv, j
  <2>7. ASSUME ~misplaced
        PROVE  /\ \A i \in Mine \cap (JobsOf(commands) \cup ToSet(responses) \cup {processing'}) : outcome'[i] = "none"
               /\ \A i \in Jobs : outcome'[i] # "again"
    <3>1. \A i \in Jobs : outcome'[i] # "again"
      BY <2>4, <2>6, <2>7 DEF OnceInv
    <3>2. \A i \in Mine \cap (JobsOf(commands) \cup ToSet(responses)) : outcome'[i] = "none"
      BY <1>0, <2>4, <2>6, <2>7 DEF OnceInv
    <3>3. processing' \in Mine => outcome'[processing'] = "none"
      BY <1>0, <2>3, <2>6, <2>7
    <3> QED
      BY <3>1, <3>2, <3>3
  <2>8. processing' \in Mine => processing' = j
    BY <1>0, <2>3
  <2> QED
    BY <2>2, <2>5, <2>6, <2>7, <2>8 DEF OnceInv
<1>8. CASE ProcessRequest
  <2> DEFINE j == processing
  <2>1. RequestLeaves
    BY <1>8, RequestJobs
  <2>2. Mine' = Mine /\ UNCHANGED <<caller, misplaced>> /\ processing' = none /\ j \in Jobs
    BY <2>1 DEF RequestLeaves, Mine
  <2>3. /\ DistinctJobs(commands, Mine) => DistinctJobs(commands', Mine)
        /\ JobsOf(commands') = JobsOf(commands)
        /\ \/ responses' = Append(responses, j) /\ outcome' = outcome
           \/ outcome' = Tell(outcome, {j}, "failure") /\ responses' = responses
    BY <1>0, <2>1 DEF RequestLeaves
  <2>4. ASSUME ~misplaced
        PROVE  /\ DistinctJobs(commands', Mine)
               /\ Distinct(responses, Mine)
               /\ Mine \cap JobsOf(commands) \cap ToSet(responses) = {}
               /\ j \in Mine => j \notin JobsOf(commands) \cup ToSet(responses)
               /\ j \in Mine => outcome[j] = "none"
    BY <2>3, <2>4 DEF OnceInv
  <2> HIDE DEF j
  <2>5. none \notin Mine
    BY <1>0
  <2>6. CASE responses' = Append(responses, j) /\ outcome' = outcome
    <3>1. ToSet(responses') = ToSet(responses) \cup {j}
      BY <1>0, <2>2, <2>6, ResponsesAppend
    <3>2. ~misplaced => Distinct(responses', Mine)
      BY <1>0, <2>2, <2>4, <2>6, ResponsesAppend
    <3> QED
      BY <2>2, <2>3, <2>4, <2>5, <2>6, <3>1, <3>2 DEF OnceInv
  <2>7. CASE outcome' = Tell(outcome, {j}, "failure") /\ responses' = responses
    <3>1. \A i \in Jobs : /\ i # j \/ i \notin Mine => outcome'[i] = outcome[i]
                          /\ i = j /\ i \in Mine /\ outcome[i] = "none" => outcome'[i] = "failure"
      BY <2>7, TellFacts DEF Mine
    <3>2. \A i \in Jobs : caller'[i] \in {"idle", "checked", "numbering", "assigned"} => outcome'[i] = "none"
      BY <2>2, <3>1 DEF OnceInv, Mine
    <3>3. ~misplaced => \A i \in Jobs : outcome'[i] # "again"
      BY <2>4, <3>1 DEF OnceInv
    <3>4. ~misplaced => \A i \in Mine \cap (JobsOf(commands) \cup ToSet(responses)) : outcome'[i] = "none"
      BY <1>0, <2>4, <3>1 DEF OnceInv
    <3> QED
      BY <2>2, <2>3, <2>4, <2>5, <2>7, <3>2, <3>3, <3>4 DEF OnceInv
  <2> QED
    BY <2>3, <2>6, <2>7
<1>14. CASE TakeCommand
  <2>1. PICK j \in Jobs : CommandTaken(j)
    BY <1>14, TakeCommandJobs
  <2>2. Mine' = Mine /\ UNCHANGED <<caller, outcome, misplaced, responses>> /\ processing' = j
    BY <2>1 DEF CommandTaken, Mine
  <2>3. /\ DistinctJobs(commands, Mine) => DistinctJobs(commands', Mine) /\ (j \in Mine => j \notin JobsOf(commands'))
        /\ JobsOf(commands) = JobsOf(commands') \cup {j}
    BY <1>0, <2>1 DEF CommandTaken
  <2>4. ~misplaced /\ j \in Mine => j \notin ToSet(responses)
    BY <2>3 DEF OnceInv
  <2> QED
    BY <2>2, <2>3, <2>4 DEF OnceInv
<1>15. CASE NotePendingWrite
  BY <1>15 DEF NotePendingWrite, appVars, queueVars, OnceInv, Mine
<1>9. CASE Register
  <2>1. /\ UNCHANGED <<caller, outcome, misplaced, commands>>
        /\ processing # none
        /\ responses' = Append(responses, processing)
        /\ processing' = none
    BY <1>0, <1>9 DEF Register, appVars
  <2>2. /\ ToSet(responses') = ToSet(responses) \cup {processing}
        /\ Distinct(responses, Mine) /\ (processing \in Mine => processing \notin ToSet(responses))
              => Distinct(responses', Mine)
    BY <1>0, <2>1, ResponsesAppend
  <2>3. Mine' = Mine /\ none \notin Mine
    BY <1>0, <2>1 DEF Mine
  <2> QED
    BY <2>1, <2>2, <2>3 DEF OnceInv
<1>10. CASE ContinueWrite
  <2>1. /\ UNCHANGED <<caller, commands, processing, stage>>
        /\ \/ UNCHANGED <<outcome, responses, misplaced>>
           \/ /\ pending_write # none /\ responses # <<>>
              /\ outcome' = outcome \/ outcome' = Tell(outcome, {pending_write}, "success")
              /\ responses' = Tail(responses)
              /\ misplaced' = (misplaced \/ Head(responses) # pending_write)
    BY <1>10 DEF ContinueWrite
  <2>2. Mine' = Mine
    BY <2>1 DEF Mine
  <2>3. CASE UNCHANGED <<outcome, responses, misplaced>>
    BY <2>1, <2>2, <2>3 DEF OnceInv
  <2>4. CASE /\ pending_write # none /\ responses # <<>>
             /\ outcome' = outcome \/ outcome' = Tell(outcome, {pending_write}, "success")
             /\ responses' = Tail(responses)
             /\ misplaced' = (misplaced \/ Head(responses) # pending_write)
    <3> DEFINE i == Head(responses)
    <3>1. \A j \in Jobs : /\ j # pending_write \/ j \notin Mine => outcome'[j] = outcome[j]
                          /\ outcome[j] = "none" => outcome'[j] \in {"none", "success"}
      BY <2>4, TellFacts DEF Mine
    <3>2. \A j \in Jobs : caller'[j] \in {"idle", "checked", "numbering", "assigned"} => outcome'[j] = "none"
      BY <2>1, <3>1 DEF OnceInv, Mine
    <3>3. /\ ToSet(responses) = ToSet(responses') \cup {i}
          /\ Distinct(responses, Mine) => Distinct(responses', Mine) /\ (i \in Mine => i \notin ToSet(responses'))
      BY <1>0, <2>4, ResponsesTail
    <3>4. ASSUME ~misplaced'
          PROVE  /\ ~misplaced /\ i = pending_write
                 /\ DistinctJobs(commands, Mine)
                 /\ Distinct(responses', Mine)
                 /\ Mine \cap JobsOf(commands) \cap ToSet(responses') = {}
                 /\ processing \in Mine => processing \notin JobsOf(commands) \cup ToSet(responses')
                 /\ i \in Mine => i \notin JobsOf(commands) \cup ToSet(responses') \cup {processing}
                 /\ i \in Mine => outcome[i] = "none"
      BY <2>4, <3>3, <3>4 DEF OnceInv
    <3> HIDE DEF i
    <3>5. ASSUME ~misplaced'
          PROVE  /\ \A j \in Mine \cap (JobsOf(commands) \cup ToSet(responses') \cup {processing}) : outcome'[j] = "none"
                 /\ \A j \in Jobs : outcome'[j] # "again"
      BY <1>0, <3>1, <3>3, <3>4, <3>5 DEF OnceInv
    <3> QED
      BY <2>1, <2>2, <3>2, <3>4, <3>5 DEF OnceInv
  <2> QED
    BY <2>1, <2>3, <2>4
<1>11. ASSUME UNCHANGED <<misplaced, outcome>>, Mine' = {},
              \A j \in Jobs : caller'[j] \in {"idle", "checked", "numbering", "assigned"} => caller[j] = caller'[j]
       PROVE  OnceInv'
  <2>1. \A j \in Jobs : caller'[j] \in {"idle", "checked", "numbering", "assigned"} => outcome'[j] = "none"
    BY <1>11 DEF OnceInv
  <2>2. DistinctJobs(commands', {}) /\ Distinct(responses', {})
    BY DEF DistinctJobs, Distinct
  <2> QED
    BY <1>11, <2>1, <2>2 DEF OnceInv
<1>12. CASE Dies
  <2>1. UNCHANGED <<misplaced, outcome>> /\ caller' = [j \in AllJobs |-> IF caller[j] = "idle" THEN "idle" ELSE "gone"]
    BY <1>12 DEF Dies
  <2> QED
    BY <1>11, <2>1 DEF Mine
<1>13. CASE Restart
  <2>1. UNCHANGED <<misplaced, outcome, caller>> /\ ~up
    BY <1>13, RestartJobs
  <2>2. Mine' = {}
    BY <2>1 DEF Mine, PlaceInv
  <2> QED
    BY <1>11, <2>1, <2>2
<1> QED
  BY <1>1, <1>2, <1>3, <1>4, <1>5, <1>6, <1>7, <1>8, <1>9, <1>10, <1>12, <1>13, <1>14,
     <1>15 DEF JobStep

(* The jobs that have an id only become fewer, except when one is given. *)
LEMMA IdsKept ==
    ASSUME IdsInv, Holders' \subseteq Holders, crossed \subseteq crossed',
           \A j \in Holders : token'[j] = token[j]
    PROVE  IdsInv'
BY DEF IdsInv

LEMMA IdsStep ==
    ASSUME TypeInv, PlaceInv, IdsInv, JobStep
    PROVE  IdsInv'
<1> USE JobsFacts
<1>0. /\ caller \in [AllJobs -> {"idle", "refused", "checked", "numbering", "assigned", "queued", "gone"}]
      /\ kind \in [AllJobs -> Kinds \cup {"con", "unmade"}]
      /\ token \in [AllJobs -> Nat]
      /\ processing \in Jobs \cup {none} /\ pending_write \in Jobs \cup {none}
      /\ responses \in Seq(Jobs)
      /\ (stage = "idle") = (processing = none)
  BY DEF TypeInv, AppTypes, ConnTypes, QueueTypes
<1>1. ASSUME UNCHANGED <<kind, caller, token, crossed>>,
             Jobs \cap JobsOf(commands') \subseteq JobsOf(commands) \cup FileJobs,
             Acknowledged \cap (ToSet(responses') \cup {processing'})
                 \subseteq JobsOf(commands) \cup ToSet(responses) \cup {processing},
             FileJobs' \subseteq FileJobs
      PROVE  IdsInv'
  <2>1. Acknowledged' = Acknowledged
    BY <1>1 DEF Acknowledged
  <2>2. Holders' \subseteq Holders
    BY <1>1, <2>1 DEF Holders, Live
  <2> QED
    BY <1>1, <2>2, IdsKept
<1>2. CASE Relays
  BY <1>1, <1>2, RelaidJobs DEF Relays
<1>3. CASE Clears
  <2>1. /\ commands' = <<>> /\ responses' = <<>> /\ store' = {}
        /\ UNCHANGED <<kind, caller, token, crossed, processing>>
    BY <1>3 DEF Clears, cleanSession
  <2>2. JobsOf(commands') = {} /\ ToSet(responses') = {} /\ FileJobs' = {}
    BY <2>1 DEF JobsOf, ToSet, FileJobs, FilesOf
  <2>3. Holders' \subseteq Holders
    BY <2>1, <2>2 DEF Holders, Live, Acknowledged
  <2> QED
    BY <2>1, <2>3, IdsKept
<1>4. CASE Replies
  <2>1. ToSet(responses') \subseteq ToSet(responses)
    BY <1>4, AnsweredJobs DEF Replies
  <2> QED
    BY <1>1, <1>4, <2>1 DEF Replies
<1>5. ASSUME NEW j \in Calls, Connect(j) PROVE IdsInv'
  <2>1. JobsOf(commands') \subseteq JobsOf(commands) \cup {j} /\ FileJobs' = FileJobs
    BY <1>5, ConnectJobs
  <2>2. UNCHANGED <<kind, token, crossed, responses, processing>> /\ caller' = [caller EXCEPT ![j] = "queued"]
    BY <1>5 DEF Connect, threadVars
  <2>3. Holders' \subseteq Holders
    BY <1>0, <2>1, <2>2 DEF Holders, Live, Acknowledged
  <2> QED
    BY <2>2, <2>3, IdsKept
<1>6. ASSUME NEW j \in Jobs, NEW k \in Kinds, CheckConnected(j, k) PROVE IdsInv'
  <2>1. /\ UNCHANGED <<token, crossed, commands, responses, store, processing>>
        /\ caller[j] = "idle"
        /\ \/ /\ caller' = [caller EXCEPT ![j] = "refused"]
              /\ kind' = kind
           \/ /\ kind' = [kind EXCEPT ![j] = k]
              /\ caller' = [caller EXCEPT ![j] = IF k \in {"pub0", "dis"} THEN "assigned" ELSE "checked"]
    BY <1>6 DEF CheckConnected, Begins, queueVars, threadVars
  <2>2. j \notin JobsOf(commands) \cup ToSet(responses) \cup FileJobs \cup {processing}
    BY <2>1 DEF PlaceInv
  <2>3. FileJobs' = FileJobs
    BY <2>1 DEF FileJobs, FilesOf
  <2>4. /\ \A i \in Jobs : i # j => caller'[i] = caller[i] /\ kind'[i] = kind[i]
        /\ caller'[j] = "assigned" => kind'[j] \in {"pub0", "dis"}
    BY <1>0, <2>1
  <2>5. Holders' \subseteq Holders
    BY <2>1, <2>2, <2>3, <2>4 DEF Holders, Live, Acknowledged
  <2> QED
    BY <2>1, <2>5, IdsKept
<1>7. ASSUME NEW j \in Jobs, AssignMsgId(j) PROVE IdsInv'
  <2>1. UNCHANGED <<kind, commands, responses, store, processing>> /\ up /\ processing = none /\ caller[j] = "numbering"
    BY <1>7 DEF AssignMsgId, Locked, threadVars
  <2>2. FileJobs' = FileJobs /\ Acknowledged' = Acknowledged /\ Live' = Live
    BY <2>1 DEF FileJobs, FilesOf, Acknowledged, Live
  <2>3. j \notin Holders
    BY <2>1 DEF Holders, Live, PlaceInv
  <2>4. ASSUME NEW id,
               Free(token[j], id),
               token' = [token EXCEPT ![j] = id],
               crossed' = crossed \cup Unseen(id),
               caller' = [caller EXCEPT ![j] = "assigned"]
        PROVE  IdsInv'
    <3> SUFFICES ASSUME crossed' = {} PROVE \A x \in Holders' : \A y \in Holders' : x # y => token'[x] # token'[y]
      BY DEF IdsInv
    <3>1. crossed = {} /\ Unseen(id) = {}
      BY <2>4
    <3>2. Holders' \subseteq Holders \cup {j}
      BY <1>0, <2>2, <2>4 DEF Holders
    <3>3. Holders \subseteq Jobs
      BY DEF Holders
    <3>4. /\ token'[j] = id
          /\ \A x \in Holders : token'[x] = token[x]
      BY <1>0, <2>3, <2>4, <3>3
    <3>5. ASSUME NEW x \in Holders PROVE token[x] # id
      <4>1. CASE caller[x] = "assigned"
        BY <3>1, <3>5, <4>1 DEF Unseen, Holders
      <4>2. CASE x \in Live \cup FileJobs
        <5>1. x \in JobsOf(commands) \cup ToSet(responses)
          BY <2>1, <4>2 DEF PlaceInv, Live
        <5> QED
          BY <2>4, <5>1 DEF Free, UsedIds
      <4> QED
        BY <4>1, <4>2 DEF Holders
    <3> QED
      BY <3>1, <3>2, <3>4, <3>5 DEF IdsInv
  <2>5. CASE token' = [token EXCEPT ![j] = 0] /\ crossed' = crossed /\ caller' = [caller EXCEPT ![j] = "refused"]
    <3>1. Holders' \subseteq Holders
      BY <1>0, <2>2, <2>5 DEF Holders
    <3>2. \A x \in Holders : token'[x] = token[x]
      BY <1>0, <2>3, <2>5 DEF Holders
    <3> QED
      BY <2>5, <3>1, <3>2, IdsKept
  <2> QED
    BY <1>7, <2>4, <2>5 DEF AssignMsgId
<1>8. ASSUME NEW j \in Jobs, AddCommand(j) PROVE IdsInv'
  <2>1. /\ UNCHANGED <<kind, token, crossed, responses, processing>>
        /\ caller[j] = "assigned"
        /\ caller' = [caller EXCEPT ![j] = "queued"]
    BY <1>8 DEF AddCommand, threadVars
  <2>2. JobsOf(commands') = JobsOf(commands) \cup {j} /\ FileJobs' \subseteq FileJobs \cup {j}
    BY <1>8, AddCommandJobs
  <2>3. Holders' \subseteq Holders
    BY <1>0, <2>1, <2>2 DEF Holders, Live, Acknowledged
  <2> QED
    BY <2>1, <2>3, IdsKept
<1>9. CASE ProcessPublish0
  <2>1. PICK rc \in Results : Publish0Leaves(rc)
    BY <1>9, Publish0Jobs
  <2> QED
    BY <1>1, <2>1 DEF Publish0Leaves
<1>10. CASE ProcessRequest
  <2>1. RequestLeaves
    BY <1>10, RequestJobs
  <2>2. ToSet(responses') \subseteq ToSet(responses) \cup {processing}
    BY <1>0, <2>1, ResponsesAppend DEF RequestLeaves
  <2> QED
    BY <1>1, <2>1, <2>2 DEF RequestLeaves
<1>11. CASE Register
  <2>1. /\ UNCHANGED <<kind, caller, token, crossed, commands, store>>
        /\ processing # none
        /\ responses' = Append(responses, processing)
        /\ processing' = none
    BY <1>0, <1>11 DEF Register, appVars
  <2>2. ToSet(responses') = ToSet(responses) \cup {processing} /\ FileJobs' = FileJobs
    BY <1>0, <2>1, ResponsesAppend DEF FileJobs, FilesOf
  <2> QED
    BY <1>1, <2>1, <2>2
<1>15. CASE TakeCommand
  <2>1. PICK j \in Jobs : CommandTaken(j)
    BY <1>15, TakeCommandJobs
  <2> QED
    BY <1>1, <2>1 DEF CommandTaken
<1>16. CASE NotePendingWrite
  <2>1. UNCHANGED <<kind, caller, token, crossed, commands, responses, processing, store>>
    BY <1>16 DEF NotePendingWrite, appVars, queueVars
  <2>2. FileJobs' = FileJobs
    BY <2>1 DEF FileJobs, FilesOf
  <2> QED
    BY <1>1, <2>1, <2>2
<1>17. ASSUME NEW j \in Jobs, ReadMsgId(j) PROVE IdsInv'
  <2>1. /\ UNCHANGED <<kind, crossed, commands, responses, store, processing>>
        /\ caller[j] = "checked"
        /\ caller' = [caller EXCEPT ![j] = "numbering"]
        /\ token' = [token EXCEPT ![j] = msgID]
    BY <1>17 DEF ReadMsgId, queueVars, threadVars
  <2>2. FileJobs' = FileJobs /\ Acknowledged' = Acknowledged /\ Live' = Live
    BY <2>1 DEF FileJobs, FilesOf, Acknowledged, Live
  <2>3. j \notin Holders
    BY <2>1 DEF Holders, Live, PlaceInv
  <2>4. Holders' \subseteq Holders
    BY <1>0, <2>1, <2>2 DEF Holders
  <2>5. \A x \in Holders : token'[x] = token[x]
    BY <1>0, <2>1, <2>3 DEF Holders
  <2> QED
    BY <2>1, <2>4, <2>5, IdsKept
<1>12. CASE ContinueWrite
  <2>1. /\ UNCHANGED <<kind, caller, token, crossed, commands, store, processing>>
        /\ responses' = responses \/ (responses # <<>> /\ responses' = Tail(responses))
    BY <1>12 DEF ContinueWrite
  <2>2. FileJobs' = FileJobs
    BY <2>1 DEF FileJobs, FilesOf
  <2>3. ToSet(responses') \subseteq ToSet(responses)
    <3>1. CASE responses' = responses
      BY <3>1
    <3>2. CASE responses # <<>> /\ responses' = Tail(responses)
      <4>1. ToSet(responses) = ToSet(Tail(responses)) \cup {Head(responses)}
        BY <1>0, <3>2, ResponsesTail
      <4> QED
        BY <3>2, <4>1
    <3> QED
      BY <2>1, <3>1, <3>2
  <2> QED
    BY <1>1, <2>1, <2>2, <2>3
<1>13. CASE Dies
  <2>1. /\ UNCHANGED <<kind, token, crossed, store>>
        /\ caller' = [j \in AllJobs |-> IF caller[j] = "idle" THEN "idle" ELSE "gone"]
        /\ commands' = <<>> /\ responses' = <<>> /\ processing' = none
    BY <1>13 DEF Dies
  <2>2. JobsOf(commands') = {} /\ ToSet(responses') = {} /\ FileJobs' = FileJobs
    BY <2>1 DEF JobsOf, ToSet, FileJobs, FilesOf
  <2>3. Holders' \subseteq Holders
    BY <1>0, <2>1, <2>2 DEF Holders, Live, Acknowledged
  <2> QED
    BY <2>1, <2>3, IdsKept
<1>14. CASE Restart
  BY <1>1, <1>14, RestartJobs
<1> QED
  BY <1>2, <1>3, <1>4, <1>5, <1>6, <1>7, <1>8, <1>9, <1>10, <1>11, <1>12, <1>13, <1>14, <1>15,
     <1>16, <1>17 DEF JobStep

LEMMA JobInit == Init => JobInv
<1> SUFFICES ASSUME Init PROVE JobInv
  OBVIOUS
<1>1. JobsOf(commands) = {} /\ ToSet(responses) = {} /\ FileJobs = {}
  BY DEF Init, JobsOf, ToSet, FileJobs, FilesOf
<1>2. \A j \in Jobs : j \in AllJobs /\ j \notin Calls
  BY JobsAssumption DEF AllJobs
<1>3. PlaceInv
  BY <1>1, <1>2 DEF PlaceInv, Init
<1>4. TokenKept
  BY <1>2 DEF TokenKept, Acknowledged, Init
<1>5. OnceInv
  BY <1>1, <1>2 DEF OnceInv, DistinctJobs, Distinct, Mine, Init
<1>6. IdsInv
  BY <1>1, <1>2 DEF IdsInv, Holders, Acknowledged, Init
<1> QED
  BY <1>3, <1>4, <1>5, <1>6 DEF JobInv

LEMMA JobKeeps == WireInv /\ JobInv /\ [Next]_vars => JobInv'
<1>1. ASSUME WireInv, JobInv, Next PROVE JobInv'
  <2>1. TypeInv /\ JobStep
    BY <1>1, JobNext DEF WireInv
  <2> QED
    BY <1>1, <2>1, PlaceStep, KeptStep, OnceStep, IdsStep DEF JobInv
<1>2. ASSUME JobInv, UNCHANGED vars PROVE JobInv'
  <2>1. UNCHANGED <<kind, caller, token, crossed, outcome, misplaced, commands, responses, processing, stage,
                    pending_write, up, connected, store>>
    BY <1>2 DEF vars, appVars, queueVars, connVars, threadVars
  <2>2. FileJobs' = FileJobs /\ Mine' = Mine /\ Acknowledged' = Acknowledged
    BY <2>1 DEF FileJobs, FilesOf, Mine, Acknowledged
  <2>3. Live' = Live /\ Holders' = Holders
    BY <2>1, <2>2 DEF Live, Holders
  <2>4. PlaceInv' /\ TokenKept'
    BY <1>2, <2>1, <2>2, <2>3 DEF JobInv, PlaceInv, TokenKept
  <2>5. OnceInv' /\ IdsInv'
    BY <1>2, <2>1, <2>2, <2>3 DEF JobInv, OnceInv, IdsInv
  <2> QED
    BY <2>4, <2>5 DEF JobInv
<1> QED
  BY <1>1, <1>2

\* The inductive invariant about the jobs: where a job may be by what its
\* caller has done, that a job of this process is in one place and untold,
\* and that the ids that are or may come into use differ.
THEOREM PahoJobs == Spec => []JobInv
BY JobInit, JobKeeps, PahoWire, PTL DEF Spec

\* While the client is connected, everything in the command queue, in the
\* send thread's hands and among the responses was asked for by this process,
\* and nothing that MQTTAsync_restoreCommands found in the store.
THEOREM PahoSessionStartsClean == Spec => []SessionStartsClean
<1>1. JobInv => SessionStartsClean
  BY DEF JobInv, PlaceInv, SessionStartsClean, Live
<1> QED
  BY <1>1, PahoJobs, PTL

\* No path through the send and the receive thread loses a token whose
\* callbacks have not been called, unless MQTTAsync_writeComplete has freed
\* another job's response.
THEOREM PahoTokenKept == Spec => []TokenKept
<1>1. JobInv => TokenKept
  BY DEF JobInv
<1> QED
  BY <1>1, PahoJobs, PTL

\* A token's callbacks are called once, however the answers, the failures, the
\* disconnects and the end of a cut write follow one another, with the same
\* exception.
THEOREM PahoTokenOnce == Spec => []TokenOnce
<1>1. JobInv => TokenOnce
  BY DEF JobInv, OnceInv, TokenOnce
<1> QED
  BY <1>1, PahoJobs, PTL

\* Requests that are queued, being sent or waiting for an answer have
\* different message ids, for any number of ids and of requests, as long as no
\* thread is given an id that another holds and has not queued yet, which is
\* what two calls at the same time can lead to (MQTTAsync_assignMsgId reads
\* msgID before it locks the mutex, and searches only what is queued).
THEOREM PahoMsgIdsDistinct == Spec => []MsgIdsDistinct
<1>1. JobInv => MsgIdsDistinct
  BY DEF JobInv, IdsInv, Holders, MsgIdsDistinct
<1> QED
  BY <1>1, PahoJobs, PTL

-----------------------------------------------------------------------------
(* The conversation with the broker.                                       *)

\* What is left of b is its asks from e places on, and the same for c.
KeepsAsks(b, b1, e) == \A i \in AsksIn(b1) : i + e \in AsksIn(b) /\ b1[i].packet = b[i + e].packet

KeepsAnswers(c, c1, d) == \A i \in AnswersIn(c1) : i + d \in AnswersIn(c) /\ c1[i] = c[i + d]

LEMMA Places ==
    ASSUME NEW b \in Seq(Pieces), NEW c \in Seq(Packets)
    PROVE  AsksIn(b) \subseteq Nat \ {0} /\ AnswersIn(c) \subseteq Nat \ {0}
BY LenProperties DEF AsksIn, AnswersIn

(* When packets only go, those that are left are alone. *)
LEMMA AloneKept ==
    ASSUME NEW b \in Seq(Pieces), NEW c \in Seq(Packets), NEW b1 \in Seq(Pieces), NEW c1 \in Seq(Packets), NEW h,
           NEW e \in Nat, NEW d \in Nat, KeepsAsks(b, b1, e), KeepsAnswers(c, c1, d)
    PROVE  /\ Underway(b1, c1, h) \subseteq Underway(b, c, h)
           /\ Alone(b, c, h) => Alone(b1, c1, h)
<1>1. Underway(b1, c1, h) \subseteq Underway(b, c, h)
  BY DEF Underway, KeepsAsks, KeepsAnswers
<1>2. ASSUME Alone(b, c, h) PROVE Alone(b1, c1, h)
  <2>1. \A i \in AsksIn(b1) : \A k \in AsksIn(b1) : b1[i].packet.id = b1[k].packet.id => i = k
    <3>1. ASSUME NEW i \in AsksIn(b1), NEW k \in AsksIn(b1), b1[i].packet.id = b1[k].packet.id PROVE i = k
      <4>1. i + e = k + e
        BY <1>2, <3>1 DEF Alone, KeepsAsks
      <4>2. i \in Nat /\ k \in Nat
        BY Places
      <4> QED
        BY <4>1, <4>2
    <3> QED
      BY <3>1
  <2>2. \A i \in AnswersIn(c1) : \A k \in AnswersIn(c1) : c1[i].id = c1[k].id => i = k
    <3>1. ASSUME NEW i \in AnswersIn(c1), NEW k \in AnswersIn(c1), c1[i].id = c1[k].id PROVE i = k
      <4>1. i + d = k + d
        BY <1>2, <3>1 DEF Alone, KeepsAnswers
      <4>2. i \in Nat /\ k \in Nat
        BY Places
      <4> QED
        BY <4>1, <4>2
    <3> QED
      BY <3>1
  <2>3. \A i \in AsksIn(b1) : \A k \in AnswersIn(c1) : b1[i].packet.id # c1[k].id
    <3>1. ASSUME NEW i \in AsksIn(b1), NEW k \in AnswersIn(c1) PROVE b1[i].packet.id # c1[k].id
      <4>1. i + e \in AsksIn(b) /\ b1[i].packet = b[i + e].packet
        BY DEF KeepsAsks
      <4>2. k + d \in AnswersIn(c) /\ c1[k] = c[k + d]
        BY DEF KeepsAnswers
      <4>3. b[i + e].packet.id # c[k + d].id
        BY <1>2, <4>1, <4>2, Zenon DEF Alone
      <4> QED
        BY <4>1, <4>2, <4>3
    <3> QED
      BY <3>1
  <2>4. IsAnswer(h) => /\ \A i \in AsksIn(b1) : b1[i].packet.id # h.id
                       /\ \A k \in AnswersIn(c1) : c1[k].id # h.id
    BY <1>2 DEF Alone, KeepsAsks, KeepsAnswers
  <2> QED
    BY <2>1, <2>2, <2>3, <2>4 DEF Alone
<1> QED
  BY <1>1, <1>2

(* When the first ask goes, no other packet has its id. *)
LEMMA AskGone ==
    ASSUME NEW b \in Seq(Pieces), NEW c \in Seq(Packets), NEW b1 \in Seq(Pieces), NEW h,
           NEW e \in Nat \ {0}, KeepsAsks(b, b1, e), 1 \in AsksIn(b), Alone(b, c, h)
    PROVE  Fresh(b[1].packet.id, b1, c, h)
<1>1. ASSUME NEW i \in AsksIn(b1) PROVE b1[i].packet.id # b[1].packet.id
  <2>1. i \in Nat \ {0} /\ i + e \in AsksIn(b) /\ b1[i].packet = b[i + e].packet
    BY Places DEF KeepsAsks
  <2>2. i + e # 1
    BY <2>1
  <2> QED
    BY <2>1, <2>2 DEF Alone
<1>2. \A k \in AnswersIn(c) : c[k].id # b[1].packet.id
  BY DEF Alone
<1>3. IsAnswer(h) => h.id # b[1].packet.id
  BY DEF Alone
<1> QED
  BY <1>1, <1>2, <1>3 DEF Fresh, Underway

(* The same for the first answer, *)
LEMMA AnswerGone ==
    ASSUME NEW b \in Seq(Pieces), NEW c \in Seq(Packets), NEW c1 \in Seq(Packets), NEW h,
           KeepsAnswers(c, c1, 1), 1 \in AnswersIn(c), Alone(b, c, h)
    PROVE  Fresh(c[1].id, b, c1, h)
<1>1. ASSUME NEW i \in AnswersIn(c1) PROVE c1[i].id # c[1].id
  <2>1. i \in Nat \ {0} /\ i + 1 \in AnswersIn(c) /\ c1[i] = c[i + 1]
    BY Places DEF KeepsAnswers
  <2>2. i + 1 # 1
    BY <2>1
  <2> QED
    BY <2>1, <2>2 DEF Alone
<1>2. \A k \in AsksIn(b) : b[k].packet.id # c[1].id
  BY DEF Alone
<1>3. IsAnswer(h) => h.id # c[1].id
  BY DEF Alone
<1> QED
  BY <1>1, <1>2, <1>3 DEF Fresh, Underway

(* and for the one that is held. *)
LEMMA HeldGone ==
    ASSUME NEW b, NEW c, NEW h, IsAnswer(h), Alone(b, c, h), NEW h1, ~IsAnswer(h1)
    PROVE  Fresh(h.id, b, c, h1) /\ Alone(b, c, h1) /\ Underway(b, c, h1) \subseteq Underway(b, c, h)
BY DEF Fresh, Underway, Alone

LEMMA NotHeld ==
    ASSUME NEW b, NEW c, NEW h, NEW h1, ~IsAnswer(h1)
    PROVE  /\ Underway(b, c, h1) \subseteq Underway(b, c, h)
           /\ Alone(b, c, h) => Alone(b, c, h1)
BY DEF Underway, Alone

LEMMA NewHeld ==
    ASSUME NEW b, NEW c, NEW h, NEW r, Alone(b, c, h), ~IsAnswer(h), Fresh(r.id, b, c, h)
    PROVE  Alone(b, c, r) /\ Underway(b, c, r) \subseteq Underway(b, c, h) \cup {r}
BY DEF Fresh, Underway, Alone

(* What is written. *)
\* b1 is b with part of p appended.
Grown(b, b1, part, p) ==
    /\ b1 \in Seq(Pieces)
    /\ b1[Len(b) + 1].packet = p
    /\ \A i \in AsksIn(b) : b1[i] = b[i]
    /\ \A i \in AsksIn(b1) : i \in AsksIn(b) \/ (i = Len(b) + 1 /\ part # "rest" /\ IsAsk(p))
    /\ \A i \in ConnectsIn(b1) : i \in ConnectsIn(b) \/ (i = Len(b) + 1 /\ part # "rest" /\ p.type = "CONNECT")
    /\ \A i \in DOMAIN b1 : (i \in DOMAIN b /\ b1[i] = b[i]) \/ b1[i] = Piece(part, p)

LEMMA Appended ==
    ASSUME NEW b \in Seq(Pieces), NEW part \in {"whole", "front", "rest"}, NEW p \in Packets
    PROVE  Grown(b, Append(b, Piece(part, p)), part, p)
<1>0. PICK b1 : b1 = Append(b, Piece(part, p))
  OBVIOUS
<1> DEFINE e == Piece(part, p)
           n == Len(b)
<1>1. n \in Nat /\ DOMAIN b = 1 .. n
  BY LenProperties
<1>2. e \in Pieces /\ e.part = part /\ e.packet = p
  BY PieceTyped
<1> HIDE DEF e
<1>3. /\ b1 \in Seq(Pieces)
      /\ Len(b1) = n + 1
      /\ \A i \in 1 .. n : b1[i] = b[i]
      /\ b1[n + 1] = e
  BY <1>0, <1>1, <1>2, AppendFacts DEF e
<1>4. DOMAIN b1 = 1 .. n + 1
  BY <1>3, LenProperties
<1> HIDE DEF n
<1>5. \A i \in 1 .. n + 1 : i \in 1 .. n \/ i = n + 1
  BY <1>1
<1>7. \A i \in DOMAIN b1 : (i \in DOMAIN b /\ b1[i] = b[i]) \/ (i = n + 1 /\ b1[i] = e)
  BY <1>1, <1>3, <1>4, <1>5
<1>8. \A i \in AsksIn(b1) : i \in AsksIn(b) \/ (i = n + 1 /\ part # "rest" /\ IsAsk(p))
  BY <1>2, <1>7 DEF AsksIn
<1>9. \A i \in ConnectsIn(b1) : i \in ConnectsIn(b) \/ (i = n + 1 /\ part # "rest" /\ p.type = "CONNECT")
  BY <1>2, <1>7 DEF ConnectsIn
<1>10. \A i \in AsksIn(b) : b1[i] = b[i]
  BY <1>1, <1>3 DEF AsksIn
<1>11. Grown(b, b1, part, p)
  BY <1>2, <1>3, <1>7, <1>8, <1>9, <1>10 DEF Grown, n, e
<1> QED
  BY <1>0, <1>11, Zenon

\* p is the new ask of b1, at place n.
AskAt(b, b1, n, p) ==
    /\ b1[n].packet = p
    /\ \A i \in AsksIn(b) : b1[i] = b[i]
    /\ \A i \in AsksIn(b1) : i \in AsksIn(b) \/ i = n

LEMMA AskAlone ==
    ASSUME NEW b, NEW b1, NEW n, NEW c, NEW h, NEW p, AskAt(b, b1, n, p), Alone(b, c, h), Fresh(p.id, b, c, h)
    PROVE  /\ Alone(b1, c, h)
           /\ Underway(b1, c, h) \subseteq Underway(b, c, h) \cup {p}
<1>1. /\ b1[n].packet = p
      /\ \A i \in AsksIn(b) : b1[i] = b[i]
      /\ \A i \in AsksIn(b1) : i \in AsksIn(b) \/ i = n
  BY DEF AskAt
<1>2. \A i \in AsksIn(b) : b[i].packet.id # p.id
  BY DEF Fresh, Underway
<1>3. \A i \in AnswersIn(c) : c[i].id # p.id
  BY DEF Fresh, Underway
<1>4. IsAnswer(h) => h.id # p.id
  BY DEF Fresh, Underway
<1>5. \A i \in AsksIn(b1) : \A k \in AsksIn(b1) : b1[i].packet.id = b1[k].packet.id => i = k
  BY <1>1, <1>2 DEF Alone
<1>6. \A i \in AsksIn(b1) : \A k \in AnswersIn(c) : b1[i].packet.id # c[k].id
  BY <1>1, <1>3 DEF Alone
<1>7. IsAnswer(h) => \A i \in AsksIn(b1) : b1[i].packet.id # h.id
  BY <1>1, <1>4 DEF Alone
<1>8. Alone(b1, c, h)
  BY <1>5, <1>6, <1>7 DEF Alone
<1>9. Underway(b1, c, h) \subseteq Underway(b, c, h) \cup {p}
  BY <1>1 DEF Underway
<1> QED
  BY <1>8, <1>9

LEMMA NewAsk ==
    ASSUME NEW b \in Seq(Pieces), NEW c, NEW h, NEW part \in {"whole", "front"}, NEW p \in Packets,
           Alone(b, c, h), Fresh(p.id, b, c, h)
    PROVE  /\ Alone(Append(b, Piece(part, p)), c, h)
           /\ Underway(Append(b, Piece(part, p)), c, h) \subseteq Underway(b, c, h) \cup {p}
<1>1. PICK b1 : b1 = Append(b, Piece(part, p))
  OBVIOUS
<1>2. part \in {"whole", "front", "rest"}
  OBVIOUS
<1>3. AskAt(b, b1, Len(b) + 1, p)
  <2>1. Grown(b, b1, part, p)
    BY <1>1, <1>2, Appended, Zenon
  <2> QED
    BY <2>1 DEF AskAt, Grown
<1>4. Alone(b1, c, h) /\ Underway(b1, c, h) \subseteq Underway(b, c, h) \cup {p}
  BY <1>3, AskAlone, Zenon
<1> QED
  BY <1>1, <1>4, Zenon

(* What can be read. *)
GrownAnswers(c, c1, r) ==
    /\ c1 \in Seq(Packets)
    /\ c1[Len(c) + 1] = r
    /\ \A i \in AnswersIn(c) : c1[i] = c[i]
    /\ \A i \in AnswersIn(c1) : i \in AnswersIn(c) \/ (i = Len(c) + 1 /\ IsAnswer(r))

LEMMA AppendedAnswer ==
    ASSUME NEW c \in Seq(Packets), NEW r \in Packets
    PROVE  GrownAnswers(c, Append(c, r), r)
<1>0. PICK c1 : c1 = Append(c, r)
  OBVIOUS
<1> DEFINE n == Len(c)
<1>1. n \in Nat /\ DOMAIN c = 1 .. n
  BY LenProperties
<1>3. /\ c1 \in Seq(Packets)
      /\ Len(c1) = n + 1
      /\ \A i \in 1 .. n : c1[i] = c[i]
      /\ c1[n + 1] = r
  BY <1>0, <1>1, AppendFacts
<1>4. DOMAIN c1 = 1 .. n + 1
  BY <1>3, LenProperties
<1> HIDE DEF n
<1>5. \A i \in 1 .. n + 1 : i \in 1 .. n \/ i = n + 1
  BY <1>1
<1>7. \A i \in DOMAIN c1 : (i \in DOMAIN c /\ c1[i] = c[i]) \/ (i = n + 1 /\ c1[i] = r)
  BY <1>1, <1>3, <1>4, <1>5
<1>8. \A i \in AnswersIn(c1) : i \in AnswersIn(c) \/ (i = n + 1 /\ IsAnswer(r))
  BY <1>7 DEF AnswersIn
<1>10. \A i \in AnswersIn(c) : c1[i] = c[i]
  BY <1>1, <1>3 DEF AnswersIn
<1>11. GrownAnswers(c, c1, r)
  BY <1>3, <1>8, <1>10 DEF GrownAnswers, n
<1> QED
  BY <1>0, <1>11, Zenon

AnswerAt(c, c1, n, r) ==
    /\ c1[n] = r
    /\ \A i \in AnswersIn(c) : c1[i] = c[i]
    /\ \A i \in AnswersIn(c1) : i \in AnswersIn(c) \/ i = n

LEMMA AnswerAlone ==
    ASSUME NEW b, NEW c, NEW c1, NEW n, NEW h, NEW r, AnswerAt(c, c1, n, r), Alone(b, c, h), Fresh(r.id, b, c, h)
    PROVE  /\ Alone(b, c1, h)
           /\ Underway(b, c1, h) \subseteq Underway(b, c, h) \cup {r}
<1>1. /\ c1[n] = r
      /\ \A i \in AnswersIn(c) : c1[i] = c[i]
      /\ \A i \in AnswersIn(c1) : i \in AnswersIn(c) \/ i = n
  BY DEF AnswerAt
<1>2. \A i \in AsksIn(b) : b[i].packet.id # r.id
  BY DEF Fresh, Underway
<1>3. \A i \in AnswersIn(c) : c[i].id # r.id
  BY DEF Fresh, Underway
<1>4. IsAnswer(h) => h.id # r.id
  BY DEF Fresh, Underway
<1>5. \A i \in AnswersIn(c1) : \A k \in AnswersIn(c1) : c1[i].id = c1[k].id => i = k
  BY <1>1, <1>3 DEF Alone
<1>6. \A i \in AsksIn(b) : \A k \in AnswersIn(c1) : b[i].packet.id # c1[k].id
  BY <1>1, <1>2 DEF Alone
<1>7. IsAnswer(h) => \A k \in AnswersIn(c1) : c1[k].id # h.id
  BY <1>1, <1>4 DEF Alone
<1>8. Alone(b, c1, h)
  BY <1>5, <1>6, <1>7 DEF Alone
<1>9. Underway(b, c1, h) \subseteq Underway(b, c, h) \cup {r}
  BY <1>1 DEF Underway
<1> QED
  BY <1>8, <1>9

LEMMA NewAnswer ==
    ASSUME NEW b, NEW c \in Seq(Packets), NEW h, NEW r \in Packets, Alone(b, c, h), Fresh(r.id, b, c, h)
    PROVE  /\ Alone(b, Append(c, r), h)
           /\ Underway(b, Append(c, r), h) \subseteq Underway(b, c, h) \cup {r}
<1>1. PICK c1 : c1 = Append(c, r)
  OBVIOUS
<1>2. AnswerAt(c, c1, Len(c) + 1, r)
  <2>1. GrownAnswers(c, c1, r)
    BY <1>1, AppendedAnswer, Zenon
  <2> QED
    BY <2>1 DEF AnswerAt, GrownAnswers
<1>3. Alone(b, c1, h) /\ Underway(b, c1, h) \subseteq Underway(b, c, h) \cup {r}
  BY <1>2, AnswerAlone, Zenon
<1> QED
  BY <1>1, <1>3, Zenon

(* What is left after a packet was read. *)
Shifted(s, s1, e) == \A i \in DOMAIN s1 : i + e \in DOMAIN s /\ s1[i] = s[i + e]

LEMMA ShiftedKeeps ==
    ASSUME NEW s, NEW s1, NEW e, Shifted(s, s1, e)
    PROVE  /\ KeepsAsks(s, s1, e)
           /\ KeepsAnswers(s, s1, e)
           /\ \A i \in ConnectsIn(s1) : i + e \in ConnectsIn(s)
BY DEF Shifted, KeepsAsks, KeepsAnswers, AsksIn, AnswersIn, ConnectsIn

LEMMA KeepsSame ==
    ASSUME NEW b \in Seq(Pieces), NEW c \in Seq(Packets)
    PROVE  /\ KeepsAsks(b, b, 0) /\ KeepsAsks(b, <<>>, 0)
           /\ KeepsAnswers(c, c, 0) /\ KeepsAnswers(c, <<>>, 0)
<1>1. AsksIn(b) \subseteq Nat /\ AnswersIn(c) \subseteq Nat
  BY Places
<1>2. AsksIn(<<>>) = {} /\ AnswersIn(<<>>) = {}
  BY DEF AsksIn, AnswersIn
<1> QED
  BY <1>1, <1>2 DEF KeepsAsks, KeepsAnswers

LEMMA KeepsAppend ==
    ASSUME NEW b \in Seq(Pieces), NEW part \in {"whole", "front", "rest"}, NEW p \in Packets,
           part = "rest" \/ ~IsAsk(p)
    PROVE  KeepsAsks(b, Append(b, Piece(part, p)), 0)
<1>1. PICK b1 : b1 = Append(b, Piece(part, p))
  OBVIOUS
<1>2. Grown(b, b1, part, p)
  BY <1>1, Appended, Zenon
<1>3. AsksIn(b) \subseteq Nat
  BY KeepsSame, LenProperties DEF AsksIn
<1>4. KeepsAsks(b, b1, 0)
  <2>1. \A i \in AsksIn(b1) : i \in AsksIn(b)
    BY <1>2 DEF Grown
  <2>2. \A i \in AsksIn(b) : b1[i] = b[i] /\ i + 0 = i
    BY <1>2, <1>3 DEF Grown
  <2> QED
    BY <2>1, <2>2 DEF KeepsAsks
<1> QED
  BY <1>1, <1>4, Zenon

LEMMA KeepsAppendAnswers ==
    ASSUME NEW c \in Seq(Packets), NEW r \in Packets, ~IsAnswer(r)
    PROVE  KeepsAnswers(c, Append(c, r), 0)
<1>1. PICK c1 : c1 = Append(c, r)
  OBVIOUS
<1>2. GrownAnswers(c, c1, r)
  BY <1>1, AppendedAnswer, Zenon
<1>3. AnswersIn(c) \subseteq Nat
  BY LenProperties DEF AnswersIn
<1>4. KeepsAnswers(c, c1, 0)
  <2>1. \A i \in AnswersIn(c1) : i \in AnswersIn(c)
    BY <1>2 DEF GrownAnswers
  <2>2. \A i \in AnswersIn(c) : c1[i] = c[i] /\ i + 0 = i
    BY <1>2, <1>3 DEF GrownAnswers
  <2> QED
    BY <2>1, <2>2 DEF KeepsAnswers
<1> QED
  BY <1>1, <1>4, Zenon

LEMMA ShiftedTail ==
    ASSUME NEW S, NEW s \in Seq(S), s # <<>>
    PROVE  Tail(s) \in Seq(S) /\ Shifted(s, Tail(s), 1)
<1> DEFINE t == Tail(s)
           n == Len(s)
<1>1. /\ n \in Nat \ {0}
      /\ DOMAIN s = 1 .. n
      /\ t \in Seq(S)
      /\ Len(t) = n - 1
      /\ \A i \in 1 .. n - 1 : t[i] = s[i + 1]
  BY SeqFacts, LenProperties
<1>2. DOMAIN t = 1 .. n - 1
  BY <1>1, LenProperties
<1> HIDE DEF t, n
<1>3. \A i \in 1 .. n - 1 : i + 1 \in 1 .. n
  BY <1>1
<1>4. Shifted(s, t, 1)
  BY <1>1, <1>2, <1>3 DEF Shifted
<1> QED
  BY <1>1, <1>4 DEF t

LEMMA ShiftedRead ==
    ASSUME WireTypes, Readable
    PROVE  /\ AfterReadable \in Seq(Pieces)
           /\ \E e \in {1, 2} : Shifted(toBroker, AfterReadable, e)
           /\ 1 \in DOMAIN toBroker /\ Head(toBroker) = toBroker[1] /\ toBroker[1].part # "rest"
           /\ toBroker[1] \in Pieces
<1>1. toBroker \in Seq(Pieces) /\ toBroker # <<>>
  BY EmptySeq DEF WireTypes, Readable
<1>2. /\ Len(toBroker) \in Nat \ {0}
      /\ DOMAIN toBroker = 1 .. Len(toBroker)
      /\ Head(toBroker) = toBroker[1]
      /\ Head(toBroker) \in Pieces
      /\ Len(Tail(toBroker)) = Len(toBroker) - 1
  BY <1>1, SeqFacts, LenProperties
<1>3. 1 \in DOMAIN toBroker /\ Head(toBroker) = toBroker[1] /\ toBroker[1].part # "rest" /\ toBroker[1] \in Pieces
  BY <1>2 DEF Readable
<1>4. PICK t : t = Tail(toBroker)
  OBVIOUS
<1>5. t \in Seq(Pieces) /\ Shifted(toBroker, t, 1)
  BY <1>1, <1>4, ShiftedTail
<1>6. CASE Head(toBroker).part = "whole"
  BY <1>3, <1>4, <1>5, <1>6 DEF AfterReadable
<1>7. CASE Head(toBroker).part # "whole"
  <2>1. AfterReadable = Tail(t) /\ Len(toBroker) > 1
    BY <1>4, <1>7 DEF AfterReadable, Readable
  <2>2. t # <<>>
    <3>1. \A n \in Nat : n > 1 => n - 1 # 0
      OBVIOUS
    <3>2. Len(t) # 0
      BY <1>2, <1>4, <2>1, <3>1
    <3> QED
      BY <3>2, EmptySeq
  <2>3. PICK u : u = Tail(t)
    OBVIOUS
  <2>4. u \in Seq(Pieces) /\ Shifted(t, u, 1)
    BY <1>5, <2>2, <2>3, ShiftedTail
  <2>5. DOMAIN u \subseteq Nat
    BY <2>4, LenProperties
  <2>6. Shifted(toBroker, u, 2)
    <3>1. ASSUME NEW i \in DOMAIN u PROVE i + 2 \in DOMAIN toBroker /\ u[i] = toBroker[i + 2]
      <4>1. i + 1 \in DOMAIN t /\ u[i] = t[i + 1]
        BY <2>4 DEF Shifted
      <4>2. (i + 1) + 1 \in DOMAIN toBroker /\ t[i + 1] = toBroker[(i + 1) + 1]
        BY <1>5, <4>1 DEF Shifted
      <4>3. (i + 1) + 1 = i + 2
        BY <2>5
      <4> QED
        BY <4>1, <4>2, <4>3
    <3> QED
      BY <3>1 DEF Shifted
  <2> QED
    BY <1>3, <2>1, <2>3, <2>4, <2>6
<1> QED
  BY <1>6, <1>7

(* CONNECT stays the first packet of a connection. *)
LEMMA ConnectsWritten ==
    ASSUME WireTypes, NEW part \in {"whole", "front", "rest"}, NEW p \in Packets,
           part = "rest" \/ p.type # "CONNECT",
           toBroker' = Append(toBroker, Piece(part, p))
    PROVE  ConnectsIn(toBroker') \subseteq ConnectsIn(toBroker)
<1>1. toBroker \in Seq(Pieces)
  BY DEF WireTypes
<1>2. PICK b1 : b1 = Append(toBroker, Piece(part, p))
  OBVIOUS
<1>3. Grown(toBroker, b1, part, p)
  BY <1>1, <1>2, Appended, Zenon
<1>4. ConnectsIn(b1) \subseteq ConnectsIn(toBroker)
  BY <1>3 DEF Grown
<1> QED
  BY <1>2, <1>4, Zenon

LEMMA ConnectsKept ==
    ASSUME WireTypes, StreamInv,
           \/ UNCHANGED toBroker
           \/ toBroker' = <<>>
           \/ \E p \in Packets, rc \in Results : p.type # "CONNECT" /\ Socket_putdatas(p, rc)
           \/ Socket_continueWrites
           \/ closeOnly
    PROVE  ConnectsIn(toBroker') \subseteq ConnectsIn(toBroker)
<1>1. CASE UNCHANGED toBroker \/ toBroker' = <<>>
  BY <1>1 DEF ConnectsIn
<1>2. ASSUME NEW p \in Packets, NEW rc \in Results, p.type # "CONNECT", Socket_putdatas(p, rc)
      PROVE  ConnectsIn(toBroker') \subseteq ConnectsIn(toBroker)
  <2>1. \/ UNCHANGED toBroker
        \/ \E part \in {"whole", "front", "rest"} : toBroker' = Append(toBroker, Piece(part, p))
    BY <1>2 DEF Socket_putdatas
  <2> QED
    BY <1>1, <1>2, <2>1, ConnectsWritten
<1>3. CASE Socket_continueWrites
  <2>1. writes \in Seq(Packets) /\ writes # <<>>
    BY <1>3 DEF Socket_continueWrites, StreamInv, WireTypes
  <2>2. Head(writes) \in Packets
    BY <2>1, SeqFacts
  <2>3. UNCHANGED toBroker \/ toBroker' = Append(toBroker, Piece("rest", Head(writes)))
    BY <1>3 DEF Socket_continueWrites
  <2> QED
    BY <1>1, <2>2, <2>3, ConnectsWritten
<1>4. CASE closeOnly
  <2>1. PICK p : p = Packet("DISCONNECT", 0, none)
    OBVIOUS
  <2>2. p \in Packets /\ p.type # "CONNECT"
    BY <2>1, ClientPackets DEF Packet
  <2>3. UNCHANGED toBroker \/ toBroker' = Append(toBroker, Piece("whole", p))
    BY <1>4, <2>1 DEF closeOnly, Socket_close
  <2> QED
    BY <1>1, <2>2, <2>3, ConnectsWritten
<1> QED
  BY <1>1, <1>2, <1>3, <1>4

(* Once CONNECT is read there is none. *)
LEMMA ConnectsRead ==
    ASSUME WireTypes, Readable, toBroker' = AfterReadable, ConnectsIn(toBroker) \subseteq {1}
    PROVE  /\ ConnectsIn(toBroker') = {}
           /\ Head(toBroker).packet.type # "CONNECT" => ConnectsIn(toBroker) = {}
<1>1. PICK e \in {1, 2} : Shifted(toBroker, toBroker', e)
  BY ShiftedRead
<1>2. \A i \in ConnectsIn(toBroker') : i + e \in ConnectsIn(toBroker)
  <2>1. PICK b1 : b1 = toBroker'
    OBVIOUS
  <2>2. \A i \in ConnectsIn(b1) : i + e \in ConnectsIn(toBroker)
    BY <1>1, <2>1, ShiftedKeeps
  <2> QED
    BY <2>1, <2>2
<1>3. \A i \in ConnectsIn(toBroker') : i \in Nat \ {0}
  <2>1. toBroker' \in Seq(Pieces)
    BY ShiftedRead
  <2> QED
    BY <2>1, LenProperties DEF ConnectsIn
<1>4. ConnectsIn(toBroker') = {}
  BY <1>2, <1>3
<1>5. Head(toBroker).packet.type # "CONNECT" => ConnectsIn(toBroker) = {}
  BY ShiftedRead DEF ConnectsIn
<1> QED
  BY <1>4, <1>5

LEMMA LinkStep ==
    ASSUME TypeInv, StreamInv, LinkInv, Next
    PROVE  LinkInv'
<1> USE DEF TypeInv
<1>1. ASSUME UNCHANGED <<connected, connect_state, link>>,
             link # "open" => UNCHANGED toClient,
             link = "connecting" => toBroker' = <<>>,
             ConnectsIn(toBroker') \subseteq ConnectsIn(toBroker)
      PROVE  LinkInv'
  BY <1>1 DEF LinkInv, ConnectsIn
<1>2. ASSUME UNCHANGED <<connected, connect_state, link, toBroker>>, link # "open" => UNCHANGED toClient
      PROVE  LinkInv'
  BY <1>2 DEF LinkInv, ConnectsIn
<1>3. ASSUME UNCHANGED <<connected, connect_state, link>>, link # "open" => UNCHANGED toClient,
             NEW p \in Packets, NEW rc \in Results, p.type # "CONNECT", Socket_putdatas(p, rc)
      PROVE  LinkInv'
  <2>1. ConnectsIn(toBroker') \subseteq ConnectsIn(toBroker)
    BY <1>3, ConnectsKept
  <2>2. link = "connecting" => toBroker' = <<>>
    BY <1>3 DEF Socket_putdatas, LinkInv
  <2> QED
    BY <1>1, <1>3, <2>1, <2>2
<1>4. ASSUME closeOnly PROVE LinkInv'
  <2>1. ConnectsIn(toBroker') \subseteq ConnectsIn(toBroker)
    BY <1>4, ConnectsKept
  <2> QED
    BY <1>4, <2>1 DEF closeOnly, Socket_close, LinkInv, ConnectsIn
<1>5. CASE \/ ApplicationStep \/ TakeCommand \/ NotePendingWrite \/ Register \/ Select \/ NothingToRead
           \/ ReadFails \/ ReceiveSuback \/ Restart
  <2>1. UNCHANGED <<connected, connect_state, link, toBroker, toClient>>
    BY <1>5 DEF ApplicationStep, Connect, CheckConnected, ReadMsgId, AssignMsgId, AddCommand, TakeCommand,
         NotePendingWrite, Register, Select, NothingToRead, ReadFails, ReceiveSuback, Restart, connVars,
         sockVars
  <2> QED
    BY <1>2, <2>1
<1>6. CASE ProcessConnect
  <2>1. \/ UNCHANGED <<connected, connect_state, link, toBroker, toClient>>
        \/ ~connected /\ connected' = connected /\ Socket_new /\ connect_state' = 1
    BY <1>6 DEF ProcessConnect, sockVars
  <2>2. CASE ~connected /\ connected' = connected /\ Socket_new /\ connect_state' = 1
    BY <2>2 DEF Socket_new, LinkInv, ConnectsIn
  <2> QED
    BY <1>2, <2>1, <2>2
<1>7. CASE ProcessDisconnect
  <2>1. closeOnly \/ UNCHANGED <<connected, connect_state, link, toBroker, toClient>>
    BY <1>7 DEF ProcessDisconnect, checkDisconnect, closeSession, sockVars
  <2> QED
    BY <1>2, <1>4, <2>1
<1>8. CASE ProcessPublish0
  <2>1. UNCHANGED <<connected, connect_state, link, toClient>>
    BY <1>8 DEF ProcessPublish0, connVars
  <2> QED
    BY <1>3, <1>8, <2>1, Publish0Sent
<1>9. CASE ProcessRequest
  <2>1. UNCHANGED <<connected, connect_state, link, toClient>>
    BY <1>9 DEF ProcessRequest, connVars
  <2> QED
    BY <1>3, <1>9, <2>1, RequestSent
<1>10. CASE ConnectTimesOut \/ ConnectBreaks
  BY <1>4, <1>10 DEF ConnectTimesOut, ConnectBreaks, ConnectFails, closeSession
<1>11. CASE ContinueWrite
  <2>1. Socket_continueWrites /\ UNCHANGED <<connected, connect_state, link, toClient>>
    BY <1>11 DEF ContinueWrite, connVars
  <2>2. ConnectsIn(toBroker') \subseteq ConnectsIn(toBroker)
    BY <2>1, ConnectsKept
  <2> QED
    BY <1>1, <2>1, <2>2 DEF Socket_continueWrites
<1>12. CASE Connecting
  <2>1. PICK p : p = Packet("CONNECT", 0, none)
    OBVIOUS
  <2>2. /\ link = "connecting" /\ link' = "open" /\ connect_state' = 3 /\ UNCHANGED <<connected, toClient>>
        /\ \E part \in {"whole", "front", "rest"} : toBroker' = Append(toBroker, Piece(part, p))
    BY <1>12, <2>1 DEF Connecting
  <2>3. p \in Packets
    BY <2>1, ClientPackets
  <2>4. toBroker = <<>> /\ ~connected
    BY <2>2 DEF LinkInv
  <2>5. ConnectsIn(toBroker') \subseteq {1}
    <3>1. PICK part \in {"whole", "front", "rest"} : toBroker' = Append(<<>>, Piece(part, p))
      BY <2>2, <2>4
    <3>2. Len(toBroker') = 1 /\ toBroker' \in Seq(Pieces)
      BY <2>3, <3>1, PieceTyped
    <3>3. DOMAIN toBroker' = 1 .. 1
      BY <3>2, LenProperties
    <3> QED
      BY <3>3 DEF ConnectsIn
  <2> QED
    BY <2>2, <2>4, <2>5 DEF LinkInv
<1>13. CASE AfterFailure
  <2>1. closeOnly \/ UNCHANGED <<connected, connect_state, link, toBroker, toClient>>
    BY <1>13 DEF AfterFailure, sockVars
  <2> QED
    BY <1>2, <1>4, <2>1
<1>14. CASE HoldPacket \/ HandlePingresp \/ HandlePuback
  <2>1. link = "open" /\ UNCHANGED <<connected, connect_state, link, toBroker>>
    BY <1>14 DEF HoldPacket, HandlePingresp, HandlePuback, Reads, connVars
  <2> QED
    BY <1>2, <2>1
<1>15. CASE ReceiveConnack
  <2>1. CASE UNCHANGED <<connVars, sockVars>>
    BY <1>2, <2>1 DEF connVars, sockVars
  <2>2. CASE link # "closed" /\ connect_state = 3 /\ connected' = TRUE /\ connect_state' = 0 /\ UNCHANGED sockVars
    BY <2>2 DEF LinkInv, sockVars, WireTypes, ConnectsIn
  <2>3. CASE ConnectFails
    BY <1>4, <2>3 DEF ConnectFails, closeSession
  <2> QED
    BY <1>15, <2>1, <2>2, <2>3 DEF ReceiveConnack
<1>16. CASE HandlePubrec
  <2>1. PICK p \in ToSet(toClient) :
            /\ Reads(p)
            /\ \/ UNCHANGED toBroker
               \/ \E i \in Waiting(p.id, "PUBREC"), rc \in Results :
                     Socket_putdatas(Packet("PUBREL", p.id, outbound[i].job), rc)
    BY <1>16 DEF HandlePubrec
  <2>2. link = "open" /\ UNCHANGED <<connected, connect_state, link>>
    BY <1>16 DEF HandlePubrec, Reads, connVars
  <2>3. ASSUME NEW i \in Waiting(p.id, "PUBREC"), NEW rc \in Results,
               Socket_putdatas(Packet("PUBREL", p.id, outbound[i].job), rc)
        PROVE  LinkInv'
    <3>1. outbound[i] \in Messages
      BY LenProperties DEF Waiting, QueueTypes
    <3>2. outbound[i].job \in Jobs /\ p.id \in Nat
      BY <2>1, <3>1, ReadsTyped DEF Messages
    <3>3. PICK r : r = Packet("PUBREL", p.id, outbound[i].job)
      OBVIOUS
    <3>4. r \in Packets /\ r.type # "CONNECT"
      BY <3>2, <3>3, SentTyped DEF PacketTypes, Packet
    <3> QED
      BY <1>3, <2>2, <2>3, <3>3, <3>4
  <2> QED
    BY <1>2, <2>1, <2>2, <2>3
<1>17. CASE HandlePublish1 \/ HandlePublish2 \/ HandlePubrel
  <2>1. PICK p \in ToSet(toClient) :
            /\ Reads(p)
            /\ \/ UNCHANGED toBroker
               \/ \E type \in {"PUBACK", "PUBREC", "PUBCOMP"}, rc \in Results :
                     \/ Socket_putdatas(Packet(type, p.id, p.about), rc)
                     \/ \E m \in inbound : Socket_putdatas(Packet(type, p.id, m.about), rc)
    BY <1>17 DEF HandlePublish1, HandlePublish2, HandlePubrel
  <2>2. link = "open" /\ UNCHANGED <<connected, connect_state, link>>
    BY <1>17 DEF HandlePublish1, HandlePublish2, HandlePubrel, Reads, connVars
  <2>3. ASSUME NEW type \in {"PUBACK", "PUBREC", "PUBCOMP"}, NEW rc \in Results, NEW about \in Nat,
               Socket_putdatas(Packet(type, p.id, about), rc)
        PROVE  LinkInv'
    <3>1. p.id \in Nat
      BY <2>1, ReadsTyped
    <3>2. PICK r : r = Packet(type, p.id, about)
      OBVIOUS
    <3>3. r \in Packets /\ r.type # "CONNECT"
      BY <3>1, <3>2, SentTyped DEF PacketTypes, Packet
    <3> QED
      BY <1>3, <2>2, <2>3, <3>2, <3>3
  <2>4. p.about \in Nat /\ \A m \in inbound : m.about \in Nat
    BY <2>1, ReadsTyped DEF QueueTypes
  <2> QED
    BY <1>2, <2>1, <2>2, <2>3, <2>4
<1>18. CASE KeepAlive
  <2>1. /\ UNCHANGED <<connected, connect_state, link, toClient>>
        /\ \/ \E rc \in Results : Socket_putdatas(Packet("PINGREQ", 0, none), rc)
           \/ UNCHANGED toBroker
    BY <1>18 DEF KeepAlive
  <2>2. PICK p : p = Packet("PINGREQ", 0, none)
    OBVIOUS
  <2>3. p \in Packets /\ p.type # "CONNECT"
    BY <2>2, ClientPackets DEF Packet
  <2> QED
    BY <1>2, <1>3, <2>1, <2>2, <2>3
<1>19. CASE Crash \/ WriteCompleteCrashes
  BY <1>19 DEF Crash, WriteCompleteCrashes, Dies, LinkInv, ConnectsIn
<1>20. CASE BrokerReads
  <2>1. /\ Readable /\ toBroker' = AfterReadable
        /\ UNCHANGED <<connected, connect_state, link>>
        /\ link # "open" => UNCHANGED toClient
    BY <1>20 DEF BrokerReads, connVars, Reply, NoReply
  <2>2. ConnectsIn(toBroker') = {}
    BY <2>1, ConnectsRead DEF LinkInv
  <2>3. link # "connecting"
    BY <2>1, EmptySeq DEF Readable, LinkInv, WireTypes
  <2> QED
    BY <1>1, <2>1, <2>2, <2>3
<1>21. CASE BrokerSends
  <2>1. link = "open" /\ UNCHANGED <<connected, connect_state, link, toBroker>>
    BY <1>21 DEF BrokerSends, connVars
  <2> QED
    BY <1>2, <2>1
<1>22. CASE BrokerDrops
  BY <1>22 DEF BrokerDrops, LinkInv, ConnectsIn, connVars
<1>23. CASE NetworkBreaks
  BY <1>23 DEF NetworkBreaks, Breaks, LinkInv, ConnectsIn, connVars
<1> QED
  BY <1>5, <1>6, <1>7, <1>8, <1>9, <1>10, <1>11, <1>12, <1>13, <1>14, <1>15, <1>16, <1>17, <1>18, <1>19, <1>20, <1>21,
     <1>22, <1>23 DEF Next, SendThread, ReceiveThread

(* What no step changes any more. *)
LEMMA Settled ==
    ASSUME TypeInv, PlaceInv, JobStep
    PROVE  /\ \A j \in Jobs : kind[j] # "unmade" => kind'[j] = kind[j]
           /\ \A j \in Jobs : caller[j] \in {"queued", "gone"} =>
                 caller'[j] \in {"queued", "gone"} /\ kind'[j] = kind[j] /\ token'[j] = token[j]
           /\ crossed \subseteq crossed'
           /\ misplaced => misplaced'
<1> DEFINE Goal == /\ \A j \in Jobs : kind[j] # "unmade" => kind'[j] = kind[j]
                   /\ \A j \in Jobs : caller[j] \in {"queued", "gone"} =>
                         caller'[j] \in {"queued", "gone"} /\ kind'[j] = kind[j] /\ token'[j] = token[j]
                   /\ crossed \subseteq crossed'
                   /\ misplaced => misplaced'
<1>1. CASE UNCHANGED <<kind, caller, token>> /\ crossed \subseteq crossed' /\ (misplaced => misplaced')
  BY <1>1
<1>2. CASE Relays \/ Clears \/ Replies
  BY <1>1, <1>2 DEF Relays, Clears, Replies, cleanSession
<1>3. ASSUME NEW j \in Calls, Connect(j) PROVE Goal
  BY <1>3, JobsFacts DEF Connect, threadVars, TypeInv, AppTypes
<1>4. ASSUME NEW j \in Jobs, NEW k \in Kinds, CheckConnected(j, k) PROVE Goal
  <2>1. caller[j] = "idle" /\ kind[j] = "unmade"
    BY <1>4 DEF CheckConnected, Begins, PlaceInv
  <2>2. \A i \in Jobs : i # j => kind'[i] = kind[i] /\ caller'[i] = caller[i]
    BY <1>4, JobsFacts DEF CheckConnected, TypeInv, AppTypes
  <2> QED
    BY <1>4, <2>1, <2>2 DEF CheckConnected, threadVars
<1>5. ASSUME NEW j \in Jobs, ReadMsgId(j) \/ AssignMsgId(j) PROVE Goal
  <2>1. caller[j] \in {"checked", "numbering"} /\ UNCHANGED <<kind, misplaced>> /\ crossed \subseteq crossed'
    BY <1>5 DEF ReadMsgId, AssignMsgId, threadVars
  <2>2. \A i \in Jobs : i # j => token'[i] = token[i] /\ caller'[i] = caller[i]
    BY <1>5, JobsFacts DEF ReadMsgId, AssignMsgId, TypeInv, AppTypes
  <2> QED
    BY <2>1, <2>2
<1>6. ASSUME NEW j \in Jobs, AddCommand(j) PROVE Goal
  BY <1>6, JobsFacts DEF AddCommand, threadVars, TypeInv, AppTypes
<1>7. CASE TakeCommand \/ ProcessPublish0 \/ NotePendingWrite \/ Register \/ ProcessRequest \/ Restart
  BY <1>1, <1>7 DEF TakeCommand, ProcessPublish0, NotePendingWrite, Register, ProcessRequest, Restart, appVars,
       threadVars
<1>8. CASE ContinueWrite
  <2>1. UNCHANGED <<kind, caller, token, crossed>>
    BY <1>8 DEF ContinueWrite
  <2>2. misplaced => misplaced'
    BY <1>8, Zenon DEF ContinueWrite
  <2> QED
    BY <1>1, <2>1, <2>2
<1>9. CASE Dies
  BY <1>9, JobsFacts DEF Dies
<1> QED
  BY <1>2, <1>3, <1>4, <1>5, <1>6, <1>7, <1>8, <1>9 DEF JobStep

(* Steps of the wire on which no packet of this type is written. *)
LEMMA NotOffered ==
    ASSUME TypeInv, StreamInv, NEW type, type \notin {"CONNECT", "DISCONNECT"},
           \/ UNCHANGED toBroker
           \/ toBroker' = <<>>
           \/ Readable /\ toBroker' = AfterReadable
           \/ \E p \in Packets, rc \in Results : p.type # type /\ Socket_putdatas(p, rc)
           \/ Socket_continueWrites
           \/ Written(Packet("CONNECT", 0, none))
           \/ closeOnly
    PROVE  \A p \in Offered' : p.type = type => p \in Offered
<1> USE DEF TypeInv
<1>1. CASE UNCHANGED toBroker
  BY <1>1 DEF Offered
<1>2. CASE toBroker' = <<>>
  BY <1>2 DEF Offered
<1>3. CASE Readable /\ toBroker' = AfterReadable
  BY <1>3, OfferedRead
<1>4. ASSUME NEW p \in Packets, NEW rc \in Results, p.type # type, Socket_putdatas(p, rc)
      PROVE  \A q \in Offered' : q.type = type => q \in Offered
  BY <1>4, OfferedPut
<1>5. CASE Socket_continueWrites
  <2>1. CASE toBroker' = toBroker
    BY <1>1, <2>1
  <2>2. CASE toBroker' = Append(toBroker, Piece("rest", Head(writes)))
    <3>1. writes \in Seq(Packets) /\ writes # <<>>
      BY <1>5 DEF Socket_continueWrites, StreamInv, WireTypes
    <3>2. Head(writes) \in Packets
      BY <3>1, SeqFacts
    <3> QED
      BY <2>2, <3>2, OfferedAppend
  <2> QED
    BY <1>5, <2>1, <2>2 DEF Socket_continueWrites
<1>6. CASE Written(Packet("CONNECT", 0, none))
  <2>1. PICK p : p = Packet("CONNECT", 0, none)
    OBVIOUS
  <2>2. p \in Packets /\ p.type # type
    BY <2>1, ClientPackets DEF Packet
  <2>3. Offered' \subseteq Offered \cup {p}
    BY <1>6, <2>1, <2>2, OfferedAppend DEF Written
  <2> QED
    BY <2>2, <2>3
<1>7. CASE closeOnly
  <2>1. PICK p : p = Packet("DISCONNECT", 0, none)
    OBVIOUS
  <2>2. p \in Packets /\ p.type # type
    BY <2>1, ClientPackets DEF Packet
  <2>3. toBroker' = toBroker \/ toBroker' = Append(toBroker, Piece("whole", p))
    BY <1>7, <2>1 DEF closeOnly, Socket_close
  <2>4. CASE toBroker' = Append(toBroker, Piece("whole", p))
    <3>1. Offered' \subseteq Offered \cup {p}
      BY <2>2, <2>4, OfferedAppend
    <3> QED
      BY <2>2, <3>1
  <2> QED
    BY <1>1, <2>3, <2>4
<1> QED
  BY <1>1, <1>2, <1>3, <1>4, <1>5, <1>6, <1>7

(* What the client writes of each type comes from one action. *)
LEMMA PublishOffered ==
    ASSUME TypeInv, StreamInv, Next
    PROVE  \/ \A p \in Offered' : p.type = "PUBLISH" => p \in Offered
           \/ ProcessPublish0
           \/ ProcessRequest
<1> DEFINE Goal == \A p \in Offered' : p.type = "PUBLISH" => p \in Offered
<1>1. ASSUME \/ UNCHANGED toBroker
             \/ toBroker' = <<>>
             \/ Readable /\ toBroker' = AfterReadable
             \/ Socket_continueWrites
             \/ Written(Packet("CONNECT", 0, none))
             \/ closeOnly
      PROVE  Goal
  <2>1. "PUBLISH" \notin {"CONNECT", "DISCONNECT"}
    OBVIOUS
  <2> QED
    BY <1>1, <2>1, NotOffered
<1>2. ASSUME NEW type \in {"PUBACK", "PUBREC", "PUBCOMP", "PUBREL", "PINGREQ"}, NEW id \in Nat, NEW about \in Nat,
             NEW rc \in Results, Socket_putdatas(Packet(type, id, about), rc)
      PROVE  Goal
  <2>1. PICK p : p = Packet(type, id, about)
    OBVIOUS
  <2>2. p \in Packets /\ p.type # "PUBLISH"
    BY <2>1, SentTyped DEF PacketTypes, Packet
  <2>3. "PUBLISH" \notin {"CONNECT", "DISCONNECT"}
    OBVIOUS
  <2> QED
    BY <1>2, <2>1, <2>2, <2>3, NotOffered
<1> HIDE DEF Goal
<1>3. CASE \/ ApplicationStep \/ TakeCommand \/ NotePendingWrite \/ Register \/ Select \/ NothingToRead
           \/ ReadFails \/ ReceiveSuback \/ Restart \/ HoldPacket \/ HandlePingresp \/ HandlePuback \/ Crash
           \/ WriteCompleteCrashes \/ BrokerSends \/ NetworkBreaks
  <2>1. UNCHANGED toBroker
    BY <1>3 DEF ApplicationStep, Connect, CheckConnected, ReadMsgId, AssignMsgId, AddCommand, TakeCommand,
         NotePendingWrite, Register, Select, NothingToRead, ReadFails, ReceiveSuback, Restart, HoldPacket,
         HandlePingresp, HandlePuback, Crash, WriteCompleteCrashes, Dies, BrokerSends, NetworkBreaks, sockVars
  <2> QED
    BY <1>1, <2>1 DEF Goal
<1>4. CASE ProcessConnect \/ BrokerDrops
  <2>1. UNCHANGED toBroker \/ toBroker' = <<>>
    BY <1>4 DEF ProcessConnect, BrokerDrops, Socket_new, sockVars
  <2> QED
    BY <1>1, <2>1 DEF Goal
<1>5. CASE ProcessDisconnect \/ ConnectTimesOut \/ ConnectBreaks \/ AfterFailure \/ ReceiveConnack
  <2>1. UNCHANGED toBroker \/ closeOnly
    BY <1>5 DEF ProcessDisconnect, checkDisconnect, ConnectTimesOut, ConnectBreaks, ConnectFails, closeSession,
                AfterFailure, ReceiveConnack, sockVars
  <2> QED
    BY <1>1, <2>1 DEF Goal
<1>6. CASE ContinueWrite \/ Connecting \/ BrokerReads
  <2>1. \/ Socket_continueWrites
        \/ Written(Packet("CONNECT", 0, none))
        \/ Readable /\ toBroker' = AfterReadable
    BY <1>6 DEF ContinueWrite, Connecting, BrokerReads, Written
  <2> QED
    BY <1>1, <2>1 DEF Goal
<1>7. CASE HandlePubrec
  <2>1. PICK p \in ToSet(toClient) :
            /\ Reads(p)
            /\ \/ UNCHANGED toBroker
               \/ \E i \in Waiting(p.id, "PUBREC"), rc \in Results :
                     Socket_putdatas(Packet("PUBREL", p.id, outbound[i].job), rc)
    BY <1>7 DEF HandlePubrec
  <2>2. \A i \in Waiting(p.id, "PUBREC") : outbound[i].job \in Nat
    <3>1. \A i \in Waiting(p.id, "PUBREC") : outbound[i] \in Messages
      BY LenProperties DEF Waiting, TypeInv, QueueTypes
    <3> QED
      BY <3>1, SentTyped DEF Messages
  <2>3. p.id \in Nat
    BY <2>1, ReadsTyped
  <2> QED
    BY <1>1, <1>2, <2>1, <2>2, <2>3 DEF Goal
<1>8. CASE HandlePublish1 \/ HandlePublish2 \/ HandlePubrel
  <2>1. PICK p \in ToSet(toClient) :
            /\ Reads(p)
            /\ \/ UNCHANGED toBroker
               \/ \E type \in {"PUBACK", "PUBREC", "PUBCOMP"}, rc \in Results :
                     \/ Socket_putdatas(Packet(type, p.id, p.about), rc)
                     \/ \E m \in inbound : Socket_putdatas(Packet(type, p.id, m.about), rc)
    BY <1>8 DEF HandlePublish1, HandlePublish2, HandlePubrel
  <2>2. p.id \in Nat /\ p.about \in Nat /\ \A m \in inbound : m.about \in Nat
    BY <2>1, ReadsTyped DEF TypeInv, QueueTypes
  <2>3. {"PUBACK", "PUBREC", "PUBCOMP"} \subseteq {"PUBACK", "PUBREC", "PUBCOMP", "PUBREL", "PINGREQ"}
    OBVIOUS
  <2> QED
    BY <1>1, <1>2, <2>1, <2>2, <2>3 DEF Goal
<1>9. CASE KeepAlive
  <2>1. UNCHANGED toBroker \/ \E rc \in Results : Socket_putdatas(Packet("PINGREQ", 0, none), rc)
    BY <1>9 DEF KeepAlive
  <2>2. 0 \in Nat /\ none \in Nat
    BY SentTyped
  <2> QED
    BY <1>1, <1>2, <2>1, <2>2 DEF Goal
<1> QED
  BY <1>3, <1>4, <1>5, <1>6, <1>7, <1>8, <1>9 DEF Next, SendThread, ReceiveThread, Goal

LEMMA IdGivenStep ==
    ASSUME TypeInv, StreamInv, PlaceInv, IdGiven, Next
    PROVE  IdGiven'
<1>1. JobStep
  BY JobNext
<1>2. \A j \in Jobs : kind[j] # "unmade" => kind'[j] = kind[j]
  BY <1>1, Settled
<1>3. \A p \in Offered' : p.type = "PUBLISH" /\ p.id = 0 => p.about \in Jobs /\ kind'[p.about] = "pub0"
  <2>1. CASE \A p \in Offered' : p.type = "PUBLISH" => p \in Offered
    BY <1>2, <2>1 DEF IdGiven
  <2>2. ASSUME NEW p \in Packets, Offered' \subseteq Offered \cup {p},
               p.type = "PUBLISH" /\ p.id = 0 => p.about \in Jobs /\ kind[p.about] = "pub0"
        PROVE  \A q \in Offered' : q.type = "PUBLISH" /\ q.id = 0 => q.about \in Jobs /\ kind'[q.about] = "pub0"
    BY <1>2, <2>2 DEF IdGiven
  <2>3. CASE ProcessPublish0
    <3>1. PICK p \in Packets, rc \in Results : p.about = processing /\ p.id = 0 /\ Socket_putdatas(p, rc)
      BY <2>3, Publish0Sent
    <3>2. Offered' \subseteq Offered \cup {p}
      BY <3>1, OfferedPut DEF TypeInv
    <3> QED
      BY <2>2, <2>3, <3>1, <3>2, Publish0Sent
  <2>4. CASE ProcessRequest
    <3>1. PICK p \in Packets, rc \in Results : p.id = token[processing] /\ Socket_putdatas(p, rc)
      BY <2>4, RequestSent
    <3>2. Offered' \subseteq Offered \cup {p}
      BY <3>1, OfferedPut DEF TypeInv
    <3>3. token[processing] # 0
      <4>1. processing \in Acknowledged /\ processing # none
        BY <2>4, RequestSent, JobsFacts DEF Acknowledged
      <4>2. caller[processing] = "queued"
        BY <4>1 DEF PlaceInv
      <4> QED
        BY <4>1, <4>2 DEF IdGiven
    <3> QED
      BY <2>2, <3>1, <3>2, <3>3
  <2> QED
    BY <2>1, <2>3, <2>4, PublishOffered
<1>4. ASSUME NEW j \in Jobs, kind'[j] \in {"pub1", "pub2", "sub"}, caller'[j] \in {"assigned", "queued"}
      PROVE  token'[j] # 0
  <2>1. kind[j] \in {"pub1", "pub2", "sub"} /\ caller[j] \in {"assigned", "queued"} => token[j] # 0
    BY DEF IdGiven, Acknowledged
  <2>2. CASE kind'[j] = kind[j] /\ caller'[j] = caller[j] /\ token'[j] = token[j]
    BY <1>4, <2>1, <2>2
  <2>3. CASE Relays \/ Clears \/ Replies \/ TakeCommand \/ ProcessPublish0 \/ NotePendingWrite \/ Register
             \/ ProcessRequest \/ ContinueWrite \/ Restart
    BY <2>2, <2>3 DEF Relays, Clears, Replies, TakeCommand, ProcessPublish0, NotePendingWrite, Register,
                      ProcessRequest, ContinueWrite, Restart, appVars
  <2>4. ASSUME NEW i \in Calls, Connect(i) PROVE token'[j] # 0
    BY <2>2, <2>4, JobsFacts DEF Connect, TypeInv, AppTypes
  <2>5. ASSUME NEW i \in Jobs, NEW k \in Kinds, CheckConnected(i, k) PROVE token'[j] # 0
    <3>1. CASE i = j
      BY <1>4, <2>5, <3>1, JobsFacts DEF CheckConnected, TypeInv, AppTypes
    <3>2. CASE i # j
      BY <2>2, <2>5, <3>2, JobsFacts DEF CheckConnected, TypeInv, AppTypes
    <3> QED
      BY <3>1, <3>2
  <2>6. ASSUME NEW i \in Jobs, ReadMsgId(i) \/ AssignMsgId(i) PROVE token'[j] # 0
    <3>1. CASE i # j
      BY <2>2, <2>6, <3>1, JobsFacts DEF ReadMsgId, AssignMsgId, TypeInv, AppTypes
    <3>2. CASE i = j
      <4>1. PICK n \in 1 .. MaxMsgId : token' = [token EXCEPT ![j] = Tried(token[j], n)]
        BY <1>4, <2>6, <3>2, JobsFacts DEF ReadMsgId, AssignMsgId, TypeInv, AppTypes
      <4>2. token[j] \in Nat
        BY JobsFacts DEF TypeInv, AppTypes
      <4>3. Tried(token[j], n) # 0
        BY <4>1, <4>2, MsgIdAssumption DEF Tried
      <4> QED
        BY <4>1, <4>3, JobsFacts DEF TypeInv, AppTypes
    <3> QED
      BY <3>1, <3>2
  <2>7. ASSUME NEW i \in Jobs, AddCommand(i) PROVE token'[j] # 0
    BY <1>4, <2>1, <2>7, JobsFacts DEF AddCommand, TypeInv, AppTypes
  <2>8. CASE Dies
    BY <1>4, <2>8, JobsFacts DEF Dies
  <2> QED
    BY <1>1, <2>3, <2>4, <2>5, <2>6, <2>7, <2>8 DEF JobStep
<1> QED
  BY <1>3, <1>4 DEF IdGiven, Acknowledged

(* The steps that change messages in flight or their files. *)
LEMMA FlightNext ==
    ASSUME TypeInv, Next
    PROVE  \/ UNCHANGED <<outbound, inbound>> /\ FilesOf("s")' = FilesOf("s") /\ FilesOf("r")' = FilesOf("r")
           \/ \E q, job, what : cleanSession(q, job, what)
           \/ ProcessRequest \/ HandlePuback \/ HandlePubrec \/ HandlePublish2 \/ HandlePubrel \/ Dies \/ Restart
<1> DEFINE Goal == \/ UNCHANGED <<outbound, inbound>> /\ FilesOf("s")' = FilesOf("s") /\ FilesOf("r")' = FilesOf("r")
                   \/ \E q, job, what : cleanSession(q, job, what)
<1>1. ASSUME UNCHANGED <<outbound, inbound, store>> PROVE Goal
  BY <1>1 DEF FilesOf
<1> HIDE DEF Goal
<1>2. CASE ApplicationStep
  <2>1. UNCHANGED <<outbound, inbound>> /\ (UNCHANGED store \/ \E j \in Jobs : store' = store \cup Persisted(j))
    BY <1>2 DEF ApplicationStep, Connect, CheckConnected, ReadMsgId, AssignMsgId, AddCommand, queueVars
  <2> QED
    BY <1>1, <2>1 DEF Goal, Persisted, File, FilesOf
<1>3. CASE TakeCommand
  <2>1. UNCHANGED <<outbound, inbound>> /\ \E j : store' = Unpersisted(j)
    BY <1>3 DEF TakeCommand
  <2> QED
    BY <2>1 DEF Goal, Unpersisted, FilesOf
<1>4. CASE \/ ProcessConnect \/ ProcessPublish0 \/ NotePendingWrite \/ Register \/ Select \/ ContinueWrite
           \/ NothingToRead \/ Connecting \/ ReadFails \/ AfterFailure \/ HoldPacket \/ ReceiveSuback
           \/ HandlePublish1 \/ HandlePingresp \/ KeepAlive \/ BrokerReads \/ BrokerSends \/ BrokerDrops
           \/ NetworkBreaks
  <2>1. UNCHANGED <<outbound, inbound, store>>
    BY <1>4 DEF ProcessConnect, ProcessPublish0, NotePendingWrite, Register, Select, ContinueWrite,
         NothingToRead, Connecting, ReadFails, AfterFailure, HoldPacket, ReceiveSuback, HandlePublish1,
         HandlePingresp, KeepAlive, BrokerReads, BrokerSends, BrokerDrops, NetworkBreaks, queueVars
  <2> QED
    BY <1>1, <2>1 DEF Goal
<1>5. CASE ProcessDisconnect \/ ConnectTimesOut \/ ConnectBreaks \/ ReceiveConnack
  <2>1. UNCHANGED <<outbound, inbound, store>> \/ \E q, job, what : cleanSession(q, job, what)
    BY <1>5 DEF ProcessDisconnect, checkDisconnect, closeSession, ConnectTimesOut, ConnectBreaks, ConnectFails,
                ReceiveConnack, queueVars
  <2> QED
    BY <1>1, <2>1 DEF Goal
<1> QED
  BY <1>2, <1>3, <1>4, <1>5 DEF Goal, Next, SendThread, ReceiveThread, Crash, WriteCompleteCrashes

(* The publications in flight after a step. *)
LEMMA OutboundFacts ==
    ASSUME TypeInv
    PROVE  /\ \A i \in DOMAIN outbound : outbound[i] \in Messages /\ outbound[i].job \in Jobs /\ outbound[i].job # none
           /\ \A f \in FilesOf("s") : f.about \in Jobs /\ f.about # none
           /\ DOMAIN outbound = 1 .. Len(outbound) /\ Len(outbound) \in Nat
<1>1. \A i \in DOMAIN outbound : outbound[i] \in Messages
  BY LenProperties DEF TypeInv, QueueTypes
<1> QED
  BY <1>1, JobsFacts, LenProperties DEF Messages, FilesOf, TypeInv, QueueTypes

LEMMA OutboundAppend ==
    ASSUME TypeInv, NEW m \in Messages, outbound' = Append(outbound, m)
    PROVE  /\ DOMAIN outbound' = 1 .. Len(outbound) + 1
           /\ \A i \in DOMAIN outbound : i \in DOMAIN outbound' /\ outbound'[i] = outbound[i]
           /\ \A i \in DOMAIN outbound' : (i \in DOMAIN outbound /\ outbound'[i] = outbound[i])
                                          \/ (i = Len(outbound) + 1 /\ outbound'[i] = m)
           /\ outbound'[Len(outbound) + 1] = m
<1> DEFINE n == Len(outbound)
<1>1. outbound \in Seq(Messages) /\ n \in Nat /\ DOMAIN outbound = 1 .. n
  BY LenProperties DEF TypeInv, QueueTypes
<1>2. /\ outbound' \in Seq(Messages)
      /\ Len(outbound') = n + 1
      /\ \A i \in 1 .. n : outbound'[i] = outbound[i]
      /\ outbound'[n + 1] = m
  BY <1>1, AppendFacts
<1>3. DOMAIN outbound' = 1 .. n + 1
  BY <1>2, LenProperties
<1> HIDE DEF n
<1>4. \A i \in 1 .. n : i \in 1 .. n + 1
  BY <1>1
<1>5. \A i \in 1 .. n + 1 : i \in 1 .. n \/ i = n + 1
  BY <1>1
<1> QED
  BY <1>1, <1>2, <1>3, <1>4, <1>5 DEF n

(* What a request that is processed leaves in flight. *)
RequestFlies ==
    IF kind[processing] \in {"pub1", "pub2"}
    THEN /\ outbound' = Append(outbound, createMessage(processing))
         /\ FilesOf("s")' = {f \in FilesOf("s") : f.id # token[processing]}
                                \cup {File("s", token[processing], processing)}
    ELSE UNCHANGED outbound /\ FilesOf("s")' = FilesOf("s")

LEMMA RequestFlight ==
    ASSUME TypeInv, ProcessRequest
    PROVE  /\ RequestFlies
           /\ FilesOf("r")' = FilesOf("r") /\ UNCHANGED inbound
<1>1. LET isPublish == kind[processing] \in {"pub1", "pub2"}
      IN  /\ outbound' = IF isPublish THEN Append(outbound, createMessage(processing)) ELSE outbound
          /\ store' = IF isPublish THEN Put(store, File("s", token[processing], processing)) ELSE store
          /\ UNCHANGED inbound
  BY DEF ProcessRequest
<1>2. FilesOf("r")' = FilesOf("r")
  BY <1>1 DEF FilesOf, Put, File
<1>3. CASE kind[processing] \in {"pub1", "pub2"}
  <2>1. FilesOf("s")' = {f \in FilesOf("s") : f.id # token[processing]} \cup {File("s", token[processing], processing)}
    BY <1>1, <1>3 DEF FilesOf, Put, File
  <2> QED
    BY <1>1, <1>2, <1>3, <2>1 DEF RequestFlies
<1>4. CASE kind[processing] \notin {"pub1", "pub2"}
  BY <1>1, <1>2, <1>4 DEF RequestFlies, FilesOf
<1> QED
  BY <1>3, <1>4

LEMMA CreatedTyped ==
    ASSUME NEW j \in Jobs
    PROVE  createMessage(j) \in Messages /\ createMessage(j).job = j
BY DEF createMessage, Messages

LEMMA RestartFlight ==
    ASSUME TypeInv, Restart
    PROVE  /\ UNCHANGED <<store, kind, caller, token>>
           /\ \A i \in DOMAIN outbound' : \E f \in FilesOf("s") : outbound'[i].job = f.about
           /\ \A f \in FilesOf("s") : \E i \in DOMAIN outbound' : outbound'[i].job = f.about
<1>1. UNCHANGED <<store, kind, caller, token>>
  BY DEF Restart, appVars
<1>2. PICK q \in Listed(FilesOf("s")) :
          outbound' = [i \in DOMAIN q |->
                          [createMessage(q[i].about) EXCEPT
                              !.next = IF File("sc", q[i].id, none) \in store THEN "PUBCOMP" ELSE @]]
  BY DEF Restart, restore
<1>3. ToSet(q) = FilesOf("s")
  BY <1>2 DEF Listed
<1>4. DOMAIN outbound' = DOMAIN q /\ \A i \in DOMAIN q : outbound'[i].job = q[i].about
  BY <1>2 DEF createMessage
<1> QED
  BY <1>1, <1>3, <1>4 DEF ToSet

LEMMA InFlightStep ==
    ASSUME TypeInv, PlaceInv, InFlightFiles, Next
    PROVE  InFlightFiles'
<1>1. \A j \in Jobs : caller[j] \in {"queued", "gone"} =>
          caller'[j] \in {"queued", "gone"} /\ kind'[j] = kind[j] /\ token'[j] = token[j]
  BY JobNext, Settled
<1>2. ASSUME \A i \in DOMAIN outbound' : \E k \in DOMAIN outbound : outbound'[i].job = outbound[k].job,
             FilesOf("s")' \subseteq FilesOf("s")
      PROVE  InFlightFiles'
  BY <1>1, <1>2, OutboundFacts DEF InFlightFiles
<1>3. CASE UNCHANGED outbound /\ FilesOf("s")' = FilesOf("s")
  BY <1>2, <1>3
<1>4. ASSUME NEW q, NEW job, NEW what, cleanSession(q, job, what) PROVE InFlightFiles'
  BY <1>4 DEF cleanSession, InFlightFiles, FilesOf
<1>5. CASE ProcessRequest
  <2> DEFINE j == processing
  <2>1. RequestFlies /\ j \in Jobs
    BY <1>5, RequestFlight, RequestSent
  <2>2. CASE UNCHANGED outbound /\ FilesOf("s")' = FilesOf("s")
    BY <1>3, <2>2
  <2>3. CASE /\ kind[j] \in {"pub1", "pub2"}
             /\ outbound' = Append(outbound, createMessage(j))
             /\ FilesOf("s")' = {f \in FilesOf("s") : f.id # token[j]} \cup {File("s", token[j], j)}
    <3>1. caller[j] = "queued"
      BY <2>1, JobsFacts DEF PlaceInv
    <3> HIDE DEF j
    <3>2. \A i \in DOMAIN outbound' : outbound'[i].job = j \/ \E k \in DOMAIN outbound : outbound'[i].job = outbound[k].job
      BY <2>1, <2>3, OutboundAppend, CreatedTyped
    <3>3. \A f \in FilesOf("s")' : f \in FilesOf("s") \/ (f.about = j /\ f.id = token[j])
      BY <2>3 DEF File
    <3>4. \A i \in DOMAIN outbound' : outbound'[i].job \in Jobs /\ caller[outbound'[i].job] \in {"queued", "gone"}
                                       /\ kind[outbound'[i].job] \in {"pub1", "pub2"}
      BY <2>1, <2>3, <3>1, <3>2, OutboundFacts DEF InFlightFiles
    <3>5. \A f \in FilesOf("s")' : /\ f.about \in Jobs /\ caller[f.about] \in {"queued", "gone"}
                                   /\ kind[f.about] \in {"pub1", "pub2"} /\ f.id = token[f.about]
      BY <2>1, <2>3, <3>1, <3>3, OutboundFacts DEF InFlightFiles
    <3> QED
      BY <1>1, <3>4, <3>5 DEF InFlightFiles
  <2> QED
    BY <2>1, <2>2, <2>3 DEF RequestFlies
<1>6. CASE HandlePuback
  <2>1. PICK id : \/ UNCHANGED <<outbound, store>>
                  \/ \E i \in DOMAIN outbound : outbound' = RemoveAt(outbound, i) /\ store' = Removed({"s", "sc"}, id)
    BY <1>6 DEF HandlePuback, Waiting
  <2>2. ASSUME NEW i \in DOMAIN outbound, outbound' = RemoveAt(outbound, i), store' = Removed({"s", "sc"}, id)
        PROVE  InFlightFiles'
    <3>1. outbound \in Seq(Messages)
      BY DEF TypeInv, QueueTypes
    <3>2. \A l \in DOMAIN outbound' : \E k \in DOMAIN outbound : outbound'[l] = outbound[k]
      <4>1. /\ outbound' \in Seq(Messages)
            /\ \A l \in DOMAIN outbound' : outbound'[l] = IF l < i THEN outbound[l] ELSE outbound[l + 1]
            /\ Len(outbound') = Len(outbound) - 1
        BY <2>2, <3>1, RemoveAtFacts
      <4>2. DOMAIN outbound' = 1 .. Len(outbound) - 1 /\ DOMAIN outbound = 1 .. Len(outbound) /\ Len(outbound) \in Nat
        BY <3>1, <4>1, LenProperties
      <4> QED
        BY <4>1, <4>2
    <3>3. FilesOf("s")' \subseteq FilesOf("s")
      BY <2>2 DEF FilesOf, Removed
    <3> QED
      BY <1>2, <3>2, <3>3
  <2> QED
    BY <1>3, <2>1, <2>2 DEF FilesOf
<1>7. CASE HandlePubrec
  <2>1. \/ UNCHANGED <<outbound, store>>
        \/ \E id : \E i \in DOMAIN outbound : /\ outbound' = [outbound EXCEPT ![i].next = "PUBCOMP"]
                                              /\ store' = store \cup {File("sc", id, none)}
    BY <1>7 DEF HandlePubrec, Waiting
  <2>2. ASSUME NEW i \in DOMAIN outbound, NEW id, outbound' = [outbound EXCEPT ![i].next = "PUBCOMP"],
               store' = store \cup {File("sc", id, none)}
        PROVE  InFlightFiles'
    <3>1. \A l \in DOMAIN outbound' : l \in DOMAIN outbound /\ outbound'[l].job = outbound[l].job
      BY <2>2, OutboundFacts DEF Messages
    <3>2. FilesOf("s")' \subseteq FilesOf("s")
      BY <2>2 DEF FilesOf, File
    <3> QED
      BY <1>2, <3>1, <3>2
  <2> QED
    BY <1>3, <2>1, <2>2 DEF FilesOf
<1>8. CASE HandlePublish2 \/ HandlePubrel
  <2>1. UNCHANGED outbound
    BY <1>8 DEF HandlePublish2, HandlePubrel
  <2>2. \/ UNCHANGED store
        \/ \E id, about : store' = Put(store, File("r", id, about))
        \/ \E id : store' = Removed({"r"}, id)
    BY <1>8 DEF HandlePublish2, HandlePubrel
  <2>3. FilesOf("s")' = FilesOf("s")
    BY <2>2 DEF FilesOf, Put, Removed, File
  <2> QED
    BY <1>3, <2>1, <2>3
<1>9. CASE Dies
  <2>1. outbound' = <<>> /\ FilesOf("s")' = FilesOf("s")
    BY <1>9 DEF Dies, FilesOf
  <2> QED
    BY <1>2, <2>1
<1>10. CASE Restart
  <2>1. FilesOf("s")' = FilesOf("s")
    BY <1>10, RestartFlight DEF FilesOf
  <2> QED
    BY <1>1, <1>10, <2>1, RestartFlight, OutboundFacts DEF InFlightFiles
<1> QED
  BY <1>3, <1>4, <1>5, <1>6, <1>7, <1>8, <1>9, <1>10, FlightNext

LEMMA QueueFilesStep ==
    ASSUME TypeInv, PlaceInv, OnceInv, QueueFiles, Next
    PROVE  QueueFiles'
<1>1. JobStep
  BY JobNext
<1>2. misplaced => misplaced'
  BY <1>1, Settled
<1>3. SUFFICES ASSUME up', ~misplaced', NEW j \in Jobs \cap JobsOf(commands'), kind'[j] # "dis"
               PROVE  j \in FileJobs'
  BY DEF QueueFiles
<1>4. ~misplaced
  BY <1>2, <1>3
<1>5. up => \A i \in Jobs \cap JobsOf(commands) : kind[i] # "dis" => i \in FileJobs
  BY <1>4 DEF QueueFiles
<1>6. caller[j] = "queued" /\ j \in JobsOf(commands) => j \in Mine /\ DistinctJobs(commands, Mine) /\ Mine \in SUBSET Jobs
  BY <1>4 DEF Mine, OnceInv
<1>7. CASE up /\ j \in JobsOf(commands) /\ kind'[j] = kind[j] /\ FileJobs' = FileJobs
  BY <1>3, <1>5, <1>7
<1>8. CASE Relays
  <2>1. up /\ kind' = kind /\ FileJobs' = FileJobs /\ Relaid
    BY <1>3, <1>8 DEF Relays
  <2>2. j \in JobsOf(commands)
    BY <2>1, RelaidJobs
  <2> QED
    BY <1>7, <2>1, <2>2
<1>9. CASE Clears
  <2>1. commands' = <<>>
    BY <1>9 DEF Clears, cleanSession
  <2>2. JobsOf(commands') = {}
    BY <2>1 DEF JobsOf
  <2> QED
    BY <2>2
<1>10. CASE Replies
  BY <1>3, <1>7, <1>10 DEF Replies
<1>11. ASSUME NEW i \in Calls, Connect(i) PROVE j \in FileJobs'
  <2>1. up /\ kind' = kind
    BY <1>11 DEF Connect, Begins
  <2>2. j \in JobsOf(commands) /\ FileJobs' = FileJobs
    BY <1>11, ConnectJobs, JobsFacts
  <2> QED
    BY <1>7, <2>1, <2>2
<1>12. ASSUME NEW i \in Jobs, NEW k \in Kinds, CheckConnected(i, k) PROVE j \in FileJobs'
  <2>1. up /\ UNCHANGED <<commands, store>> /\ caller[i] = "idle"
    BY <1>12 DEF CheckConnected, Begins, queueVars
  <2>2. j \in JobsOf(commands) /\ FileJobs' = FileJobs
    BY <2>1 DEF FileJobs, FilesOf
  <2>3. i # j
    BY <2>1, <2>2 DEF PlaceInv
  <2>4. kind'[j] = kind[j]
    BY <1>12, <2>3, JobsFacts DEF CheckConnected, TypeInv, AppTypes
  <2> QED
    BY <1>7, <2>1, <2>2, <2>4
<1>13. ASSUME NEW i \in Jobs, ReadMsgId(i) \/ AssignMsgId(i) PROVE j \in FileJobs'
  <2>1. up /\ UNCHANGED <<commands, store, kind>>
    BY <1>13 DEF ReadMsgId, AssignMsgId, Locked, queueVars
  <2>2. j \in JobsOf(commands) /\ FileJobs' = FileJobs
    BY <2>1 DEF FileJobs, FilesOf
  <2> QED
    BY <1>7, <2>1, <2>2
<1>14. ASSUME NEW i \in Jobs, AddCommand(i) PROVE j \in FileJobs'
  <2>1. up /\ kind' = kind
    BY <1>14 DEF AddCommand
  <2>2. /\ JobsOf(commands') = JobsOf(commands) \cup {i}
        /\ FileJobs' = FileJobs \cup IF kind[i] \in {"con", "dis"} THEN {} ELSE {i}
    BY <1>14, AddCommandJobs
  <2>3. kind[j] # "con"
    BY DEF TypeInv, AppTypes
  <2> QED
    BY <1>3, <1>5, <2>1, <2>2, <2>3
<1>15. CASE TakeCommand
  <2>1. PICK i \in Jobs : CommandTaken(i)
    BY <1>15, TakeCommandJobs
  <2>2. up /\ kind' = kind /\ connected /\ FileJobs' = FileJobs \ {i} /\ j \in JobsOf(commands)
    BY <2>1 DEF CommandTaken
  <2>3. caller[j] = "queued"
    BY <2>2 DEF PlaceInv
  <2>4. j # i
    BY <1>6, <2>1, <2>2, <2>3 DEF CommandTaken
  <2> QED
    BY <1>3, <1>5, <2>2, <2>4
<1>16. CASE ProcessRequest
  <2>1. RequestLeaves
    BY <1>16, RequestJobs
  <2> QED
    BY <1>7, <2>1 DEF RequestLeaves
<1>17. CASE ProcessPublish0 \/ NotePendingWrite \/ Register \/ ContinueWrite
  <2>1. up /\ UNCHANGED <<kind, commands, store>>
    BY <1>17 DEF ProcessPublish0, Processes, NotePendingWrite, Register, ContinueWrite, appVars, queueVars
  <2>2. j \in JobsOf(commands) /\ FileJobs' = FileJobs
    BY <2>1 DEF FileJobs, FilesOf
  <2> QED
    BY <1>7, <2>1, <2>2
<1>18. CASE Dies
  BY <1>3, <1>18 DEF Dies
<1>19. CASE Restart
  BY <1>19, RestartJobs
<1> QED
  BY <1>1, <1>8, <1>9, <1>10, <1>11, <1>12, <1>13, <1>14, <1>15, <1>16, <1>17, <1>18, <1>19 DEF JobStep

LEMMA ReceivedFilesStep ==
    ASSUME TypeInv, InboundInv, PlaceInv, ReceivedFiles, Next
    PROVE  ReceivedFiles'
<1> DEFINE Of(files) == {[id |-> f.id, about |-> f.about] : f \in files}
<1>1. SUFFICES ASSUME up' PROVE inbound' = Of(FilesOf("r")')
  BY DEF ReceivedFiles
<1>2. up \/ Restart
  <2>1. JobStep
    BY JobNext
  <2> QED
    BY <1>1, <2>1 DEF JobStep, Relays, Clears, Locked, Replies, Connect, CheckConnected, ReadMsgId, AssignMsgId,
                      AddCommand, Begins, TakeCommand, Takes, ProcessPublish0, Processes, NotePendingWrite, Register,
                      ProcessRequest, ContinueWrite, Dies
<1>3. up => inbound = Of(FilesOf("r"))
  BY DEF ReceivedFiles
<1>4. CASE Restart
  BY <1>4 DEF Restart, restore, FilesOf
<1>5. CASE up /\ UNCHANGED inbound /\ FilesOf("r")' = FilesOf("r")
  BY <1>3, <1>5
<1>6. ASSUME NEW q, NEW job, NEW what, cleanSession(q, job, what) PROVE inbound' = Of(FilesOf("r")')
  BY <1>6 DEF cleanSession, FilesOf
<1>7. CASE ProcessRequest
  <2>1. FilesOf("r")' = FilesOf("r") /\ UNCHANGED inbound
    BY <1>7, RequestFlight
  <2>2. up
    BY <1>7 DEF ProcessRequest, Processes
  <2> QED
    BY <1>5, <2>1, <2>2
<1>8. CASE HandlePuback \/ HandlePubrec
  <2>1. UNCHANGED inbound /\ up
    BY <1>8 DEF HandlePuback, HandlePubrec, Reads, Cycles, Locked
  <2>2. \/ UNCHANGED store
        \/ \E id : store' = Removed({"s", "sc"}, id)
        \/ \E id : store' = store \cup {File("sc", id, none)}
    BY <1>8 DEF HandlePuback, HandlePubrec
  <2>3. FilesOf("r")' = FilesOf("r")
    BY <2>2 DEF FilesOf, Removed, File
  <2> QED
    BY <1>5, <2>1, <2>3
<1>9. CASE HandlePublish2
  <2>1. PICK p \in ToSet(toClient) :
            /\ Reads(p)
            /\ inbound' = (inbound \ {m \in inbound : m.id = p.id}) \cup {[id |-> p.id, about |-> p.about]}
            /\ store' = Put(store, File("r", p.id, p.about))
    BY <1>9 DEF HandlePublish2
  <2>2. up
    BY <2>1 DEF Reads, Cycles, Locked
  <2>3. FilesOf("r")' = {f \in FilesOf("r") : f.id # p.id} \cup {File("r", p.id, p.about)}
    BY <2>1 DEF FilesOf, Put, File
  <2>4. Of(FilesOf("r")') = Of({f \in FilesOf("r") : f.id # p.id}) \cup {[id |-> p.id, about |-> p.about]}
    <3>1. PICK g : g = File("r", p.id, p.about)
      OBVIOUS
    <3>2. g.id = p.id /\ g.about = p.about
      BY <3>1 DEF File
    <3>3. PICK old : old = {f \in FilesOf("r") : f.id # p.id}
      OBVIOUS
    <3>4. Of(old \cup {g}) = Of(old) \cup {[id |-> p.id, about |-> p.about]}
      BY <3>2
    <3> QED
      BY <2>3, <3>1, <3>3, <3>4
  <2>5. Of({f \in FilesOf("r") : f.id # p.id}) = {m \in Of(FilesOf("r")) : m.id # p.id}
    OBVIOUS
  <2> QED
    BY <1>3, <2>1, <2>2, <2>4, <2>5
<1>10. CASE HandlePubrel
  <2>1. PICK p \in ToSet(toClient) :
            /\ Reads(p)
            /\ \/ \E m \in inbound : /\ m.id = p.id
                                     /\ inbound' = inbound \ {m}
                                     /\ store' = Removed({"r"}, p.id)
               \/ UNCHANGED <<inbound, store>>
    BY <1>10 DEF HandlePubrel
  <2>2. up
    BY <2>1 DEF Reads, Cycles, Locked
  <2>3. ASSUME NEW m \in inbound, m.id = p.id, inbound' = inbound \ {m}, store' = Removed({"r"}, p.id)
        PROVE  inbound' = Of(FilesOf("r")')
    <3>1. FilesOf("r")' = {f \in FilesOf("r") : f.id # p.id}
      BY <2>3 DEF FilesOf, Removed
    <3>2. Of({f \in FilesOf("r") : f.id # p.id}) = {x \in Of(FilesOf("r")) : x.id # p.id}
      OBVIOUS
    <3>3. \A x \in inbound : x.id = p.id => x = m
      <4>1. \A x \in inbound : x.id = x.about
        BY DEF InboundInv, Kept, AboutMessage
      <4>2. \A x \in inbound : x \in [id : Nat, about : Nat]
        BY DEF TypeInv, QueueTypes
      <4> QED
        BY <2>3, <4>1, <4>2
    <3>4. inbound' = {x \in inbound : x.id # p.id}
      BY <2>3, <3>3
    <3> QED
      BY <1>3, <2>2, <3>1, <3>2, <3>4
  <2> QED
    BY <1>5, <2>1, <2>2, <2>3 DEF FilesOf
<1>11. CASE Dies
  BY <1>1, <1>11 DEF Dies
<1>12. CASE UNCHANGED inbound /\ FilesOf("r")' = FilesOf("r")
  BY <1>2, <1>4, <1>5, <1>12
<1> QED
  BY <1>4, <1>6, <1>7, <1>8, <1>9, <1>10, <1>11, <1>12, FlightNext

LEMMA AcceptedStep ==
    ASSUME accepted \in [Jobs -> Nat], Next
    PROVE  /\ accepted' \in [Jobs -> Nat]
           /\ \A j \in Jobs : accepted[j] > 0 => accepted'[j] > 0
<1>1. accepted' = accepted \/ \E j : accepted' = [accepted EXCEPT ![j] = @ + 1]
  <2>1. CASE BrokerReads
    BY <2>1 DEF BrokerReads, Accept
  <2>2. CASE ~BrokerReads
    BY <2>2 DEF Next, ApplicationStep, SendThread, ReceiveThread, Connect, CheckConnected, ReadMsgId,
         AssignMsgId, AddCommand, ProcessConnect, ProcessDisconnect, TakeCommand, ProcessPublish0,
         NotePendingWrite, Register, ProcessRequest, ConnectTimesOut, Select, ContinueWrite, NothingToRead,
         Connecting, ConnectBreaks, ReadFails, AfterFailure, HoldPacket, ReceiveConnack, ReceiveSuback,
         HandlePuback, HandlePubrec, HandlePublish1, HandlePublish2, HandlePubrel, HandlePingresp, KeepAlive,
         Crash, WriteCompleteCrashes, Dies, Restart, BrokerSends, BrokerDrops, NetworkBreaks, brokerVars
  <2> QED
    BY <2>1, <2>2
<1>2. ASSUME NEW j, accepted' = [accepted EXCEPT ![j] = @ + 1]
      PROVE  /\ accepted' \in [Jobs -> Nat]
             /\ \A i \in Jobs : accepted[i] > 0 => accepted'[i] > 0
  <2>1. CASE j \in Jobs
    BY <1>2, <2>1
  <2>2. CASE j \notin Jobs
    <3>1. accepted' = accepted
      BY <1>2, <2>2
    <3> QED
      BY <3>1
  <2> QED
    BY <2>1, <2>2
<1> QED
  BY <1>1, <1>2

LEMMA BrokerStep ==
    ASSUME TypeInv, BrokerInv, Next
    PROVE  /\ BrokerInv'
           /\ \A j \in Jobs : accepted[j] > 0 => accepted'[j] > 0
<1>1. /\ accepted' \in [Jobs -> Nat]
      /\ \A j \in Jobs : accepted[j] > 0 => accepted'[j] > 0
  BY AcceptedStep DEF BrokerInv
<1>2. released' \subseteq released \/ BrokerReads
  BY DEF Next, ApplicationStep, SendThread, ReceiveThread, Connect, CheckConnected, ReadMsgId, AssignMsgId,
       AddCommand, ProcessConnect, ProcessDisconnect, TakeCommand, ProcessPublish0, NotePendingWrite, Register,
       ProcessRequest, ConnectTimesOut, Select, ContinueWrite, NothingToRead, Connecting, ConnectBreaks,
       ReadFails, AfterFailure, HoldPacket, ReceiveConnack, ReceiveSuback, HandlePuback, HandlePubrec,
       HandlePublish1, HandlePublish2, HandlePubrel, HandlePingresp, KeepAlive, Crash, WriteCompleteCrashes,
       Dies, Restart, BrokerSends, BrokerDrops, NetworkBreaks, brokerVars
<1>3. released' \subseteq [id : Nat, job : Nat]
  <2>1. CASE BrokerReads
    <3>1. PICK p : p = Head(toBroker).packet
      OBVIOUS
    <3>2. p \in Packets
      BY <2>1, <3>1, ShiftedRead DEF BrokerReads, TypeInv, Pieces
    <3>3. released' \subseteq released \/ released' = released \cup {[id |-> p.id, job |-> p.about]}
      BY <2>1, <3>1 DEF BrokerReads
    <3>4. [id |-> p.id, job |-> p.about] \in [id : Nat, job : Nat]
      BY <3>2 DEF Packets
    <3> QED
      BY <3>3, <3>4 DEF BrokerInv
  <2>2. CASE released' \subseteq released
    BY <2>2 DEF BrokerInv
  <2> QED
    BY <1>2, <2>1, <2>2
<1>4. held' = held \/ held' = NoPacket \/ HoldPacket
  BY DEF Next, ApplicationStep, SendThread, ReceiveThread, Connect, CheckConnected, ReadMsgId, AssignMsgId,
       AddCommand, ProcessConnect, ProcessDisconnect, TakeCommand, ProcessPublish0, NotePendingWrite, Register,
       ProcessRequest, ConnectTimesOut, Select, ContinueWrite, NothingToRead, Connecting, ConnectBreaks,
       ReadFails, AfterFailure, ReceiveConnack, ReceiveSuback, HandlePuback, HandlePubrec, HandlePublish1,
       HandlePublish2, HandlePubrel, HandlePingresp, KeepAlive, Crash, WriteCompleteCrashes, Dies, Restart,
       BrokerSends, BrokerReads, BrokerDrops, NetworkBreaks, threadVars
<1>5. held'.type \in {"none", "CONNACK", "REFUSED", "SUBACK", "SUBACK_BAD"}
  BY <1>4 DEF BrokerInv, HoldPacket, NoPacket, Packet
<1> QED
  BY <1>1, <1>3, <1>5 DEF BrokerInv

(* Two requests that wait do not have one id. *)
LEMMA WaitUnique ==
    ASSUME IdsInv, crossed = {}, NEW i \in Waits, NEW j \in Waits, token[i] = token[j]
    PROVE  i = j
<1>1. i \in Holders /\ j \in Holders
  BY DEF Waits, Holders, Live
<1> QED
  BY <1>1 DEF IdsInv

(* What an answer does to the responses: only a job with its id goes, and is *)
(* told.                                                                     *)
LEMMA AnsweredBy ==
    ASSUME TypeInv, NEW id, NEW what, Answered(id, what)
    PROVE  /\ ToSet(responses') \subseteq ToSet(responses)
           /\ \A j \in ToSet(responses) : token[j] # id => j \in ToSet(responses')
           /\ \A j \in Jobs : outcome'[j] = outcome[j] \/ (j \in ToSet(responses) /\ token[j] = id)
<1>1. responses \in Seq(Jobs) /\ Jobs \subseteq AllJobs
  BY JobsFacts DEF TypeInv, QueueTypes
<1>2. CASE Answers(id) = {}
  BY <1>2 DEF Answered
<1>3. CASE Answers(id) # {}
  <2>0. PICK i : i = CHOOSE l \in Answers(id) : \A k \in Answers(id) : l <= k
    OBVIOUS
  <2>1. i \in DOMAIN responses /\ token[responses[i]] = id
    <3>1. i \in Answers(id)
      BY <1>1, <1>3, <2>0, FirstAnswer
    <3> QED
      BY <3>1 DEF Answers
  <2>2. responses' = RemoveAt(responses, i) /\ outcome' = Tell(outcome, {responses[i]}, what)
    BY <1>3, <2>0, Zenon DEF Answered
  <2>3. ToSet(responses) = ToSet(responses') \cup {responses[i]}
    BY <1>1, <2>1, <2>2, ResponsesRemove
  <2>4. \A j \in Jobs : j # responses[i] => outcome'[j] = outcome[j]
    BY <1>1, <2>2, TellFacts
  <2> QED
    BY <2>1, <2>3, <2>4
<1> QED
  BY <1>2, <1>3

(* A packet that can be read is the first, and the others move up. *)
LEMMA ReadsFirst ==
    ASSUME TypeInv, NEW p, Reads(p)
    PROVE  /\ p = toClient[1] /\ 1 \in DOMAIN toClient /\ p \in Packets
           /\ toClient' \in Seq(Packets) /\ KeepsAnswers(toClient, toClient', 1)
           /\ link = "open" /\ up
           /\ IsAnswer(p) => 1 \in AnswersIn(toClient)
<1>1. toClient \in Seq(Packets) /\ toClient # <<>> /\ p = Head(toClient) /\ toClient' = Tail(toClient) /\ link = "open" /\ up
  BY DEF TypeInv, BrokerTypes, Reads, Cycles, Locked
<1>2. Len(toClient) \in Nat \ {0} /\ Head(toClient) = toClient[1] /\ Head(toClient) \in Packets
  BY <1>1, SeqFacts
<1>3. 1 \in DOMAIN toClient
  BY <1>1, <1>2, LenProperties
<1>4. Tail(toClient) \in Seq(Packets) /\ KeepsAnswers(toClient, Tail(toClient), 1)
  BY <1>1, ShiftedTail, ShiftedKeeps
<1> QED
  BY <1>1, <1>2, <1>3, <1>4 DEF AnswersIn

LEMMA OutTyped ==
    ASSUME TypeInv
    PROVE  Out \in Seq(Pieces) /\ toClient \in Seq(Packets) /\ held \in Packets
<1>1. toBroker \in Seq(Pieces) /\ toClient \in Seq(Packets) /\ held \in Packets
  BY DEF TypeInv, WireTypes, BrokerTypes, ConnTypes
<1>2. <<>> \in Seq(Pieces)
  OBVIOUS
<1> QED
  BY <1>1, <1>2 DEF Out

(* An answer that is read is about a request that waits, in a session, and   *)
(* no other packet under way has its id.                                     *)
LEMMA AnswerRead ==
    ASSUME TypeInv, Conversation, NEW p, Reads(p), IsAnswer(p)
    PROVE  /\ connected /\ Belongs(p) /\ p \in Underway(Out, toClient, held)
           /\ Alone(Out, toClient, held)
           /\ Fresh(p.id, Out, toClient', held)
<1>1. p = toClient[1] /\ 1 \in AnswersIn(toClient) /\ toClient' \in Seq(Packets) /\ KeepsAnswers(toClient, toClient', 1)
  BY ReadsFirst
<1>2. p \in Underway(Out, toClient, held) /\ p \in Underway(Out, toClient, NoPacket)
  BY <1>1 DEF Underway
<1>3. connected
  BY <1>2 DEF Conversation
<1>4. Belongs(p) /\ Alone(Out, toClient, held)
  BY <1>2, <1>3 DEF Conversation
<1>5. Fresh(p.id, Out, toClient', held)
  BY <1>1, <1>4, OutTyped, AnswerGone
<1> QED
  BY <1>2, <1>3, <1>4, <1>5

(* The packet that is held, when it is an answer. *)
LEMMA AnswerHeld ==
    ASSUME Conversation, IsAnswer(held)
    PROVE  /\ ~connected => responses = <<>>
           /\ connected => Belongs(held) /\ Fresh(held.id, Out, toClient, NoPacket) /\ Alone(Out, toClient, NoPacket)
                           /\ Underway(Out, toClient, NoPacket) \subseteq Underway(Out, toClient, held)
<1>1. held \in Underway(Out, toClient, held)
  BY DEF Underway
<1>2. ~IsAnswer(NoPacket)
  BY DEF IsAnswer, NoPacket, Packet
<1>3. ~connected => responses = <<>>
  BY DEF Conversation
<1>4. connected => Belongs(held) /\ Alone(Out, toClient, held)
  BY <1>1 DEF Conversation
<1> QED
  BY <1>2, <1>3, <1>4, HeldGone

(* An answer of a success is about a job that was accepted. *)
LEMMA AnswerAccepted ==
    ASSUME IdsInv, crossed = {}, NEW p, Belongs(p), NEW j \in Waits, token[j] = p.id
    PROVE  Fits(p, j)
<1>1. PICK i \in Waits : token[i] = p.id /\ Fits(p, i)
  BY DEF Belongs
<1>2. i = j
  BY <1>1, WaitUnique
<1> QED
  BY <1>1, <1>2

(* Nobody is told of success who was not accepted. *)
LEMMA ToldStep ==
    ASSUME TypeInv, JobInv, BrokerInv, Conversation, Told, crossed = {}, ~misplaced', Next
    PROVE  Told'
<1> SUFFICES ASSUME NEW j \in Jobs, kind'[j] \in {"pub1", "pub2", "sub"}, outcome'[j] = "success"
             PROVE  accepted'[j] > 0
  BY DEF Told, Acknowledged
<1>1. JobStep /\ PlaceInv /\ OnceInv /\ IdsInv
  BY JobNext DEF JobInv
<1>2. \A i \in Jobs : accepted[i] > 0 => accepted'[i] > 0
  BY BrokerStep
<1>3. CASE kind[j] = kind'[j] /\ outcome[j] = "success"
  BY <1>2, <1>3 DEF Told, Acknowledged
<1>4. j \in AllJobs /\ j \notin Calls /\ j # none
  BY JobsFacts
<1>5. CASE Relays
  BY <1>3, <1>5 DEF Relays
<1>6. CASE Clears
  <2>1. PICK q, job : \E what \in {"success", "failure"} :
            /\ cleanSession(q, job, what)
            /\ \/ q = commands /\ job \notin Jobs
               \/ commands # <<>> /\ q = Tail(commands) /\ job = Head(commands).job /\ Kind(job) = "dis"
    BY <1>6 DEF Clears
  <2>2. kind' = kind
    BY <1>6 DEF Clears
  <2>3. j # job
    BY <1>4, <2>1, <2>2 DEF Kind
  <2>4. outcome'[j] = removeResponsesAndCommands(q)[j]
    BY <1>4, <2>1, <2>3, TellFacts DEF cleanSession
  <2>5. outcome[j] = "success"
    BY <1>4, <2>4, TellFacts DEF removeResponsesAndCommands
  <2> QED
    BY <1>3, <2>2, <2>5
<1>7. CASE HandlePuback
  <2>1. PICK p \in ToSet(toClient) : Reads(p) /\ p.type \in {"PUBACK", "PUBCOMP"} /\ Answered(p.id, "success") /\ kind' = kind
    BY <1>7 DEF HandlePuback
  <2>2. CASE outcome'[j] = outcome[j]
    BY <1>3, <2>1, <2>2
  <2>3. CASE j \in ToSet(responses) /\ token[j] = p.id
    <3>1. Belongs(p)
      BY <2>1, AnswerRead DEF IsAnswer
    <3>2. j \in Waits
      BY <2>1, <2>3 DEF Waits, Acknowledged
    <3>3. Fits(p, j)
      BY <1>1, <2>3, <3>1, <3>2, AnswerAccepted
    <3> QED
      BY <1>2, <2>1, <3>3 DEF Fits
  <2> QED
    BY <2>1, <2>2, <2>3, AnsweredBy
<1>8. CASE ReceiveSuback
  <2>1. /\ held.type \in {"SUBACK", "SUBACK_BAD"} /\ kind' = kind
        /\ \/ UNCHANGED outcome
           \/ Answered(held.id, IF held.type = "SUBACK" THEN "success" ELSE "failure")
    BY <1>8 DEF ReceiveSuback
  <2>2. CASE outcome'[j] = outcome[j]
    BY <1>3, <2>1, <2>2
  <2>3. CASE /\ Answered(held.id, IF held.type = "SUBACK" THEN "success" ELSE "failure")
             /\ outcome'[j] # outcome[j]
    <3>1. j \in ToSet(responses) /\ token[j] = held.id
      BY <2>3, AnsweredBy
    <3>2. connected
      <4>1. ~connected => responses = <<>>
        BY <2>1, AnswerHeld DEF IsAnswer
      <4>2. responses # <<>>
        BY <3>1 DEF ToSet
      <4> QED
        BY <4>1, <4>2
    <3>3. Belongs(held)
      BY <2>1, <3>2, AnswerHeld DEF IsAnswer
    <3>4. j \in Waits
      BY <2>1, <3>1 DEF Waits, Acknowledged
    <3>5. Fits(held, j)
      BY <1>1, <3>1, <3>3, <3>4, AnswerAccepted
    <3>6. held.type = "SUBACK"
      <4>1. CASE held.type = "SUBACK_BAD"
        <5>1. Answered(held.id, "failure")
          BY <2>3, <4>1
        <5>2. \E i : outcome' = Tell(outcome, {responses[i]}, "failure")
          BY <2>3, <5>1 DEF Answered
        <5> QED
          BY <1>4, <2>3, <5>2, TellFacts
      <4> QED
        BY <2>1, <4>1
    <3> QED
      BY <1>2, <3>5, <3>6 DEF Fits
  <2> QED
    BY <2>1, <2>2, <2>3
<1>9. ASSUME NEW i \in Jobs, NEW k \in Kinds, CheckConnected(i, k) PROVE accepted'[j] > 0
  <2>1. outcome' = outcome /\ caller[i] = "idle" /\ (kind' = kind \/ kind' = [kind EXCEPT ![i] = k])
    BY <1>9 DEF CheckConnected, Begins
  <2>2. i # j
    BY <1>1, <2>1 DEF OnceInv
  <2>3. kind'[j] = kind[j]
    BY <1>4, <2>1, <2>2 DEF TypeInv, AppTypes
  <2> QED
    BY <1>3, <2>1, <2>3
<1>10. CASE ProcessPublish0
  <2>1. PICK rc \in Results : Publish0Leaves(rc)
    BY <1>10, Publish0Jobs
  <2>2. /\ kind' = kind /\ kind[processing] = "pub0" /\ processing \in Jobs
        /\ outcome' = outcome \/ outcome' = Tell(outcome, {processing}, "success")
    BY <2>1 DEF Publish0Leaves
  <2>3. outcome[j] = "success"
    BY <1>4, <2>2, TellFacts
  <2> QED
    BY <1>3, <2>2, <2>3
<1>11. CASE ProcessRequest
  <2>1. RequestLeaves
    BY <1>11, RequestJobs
  <2>2. kind' = kind /\ (outcome' = outcome \/ outcome' = Tell(outcome, {processing}, "failure"))
    BY <2>1 DEF RequestLeaves
  <2>3. outcome[j] = "success"
    BY <1>4, <2>2, TellFacts
  <2> QED
    BY <1>3, <2>2, <2>3
<1>12. CASE ContinueWrite
  <2>1. kind' = kind /\ (outcome' = outcome \/ (pending_write # none /\ outcome' = Tell(outcome, {pending_write}, "success")))
    BY <1>12 DEF ContinueWrite
  <2>2. outcome[j] = "success"
    BY <1>1, <1>4, <2>1, TellFacts DEF PlaceInv
  <2> QED
    BY <1>3, <2>1, <2>2
<1>13. CASE UNCHANGED <<kind, outcome>>
  BY <1>3, <1>13
<1>14. \/ Relays \/ Clears \/ HandlePuback \/ ReceiveSuback
       \/ \E i \in Jobs, k \in Kinds : CheckConnected(i, k)
       \/ ProcessPublish0 \/ ProcessRequest \/ ContinueWrite
       \/ UNCHANGED <<kind, outcome>>
  <2>1. CASE Replies
    BY <2>1 DEF Replies
  <2> QED
    BY <1>1, <2>1 DEF JobStep, Connect, ReadMsgId, AssignMsgId, AddCommand, TakeCommand, NotePendingWrite, Register,
                    Dies, Restart, appVars
<1> QED
  BY <1>5, <1>6, <1>7, <1>8, <1>9, <1>10, <1>11, <1>12, <1>13, <1>14

-----------------------------------------------------------------------------
(* The steps of a session.                                                 *)

\* Nothing is asked, and nothing is answered.
Silent ==
    /\ UNCHANGED <<responses, outbound, released, held, up>>
    /\ FilesOf("s")' = FilesOf("s")
    /\ KeepsAsks(Out, Out', 0)
    /\ \E d \in {0, 1} : KeepsAnswers(toClient, toClient', d)

(* What is written that is not an ask. *)
LEMMA NothingAsked ==
    ASSUME TypeInv, StreamInv,
           \/ link' # "open"
           \/ UNCHANGED <<link, toBroker>>
           \/ UNCHANGED link /\ \E p \in Packets, rc \in Results : ~IsAsk(p) /\ Socket_putdatas(p, rc)
           \/ UNCHANGED link /\ Socket_continueWrites
    PROVE  KeepsAsks(Out, Out', 0)
<1>1. Out \in Seq(Pieces) /\ toBroker \in Seq(Pieces) /\ toClient \in Seq(Packets)
  BY OutTyped DEF TypeInv, WireTypes
<1>2. CASE link' # "open"
  <2>1. Out' = <<>>
    BY <1>2 DEF Out
  <2>2. KeepsAsks(Out, <<>>, 0)
    BY <1>1, KeepsSame
  <2> QED
    BY <2>1, <2>2
<1>3. CASE Out' = Out
  <2>1. KeepsAsks(Out, Out, 0)
    BY <1>1, KeepsSame
  <2> QED
    BY <1>3, <2>1
<1>4. ASSUME NEW p \in Packets, NEW part \in {"whole", "front", "rest"}, part = "rest" \/ ~IsAsk(p), link' = link,
             toBroker' = Append(toBroker, Piece(part, p))
      PROVE  KeepsAsks(Out, Out', 0)
  <2>1. CASE link = "open"
    <3>1. KeepsAsks(toBroker, toBroker', 0)
      BY <1>1, <1>4, KeepsAppend
    <3> QED
      BY <1>4, <2>1, <3>1 DEF Out
  <2>2. CASE link # "open"
    BY <1>2, <1>4, <2>2
  <2> QED
    BY <2>1, <2>2
<1>5. ASSUME link' = link, NEW p \in Packets, NEW rc \in Results, ~IsAsk(p), Socket_putdatas(p, rc)
      PROVE  KeepsAsks(Out, Out', 0)
  <2>1. UNCHANGED toBroker \/ \E part \in {"whole", "front"} : toBroker' = Append(toBroker, Piece(part, p))
    BY <1>5 DEF Socket_putdatas
  <2>2. CASE UNCHANGED toBroker
    BY <1>3, <1>5, <2>2 DEF Out
  <2> QED
    BY <1>4, <1>5, <2>1, <2>2
<1>6. CASE UNCHANGED link /\ Socket_continueWrites
  <2>1. UNCHANGED toBroker \/ toBroker' = Append(toBroker, Piece("rest", Head(writes)))
    BY <1>6 DEF Socket_continueWrites
  <2>2. Head(writes) \in Packets
    BY <1>6, SeqFacts DEF Socket_continueWrites, StreamInv, TypeInv, WireTypes
  <2>3. CASE UNCHANGED toBroker
    BY <1>3, <1>6, <2>3 DEF Out
  <2> QED
    BY <1>4, <1>6, <2>1, <2>2, <2>3
<1>7. CASE UNCHANGED <<link, toBroker>>
  BY <1>3, <1>7 DEF Out
<1> QED
  BY <1>2, <1>5, <1>6, <1>7

(* What can be read that is no answer. *)
LEMMA NothingAnswered ==
    ASSUME TypeInv,
           \/ UNCHANGED toClient
           \/ toClient' = <<>>
           \/ \E p : Reads(p)
           \/ \E p \in Packets : ~IsAnswer(p) /\ toClient' = Append(toClient, p)
    PROVE  \E d \in {0, 1} : KeepsAnswers(toClient, toClient', d)
<1>1. toClient \in Seq(Packets) /\ Out \in Seq(Pieces)
  BY OutTyped
<1>2. CASE \E p : Reads(p)
  BY <1>2, ReadsFirst
<1>3. CASE UNCHANGED toClient \/ toClient' = <<>>
  <2>1. KeepsAnswers(toClient, toClient, 0) /\ KeepsAnswers(toClient, <<>>, 0)
    BY <1>1, KeepsSame
  <2> QED
    BY <1>3, <2>1
<1>4. ASSUME NEW p \in Packets, ~IsAnswer(p), toClient' = Append(toClient, p)
      PROVE  \E d \in {0, 1} : KeepsAnswers(toClient, toClient', d)
  <2>1. KeepsAnswers(toClient, Append(toClient, p), 0)
    BY <1>1, <1>4, KeepsAppendAnswers
  <2> QED
    BY <1>4, <2>1
<1> QED
  BY <1>2, <1>3, <1>4

(* Messages come and are answered, without an ask or an answer of the client's *)
(* own.                                                                        *)
LEMMA ReceivedSilent ==
    ASSUME TypeInv, StreamInv,
           HandlePublish1 \/ HandlePublish2 \/ HandlePubrel \/ HandlePingresp \/ BrokerSends
    PROVE  Silent
<1>1. ASSUME UNCHANGED <<responses, outbound, released, held, up>>, FilesOf("s")' = FilesOf("s"),
             KeepsAsks(Out, Out', 0), \E d \in {0, 1} : KeepsAnswers(toClient, toClient', d)
      PROVE  Silent
  BY <1>1 DEF Silent
<1>7. CASE HandlePublish1 \/ HandlePublish2 \/ HandlePubrel \/ HandlePingresp
  <2> DEFINE Sends(p) == \E type \in {"PUBACK", "PUBREC", "PUBCOMP"}, about \in Nat, rc \in Results :
                             Socket_putdatas(Packet(type, p.id, about), rc)
             Stores(p) == \/ UNCHANGED store
                          \/ store' = Put(store, File("r", p.id, p.about))
                          \/ store' = Removed({"r"}, p.id)
  <2>0. /\ \A p : Reads(p) => p \in Packets /\ p.about \in Nat /\ p.id \in Nat
        /\ \A m \in inbound : m.about \in Nat
    BY ReadsFirst DEF Packets, TypeInv, QueueTypes
  <2>1. PICK p : /\ Reads(p)
                 /\ UNCHANGED <<responses, outbound, released, held, up, link>>
                 /\ Stores(p)
                 /\ UNCHANGED toBroker \/ Sends(p)
    <3>1. CASE HandlePublish1
      <4>1. PICK p \in ToSet(toClient), rc \in Results :
                /\ Reads(p)
                /\ Socket_putdatas(Packet("PUBACK", p.id, p.about), rc)
                /\ UNCHANGED <<responses, outbound, released, held, up, link, store>>
        BY <3>1 DEF HandlePublish1, queueVars, brokerVars
      <4> QED
        BY <2>0, <4>1
    <3>2. CASE HandlePublish2
      <4>1. PICK p \in ToSet(toClient), rc \in Results :
                /\ Reads(p)
                /\ Socket_putdatas(Packet("PUBREC", p.id, p.about), rc)
                /\ store' = Put(store, File("r", p.id, p.about))
                /\ UNCHANGED <<responses, outbound, released, held, up, link>>
        BY <3>2 DEF HandlePublish2, brokerVars
      <4> QED
        BY <2>0, <4>1
    <3>3. CASE HandlePubrel
      <4>1. PICK p \in ToSet(toClient), rc \in Results :
                /\ Reads(p)
                /\ \/ \E m \in inbound : /\ Socket_putdatas(Packet("PUBCOMP", p.id, m.about), rc)
                                         /\ store' = Removed({"r"}, p.id)
                   \/ Socket_putdatas(Packet("PUBCOMP", p.id, p.about), rc) /\ UNCHANGED store
                   \/ UNCHANGED <<store, toBroker>>
                /\ UNCHANGED <<responses, outbound, released, held, up, link>>
        BY <3>3 DEF HandlePubrel, brokerVars
      <4> QED
        BY <2>0, <4>1
    <3>4. CASE HandlePingresp
      BY <3>4 DEF HandlePingresp, queueVars, brokerVars
    <3> QED
      BY <1>7, <3>1, <3>2, <3>3, <3>4
  <2>2. FilesOf("s")' = FilesOf("s")
    BY <2>1 DEF Put, Removed, File, FilesOf
  <2>3. \A type \in {"PUBACK", "PUBREC", "PUBCOMP"}, about \in Nat :
            Packet(type, p.id, about) \in Packets /\ ~IsAsk(Packet(type, p.id, about))
    <3>2. p.id \in Nat
      BY <2>0, <2>1
    <3>3. {"PUBACK", "PUBREC", "PUBCOMP"} \subseteq PacketTypes
      BY DEF PacketTypes
    <3> QED
      BY <3>2, <3>3, PacketTyped DEF IsAsk, Packet
  <2>4. KeepsAsks(Out, Out', 0)
    <3>1. CASE UNCHANGED toBroker
      BY <2>1, <3>1, NothingAsked
    <3>2. CASE ~UNCHANGED toBroker
      <4>1. \E q \in Packets, rc \in Results : ~IsAsk(q) /\ Socket_putdatas(q, rc)
        BY <2>1, <2>3, <3>2
      <4> QED
        BY <2>1, <4>1, NothingAsked
    <3> QED
      BY <3>1, <3>2
  <2>5. \E d \in {0, 1} : KeepsAnswers(toClient, toClient', d)
    BY <2>1, NothingAnswered
  <2> QED
    BY <1>1, <2>1, <2>2, <2>4, <2>5
<1>9. CASE BrokerSends
  <2>1. /\ UNCHANGED <<responses, outbound, released, held, up, link, toBroker, store>>
        /\ \E m \in Inbound, type \in {"PUBLISH1", "PUBLISH2", "PUBREL_DUP"} : toClient' = Append(toClient, Packet(type, m, m))
    BY <1>9 DEF BrokerSends, queueVars, threadVars
  <2>2. FilesOf("s")' = FilesOf("s")
    BY <2>1 DEF FilesOf
  <2>3. \A m \in Inbound, type \in {"PUBLISH1", "PUBLISH2", "PUBREL_DUP"} :
            Packet(type, m, m) \in Packets /\ ~IsAnswer(Packet(type, m, m))
    <3>1. {"PUBLISH1", "PUBLISH2", "PUBREL_DUP"} \subseteq PacketTypes /\ Inbound \subseteq Nat
      BY JobsAssumption DEF PacketTypes
    <3> QED
      BY <3>1, PacketTyped DEF IsAnswer, Packet
  <2>4. \E d \in {0, 1} : KeepsAnswers(toClient, toClient', d)
    BY <2>1, <2>3, NothingAnswered
  <2> QED
    BY <1>1, <2>1, <2>2, <2>4, NothingAsked
<1> QED
  BY <1>7, <1>9

LEMMA SessionNext ==
    ASSUME TypeInv, StreamInv, PlaceInv, LinkInv, Next, connected, connected'
    PROVE  \/ Silent
           \/ Register \/ ContinueWrite \/ ProcessRequest \/ HandlePuback \/ HandlePubrec \/ ReceiveSuback
           \/ HoldPacket \/ BrokerReads
<1>0. /\ link \in {"open", "reset"} /\ connect_state = 0 /\ up
      /\ link # "open" => toClient = <<>>
  BY DEF LinkInv, PlaceInv
<1>1. ASSUME UNCHANGED <<responses, outbound, released, held, up>>, FilesOf("s")' = FilesOf("s"),
             KeepsAsks(Out, Out', 0), \E d \in {0, 1} : KeepsAnswers(toClient, toClient', d)
      PROVE  Silent
  BY <1>1 DEF Silent
<1>2. ASSUME UNCHANGED <<responses, outbound, released, held, up, link, toBroker, toClient>>, FilesOf("s")' = FilesOf("s")
      PROVE  Silent
  BY <1>1, <1>2, NothingAsked, NothingAnswered
<1>3. CASE ApplicationStep
  <2>1. /\ UNCHANGED <<responses, outbound, released, held, up, link, toBroker, toClient>>
        /\ UNCHANGED store \/ \E j \in Jobs : store' = store \cup Persisted(j)
    BY <1>3 DEF ApplicationStep, Connect, CheckConnected, ReadMsgId, AssignMsgId, AddCommand, queueVars,
         threadVars, brokerVars, sockVars
  <2>2. FilesOf("s")' = FilesOf("s")
    BY <2>1 DEF Persisted, File, FilesOf
  <2> QED
    BY <1>2, <2>1, <2>2
<1>4. CASE ProcessPublish0
  <2>1. PICK p \in Packets, rc \in Results : ~IsAsk(p) /\ Socket_putdatas(p, rc)
    BY <1>4, Publish0Sent DEF IsAsk
  <2>2. UNCHANGED <<responses, outbound, released, held, up, link, toClient, store>>
    BY <1>4 DEF ProcessPublish0, queueVars, brokerVars
  <2>3. FilesOf("s")' = FilesOf("s")
    BY <2>2 DEF FilesOf
  <2>4. KeepsAsks(Out, Out', 0)
    BY <2>1, <2>2, NothingAsked
  <2> QED
    BY <1>1, <2>2, <2>3, <2>4, NothingAnswered
<1>9. CASE TakeCommand
  <2>1. /\ UNCHANGED <<responses, outbound, released, held, up, link, toBroker, toClient>>
        /\ \E j : store' = Unpersisted(j)
    BY <1>9 DEF TakeCommand, brokerVars, sockVars
  <2>2. FilesOf("s")' = FilesOf("s")
    BY <2>1 DEF Unpersisted, FilesOf
  <2> QED
    BY <1>2, <2>1, <2>2
<1>5. CASE ProcessConnect \/ NotePendingWrite \/ Select \/ NothingToRead \/ ReadFails \/ AfterFailure
  <2>1. UNCHANGED <<responses, outbound, released, held, up, link, toBroker, toClient, store>>
    BY <1>0, <1>5 DEF ProcessConnect, NotePendingWrite, Select, NothingToRead, ReadFails, AfterFailure, queueVars,
                        threadVars, brokerVars, sockVars
  <2>2. FilesOf("s")' = FilesOf("s")
    BY <2>1 DEF FilesOf
  <2> QED
    BY <1>2, <2>1, <2>2
<1>6. ~(ProcessDisconnect \/ ConnectTimesOut \/ Connecting \/ ConnectBreaks \/ ReceiveConnack \/ Dies \/ Restart)
  <2>1. ~(ProcessDisconnect \/ Dies)
    BY DEF ProcessDisconnect, checkDisconnect, closeSession, closeOnly, Dies
  <2>2. ~(ConnectTimesOut \/ Connecting \/ ConnectBreaks \/ Restart)
    BY <1>0 DEF ConnectTimesOut, Connecting, ConnectBreaks, Restart, LinkInv
  <2>3. ~ReceiveConnack
    <3>1. ReceiveConnack => link = "closed" \/ connect_state = 3 \/ ConnectFails
      BY DEF ReceiveConnack
    <3>2. ~ConnectFails
      BY DEF ConnectFails, closeSession, closeOnly
    <3> QED
      BY <1>0, <3>1, <3>2
  <2> QED
    BY <2>1, <2>2, <2>3
<1>7. CASE HandlePublish1 \/ HandlePublish2 \/ HandlePubrel \/ HandlePingresp \/ BrokerSends
  BY <1>7, ReceivedSilent
<1>8. CASE KeepAlive
  <2>1. /\ UNCHANGED <<responses, outbound, released, held, up, link, toClient, store>>
        /\ UNCHANGED toBroker \/ \E rc \in Results : Socket_putdatas(Packet("PINGREQ", 0, none), rc)
    BY <1>8 DEF KeepAlive, threadVars, brokerVars
  <2>2. FilesOf("s")' = FilesOf("s")
    BY <2>1 DEF FilesOf
  <2>3. Packet("PINGREQ", 0, none) \in Packets /\ ~IsAsk(Packet("PINGREQ", 0, none))
    BY ClientPackets DEF IsAsk, Packet
  <2>4. KeepsAsks(Out, Out', 0)
    BY <2>1, <2>3, NothingAsked
  <2> QED
    BY <1>1, <2>1, <2>2, <2>4, NothingAnswered
<1>10. CASE BrokerDrops \/ NetworkBreaks
  <2>1. /\ UNCHANGED <<responses, outbound, released, held, up, store>>
        /\ link' # "open"
        /\ UNCHANGED toClient \/ toClient' = <<>>
    BY <1>0, <1>10 DEF BrokerDrops, NetworkBreaks, Breaks, queueVars, threadVars, brokerVars
  <2>2. FilesOf("s")' = FilesOf("s")
    BY <2>1 DEF FilesOf
  <2> QED
    BY <1>1, <2>1, <2>2, NothingAsked, NothingAnswered
<1> QED
  BY <1>3, <1>4, <1>5, <1>6, <1>7, <1>8, <1>9, <1>10 DEF Next, SendThread, ReceiveThread, Crash, WriteCompleteCrashes

-----------------------------------------------------------------------------
(* The queue in a session.                                                 *)

(* What the commands may become in a session. *)
LEMMA CommandsNext ==
    ASSUME TypeInv, PlaceInv, LinkInv, Next, connected, connected'
    PROVE  \/ UNCHANGED commands
           \/ \E c \in Entries : commands' = Added(c, commands)
           \/ commands # <<>> /\ Kind(Head(commands).job) = "con" /\ commands' = Tail(commands)
           \/ TakeCommand
<1>0. link \in {"open", "reset"} /\ connect_state = 0 /\ up
  BY DEF LinkInv, PlaceInv
<1>1. CASE ApplicationStep
  <2>1. UNCHANGED commands \/ \E j \in AllJobs : commands' = Added(Command(j, 0), commands)
    BY <1>1 DEF ApplicationStep, Connect, CheckConnected, ReadMsgId, AssignMsgId, AddCommand, queueVars, AllJobs
  <2> QED
    BY <2>1, EntryTyped
<1>2. CASE ProcessConnect
  BY <1>2 DEF ProcessConnect, Takes
<1>3. CASE KeepAlive \/ AfterFailure \/ ProcessRequest
  <2>1. UNCHANGED commands \/ commands' = Added(Command(none, 0), commands)
    BY <1>3 DEF KeepAlive, AfterFailure, ProcessRequest, disconnect_internal
  <2> QED
    BY <2>1, EntryTyped
<1>6. ~(ProcessDisconnect \/ ConnectTimesOut \/ Connecting \/ ConnectBreaks \/ ReceiveConnack \/ Dies \/ Restart)
  <2>1. ~(ProcessDisconnect \/ Dies)
    BY DEF ProcessDisconnect, checkDisconnect, closeSession, closeOnly, Dies
  <2>2. ~(ConnectTimesOut \/ Connecting \/ ConnectBreaks \/ Restart)
    BY <1>0 DEF ConnectTimesOut, Connecting, ConnectBreaks, Restart, LinkInv
  <2>3. ~ReceiveConnack
    <3>1. ReceiveConnack => link = "closed" \/ connect_state = 3 \/ ConnectFails
      BY DEF ReceiveConnack
    <3>2. ~ConnectFails
      BY DEF ConnectFails, closeSession, closeOnly
    <3> QED
      BY <1>0, <3>1, <3>2
  <2> QED
    BY <2>1, <2>2, <2>3
<1>7. CASE \/ ProcessPublish0 \/ NotePendingWrite \/ Register \/ Select \/ ContinueWrite \/ NothingToRead
           \/ ReadFails \/ HoldPacket \/ ReceiveSuback \/ HandlePuback \/ HandlePubrec \/ HandlePublish1
           \/ HandlePublish2 \/ HandlePubrel \/ HandlePingresp \/ BrokerReads \/ BrokerSends \/ BrokerDrops
           \/ NetworkBreaks
  BY <1>7 DEF ProcessPublish0, NotePendingWrite, Register, Select, ContinueWrite, NothingToRead, ReadFails,
       HoldPacket, ReceiveSuback, HandlePuback, HandlePubrec, HandlePublish1, HandlePublish2, HandlePubrel,
       HandlePingresp, BrokerReads, BrokerSends, BrokerDrops, NetworkBreaks, queueVars
<1> QED
  BY <1>1, <1>2, <1>3, <1>6, <1>7 DEF Next, SendThread, ReceiveThread, Crash, WriteCompleteCrashes

(* A disconnect that comes before any request still does. *)
LEMMA ClosingStep ==
    ASSUME TypeInv, JobInv, LinkInv, Next, connected, connected', Closing
    PROVE  Closing'
<1>1. commands \in Seq(Entries) /\ PlaceInv /\ JobStep
  BY JobNext DEF TypeInv, QueueTypes, JobInv
<1>2. PICK n : n = Len(commands)
  OBVIOUS
<1>3. n \in Nat /\ DOMAIN commands = 1 .. n
  BY <1>1, <1>2, LenProperties
<1>4. PICK i \in 1 .. n : Kind(commands[i].job) = "dis" /\ \A k \in 1 .. i - 1 : Kind(commands[k].job) = "con"
  BY <1>3 DEF Closing
<1>5. i \in Nat /\ 1 <= i /\ i <= n /\ n # 0 /\ commands # <<>>
  BY <1>1, <1>2, <1>3, <1>4, EmptySeq
<1>6. Head(commands) = commands[1]
  BY <1>1, <1>5, SeqFacts
<1> DEFINE N(x) == IF x = none THEN "dis" ELSE kind'[x]
<1>7. \A x \in Calls : kind'[x] = kind[x]
  <2>1. kind' = kind \/ \E j \in Jobs, l \in Kinds : kind' = [kind EXCEPT ![j] = l]
    BY <1>1 DEF JobStep, Relays, Clears, Replies, Connect, CheckConnected, ReadMsgId, AssignMsgId, AddCommand,
         TakeCommand, ProcessPublish0, NotePendingWrite, ProcessRequest, Register, ContinueWrite, Dies,
         Restart, appVars
  <2>2. \A x \in Calls : x \in AllJobs /\ x \notin Jobs
    BY JobsFacts
  <2> QED
    BY <2>1, <2>2 DEF TypeInv, AppTypes
<1>8. \A k \in 1 .. n : N(commands[k].job) = Kind(commands[k].job)
  <2> SUFFICES ASSUME NEW k \in 1 .. n, commands[k].job # none PROVE kind'[commands[k].job] = kind[commands[k].job]
    BY DEF Kind
  <2>1. commands[k].job \in JobsOf(commands)
    BY <1>3 DEF JobsOf
  <2>2. CASE commands[k].job \in Jobs
    BY <1>1, <2>1, <2>2, Settled DEF PlaceInv
  <2> QED
    BY <1>7, <2>1, <2>2, JobsFacts DEF AllJobs
<1> HIDE DEF N
<1>9. N(commands[i].job) = "dis" /\ \A k \in 1 .. i - 1 : N(commands[k].job) = "con"
  <2>1. \A k \in 1 .. i - 1 : k \in 1 .. n
    BY <1>3, <1>4
  <2> QED
    BY <1>4, <1>8, <2>1
<1>15. ~TakeCommand
  <2>1. TakeCommand => Kind(commands[1].job) \notin {"con", "dis"}
    BY <1>6 DEF TakeCommand, Takes
  <2>2. i = 1 \/ 1 \in 1 .. i - 1
    BY <1>5
  <2> QED
    BY <1>4, <2>1, <2>2
<1>17. processing' = none
  <2>1. stage = "idle"
    BY ProcessingTyped DEF Closing
  <2>2. processing' = processing \/ processing' = none \/ TakeCommand
    BY <2>1 DEF Next, ApplicationStep, SendThread, ReceiveThread, Connect, CheckConnected, ReadMsgId, AssignMsgId,
                AddCommand, ProcessConnect, ProcessDisconnect, ProcessPublish0, Processes, NotePendingWrite, Register,
                ProcessRequest, ConnectTimesOut, Select, ContinueWrite, NothingToRead, Connecting, ConnectBreaks,
                ReadFails, AfterFailure, HoldPacket, ReceiveConnack, ReceiveSuback, HandlePuback, HandlePubrec,
                HandlePublish1, HandlePublish2, HandlePubrel, HandlePingresp, KeepAlive, Crash, WriteCompleteCrashes,
                Dies, Restart, BrokerReads, BrokerSends, BrokerDrops, NetworkBreaks, threadVars
  <2> QED
    BY <1>15, <2>2 DEF Closing
<1>10. SUFFICES \E l \in DOMAIN commands' : N(commands'[l].job) = "dis" /\ \A k \in 1 .. l - 1 : N(commands'[k].job) = "con"
  BY <1>17 DEF Closing, Kind, N
<1>11. CASE UNCHANGED commands
  BY <1>3, <1>9, <1>11
<1>12. ASSUME NEW c \in Entries, commands' = Append(commands, c)
       PROVE  \E l \in DOMAIN commands' : N(commands'[l].job) = "dis" /\ \A k \in 1 .. l - 1 : N(commands'[k].job) = "con"
  <2>1. commands' \in Seq(Entries) /\ Len(commands') = n + 1 /\ \A k \in 1 .. n : commands'[k] = commands[k]
    BY <1>1, <1>2, <1>12, AppendFacts
  <2>2. DOMAIN commands' = 1 .. n + 1
    BY <2>1, LenProperties
  <2>3. i \in DOMAIN commands' /\ \A k \in 1 .. i - 1 : k \in 1 .. n
    BY <1>3, <1>4, <2>2
  <2> QED
    BY <1>9, <2>1, <2>3
<1>13. ASSUME NEW c \in Entries, IsFirst(c.job), commands' = <<c>> \o commands
       PROVE  \E l \in DOMAIN commands' : N(commands'[l].job) = "dis" /\ \A k \in 1 .. l - 1 : N(commands'[k].job) = "con"
  <2>1. /\ DOMAIN commands' = 1 .. n + 1
        /\ commands'[1] = c
        /\ \A k \in 1 .. n : commands'[k + 1] = commands[k]
    <3>1. <<c>> \in Seq(Entries) /\ Len(<<c>>) = 1 /\ <<c>>[1] = c
      OBVIOUS
    <3>2. /\ commands' \in Seq(Entries)
          /\ Len(commands') = 1 + n
          /\ \A k \in 1 .. 1 + n : commands'[k] = IF k <= 1 THEN <<c>>[k] ELSE commands[k - 1]
      BY <1>1, <1>2, <1>13, <3>1, ConcatProperties
    <3>3. DOMAIN commands' = 1 .. 1 + n
      BY <3>2, LenProperties
    <3>4. \A k \in 1 .. n : k + 1 \in 1 .. 1 + n /\ ~(k + 1 <= 1) /\ (k + 1) - 1 = k
      BY <1>3
    <3> QED
      BY <1>3, <3>1, <3>2, <3>3, <3>4
  <2>2. CASE N(c.job) = "dis"
    <3>1. 1 \in DOMAIN commands' /\ 1 .. 1 - 1 = {}
      BY <1>3, <2>1
    <3> QED
      BY <2>1, <2>2, <3>1
  <2>3. CASE N(c.job) # "dis"
    <3>1. c.job # none /\ kind[c.job] = "con"
      BY <1>13, <2>3 DEF N, IsFirst, Kind
    <3>2. c.job \in Calls
      BY <3>1 DEF Entries, AllJobs, TypeInv, AppTypes
    <3>3. N(c.job) = "con"
      BY <1>7, <3>1, <3>2 DEF N
    <3>4. i + 1 \in 1 .. n + 1 /\ \A k \in 1 .. (i + 1) - 1 : k = 1 \/ (k - 1 \in 1 .. i - 1 /\ k - 1 \in 1 .. n /\ (k - 1) + 1 = k)
      BY <1>3, <1>4
    <3>5. \A k \in 1 .. (i + 1) - 1 : N(commands'[k].job) = "con"
      BY <1>9, <2>1, <3>3, <3>4
    <3> QED
      BY <1>4, <1>9, <2>1, <3>4, <3>5
  <2> QED
    BY <2>2, <2>3
<1>14. CASE Kind(Head(commands).job) = "con" /\ commands' = Tail(commands)
  <2>1. i # 1
    BY <1>4, <1>6, <1>14
  <2>2. commands' \in Seq(Entries) /\ Len(commands') = n - 1 /\ \A k \in 1 .. n - 1 : commands'[k] = commands[k + 1]
    BY <1>1, <1>2, <1>5, <1>14, SeqFacts
  <2>3. DOMAIN commands' = 1 .. n - 1
    BY <2>2, LenProperties
  <2>4. i - 1 \in 1 .. n - 1 /\ (i - 1) + 1 = i /\ \A k \in 1 .. (i - 1) - 1 : k \in 1 .. n - 1 /\ k + 1 \in 1 .. i - 1
    BY <1>3, <1>4, <2>1
  <2> QED
    BY <1>9, <2>2, <2>3, <2>4
<1>16. ASSUME NEW c \in Entries, commands' = Added(c, commands)
       PROVE  \E l \in DOMAIN commands' : N(commands'[l].job) = "dis" /\ \A k \in 1 .. l - 1 : N(commands'[k].job) = "con"
  <2>1. \/ commands' = commands
        \/ commands' = Append(commands, c)
        \/ IsFirst(c.job) /\ commands' = <<c>> \o commands
    BY <1>16 DEF Added
  <2> QED
    BY <1>11, <1>12, <1>13, <2>1
<1> QED
  BY <1>1, <1>11, <1>14, <1>15, <1>16, CommandsNext

(* A request that waits keeps its kind and its id. *)
LEMMA WaitsFacts ==
    ASSUME TypeInv, JobInv, Next
    PROVE  \A j \in Waits : /\ j \in Jobs /\ kind'[j] = kind[j] /\ token'[j] = token[j]
                            /\ kind[j] \in {"pub1", "pub2", "sub"} /\ j \in ToSet(responses)
                            /\ j \in ToSet(responses') => j \in Waits'
<1>1. PlaceInv /\ JobStep
  BY JobNext DEF JobInv
<1>2. ASSUME NEW j \in Waits
      PROVE  /\ j \in Jobs /\ kind'[j] = kind[j] /\ token'[j] = token[j]
             /\ kind[j] \in {"pub1", "pub2", "sub"} /\ j \in ToSet(responses)
  <2>1. j \in Jobs /\ j \in ToSet(responses) /\ kind[j] \in {"pub1", "pub2", "sub"}
    BY DEF Waits, Acknowledged
  <2>2. caller[j] \in {"queued", "gone"}
    BY <1>1, <2>1 DEF PlaceInv
  <2> QED
    BY <1>1, <2>1, <2>2, Settled
<1> QED
  BY <1>2 DEF Waits, Acknowledged

(* Without an answer, only the response of a QoS 0 publication may go. *)
LEMMA ResponsesKept ==
    ASSUME TypeInv, JobInv, ~misplaced',
           Silent \/ Register \/ ContinueWrite \/ ProcessRequest \/ HandlePubrec \/ HoldPacket \/ BrokerReads
    PROVE  \A j \in ToSet(responses) : kind[j] # "pub0" => j \in ToSet(responses')
<1>1. responses \in Seq(Jobs) /\ processing \in Jobs \cup {none} /\ PlaceInv
  BY DEF TypeInv, QueueTypes, ConnTypes, JobInv
<1>2. CASE UNCHANGED responses
  BY <1>2
<1>3. CASE Register
  <2>1. responses' = Append(responses, processing) /\ processing \in Jobs
    BY <1>1, <1>3, ProcessingTyped DEF Register
  <2>2. ToSet(responses') = ToSet(responses) \cup {processing}
    BY <1>1, <2>1, ResponsesAppend
  <2> QED
    BY <2>2
<1>4. CASE ProcessRequest
  <2>1. RequestLeaves
    BY <1>4, RequestJobs
  <2>2. UNCHANGED responses \/ ToSet(responses') = ToSet(responses) \cup {processing}
    BY <1>1, <2>1, ResponsesAppend DEF RequestLeaves
  <2> QED
    BY <2>2
<1>5. CASE ContinueWrite
  <2>1. \/ UNCHANGED responses
        \/ /\ pending_write # none /\ responses # <<>> /\ responses' = Tail(responses)
           /\ misplaced' = (misplaced \/ Head(responses) # pending_write)
    BY <1>5 DEF ContinueWrite
  <2>2. CASE /\ pending_write # none /\ responses # <<>> /\ responses' = Tail(responses)
             /\ Head(responses) = pending_write
    <3>1. ToSet(responses) = ToSet(responses') \cup {pending_write}
      BY <1>1, <2>2, ResponsesTail
    <3>2. kind[pending_write] = "pub0"
      BY <1>1, <2>2 DEF PlaceInv
    <3> QED
      BY <3>1, <3>2
  <2>3. \/ UNCHANGED responses
        \/ /\ pending_write # none /\ responses # <<>> /\ responses' = Tail(responses)
           /\ Head(responses) = pending_write
    BY <2>1, Zenon
  <2> QED
    BY <1>2, <2>2, <2>3
<1> QED
  BY <1>2, <1>3, <1>4, <1>5 DEF Silent, HandlePubrec, HoldPacket, BrokerReads, queueVars

(* The publications in flight when none comes or goes. *)
LEMMA FlownKept ==
    ASSUME TypeInv, JobInv, InFlightFiles, Next, Flown, Closing => Closing',
           DOMAIN outbound' = DOMAIN outbound,
           \A i \in DOMAIN outbound : /\ outbound'[i].job = outbound[i].job
                                      /\ \/ outbound'[i].next = outbound[i].next
                                         \/ outbound'[i].next = "PUBCOMP" /\ outbound[i].next = "PUBREC",
           \A i \in DOMAIN outbound : outbound[i].job \in ToSet(responses) => outbound[i].job \in ToSet(responses')
    PROVE  Flown'
<1>1. \A i \in DOMAIN outbound : token'[outbound[i].job] = token[outbound[i].job] /\ kind'[outbound[i].job] = kind[outbound[i].job]
  BY JobNext, Settled, OutboundFacts DEF InFlightFiles, JobInv
<1> QED
  BY <1>1 DEF Flown

(* After an acknowledgement. *)
LEMMA FlownPuback ==
    ASSUME TypeInv, JobInv, InFlightFiles, Conversation, Flown, crossed = {}, Closing => Closing', Next, HandlePuback
    PROVE  Flown'
<1>1. PICK p \in ToSet(toClient) :
          /\ Reads(p)
          /\ p.type \in {"PUBACK", "PUBCOMP"}
          /\ \/ /\ Waiting(p.id, p.type) = {}
                /\ UNCHANGED outbound
             \/ \E i \in Waiting(p.id, p.type) : outbound' = RemoveAt(outbound, i)
          /\ Answered(p.id, "success")
  BY DEF HandlePuback
<1>2. Belongs(p)
  BY <1>1, AnswerRead DEF IsAnswer
<1>3. \A j \in ToSet(responses) : token[j] # p.id => j \in ToSet(responses')
  BY <1>1, AnsweredBy
<1>4. DOMAIN outbound = 1 .. Len(outbound) /\ Len(outbound) \in Nat /\ outbound \in Seq(Messages)
  BY OutboundFacts DEF TypeInv, QueueTypes
<1>5. CASE Waiting(p.id, p.type) = {} /\ UNCHANGED outbound
  <2>1. ASSUME NEW i \in DOMAIN outbound, outbound[i].job \in ToSet(responses), token[outbound[i].job] = p.id PROVE FALSE
    <3>1. outbound[i].job \in Waits
      BY <2>1, OutboundFacts DEF Waits, Acknowledged, InFlightFiles
    <3>2. Fits(p, outbound[i].job)
      BY <1>2, <2>1, <3>1, AnswerAccepted DEF JobInv
    <3>3. outbound[i].next = p.type
      BY <1>1, <3>2 DEF Fits, Flown
    <3>4. \A k \in 1 .. i - 1 : k \in DOMAIN outbound /\ k # i
      BY <1>4
    <3>5. \A k \in 1 .. i - 1 : token[outbound[k].job] # p.id
      BY <2>1, <3>4 DEF Flown
    <3> QED
      BY <1>5, <2>1, <3>3, <3>5 DEF Waiting
  <2> QED
    BY <1>3, <1>5, <2>1, FlownKept
<1>6. ASSUME NEW i \in Waiting(p.id, p.type), outbound' = RemoveAt(outbound, i) PROVE Flown'
  <2>1. i \in DOMAIN outbound /\ token[outbound[i].job] = p.id
    BY <1>6 DEF Waiting
  <2>2. PICK At1 \in [DOMAIN outbound' -> Nat] : \A l \in DOMAIN outbound' : At1[l] = IF l < i THEN l ELSE l + 1
    <3>1. outbound' \in Seq(Messages)
      BY <1>4, <1>6, <2>1, RemoveAtFacts
    <3>2. DOMAIN outbound' \subseteq Nat
      BY <3>1, LenProperties
    <3>3. [l \in DOMAIN outbound' |-> IF l < i THEN l ELSE l + 1] \in [DOMAIN outbound' -> Nat]
      BY <3>2
    <3> QED
      BY <3>3
  <2>3. \A l \in DOMAIN outbound' : /\ At1[l] \in DOMAIN outbound
                                    /\ At1[l] # i
                                    /\ outbound'[l] = outbound[At1[l]]
    <3>1. /\ outbound' \in Seq(Messages)
          /\ \A l \in DOMAIN outbound' : outbound'[l] = IF l < i THEN outbound[l] ELSE outbound[l + 1]
          /\ Len(outbound') = Len(outbound) - 1
      BY <1>4, <1>6, <2>1, RemoveAtFacts
    <3>2. DOMAIN outbound' = 1 .. Len(outbound) - 1
      BY <3>1, LenProperties
    <3>3. \A l \in 1 .. Len(outbound) - 1 : l \in DOMAIN outbound /\ l + 1 \in DOMAIN outbound
      BY <1>4
    <3>4. \A l \in 1 .. Len(outbound) - 1 : (l < i => l # i) /\ (~(l < i) => l + 1 # i)
      BY <1>4, <2>1
    <3> QED
      BY <2>2, <3>1, <3>2, <3>3, <3>4
  <2>4. \A l \in DOMAIN outbound' : \A m \in DOMAIN outbound' : At1[l] = At1[m] => l = m
    <3>1. DOMAIN outbound' \subseteq Nat /\ i \in Nat
      BY <1>4, <1>6, <2>1, RemoveAtFacts, LenProperties
    <3> QED
      BY <2>2, <3>1
  <2>5. \A k \in DOMAIN outbound : k # i => token[outbound[k].job] # p.id
    BY <2>1 DEF Flown
  <2>6. \A k \in DOMAIN outbound : k # i => outbound[k].job \in ToSet(responses') \/ Closing'
    BY <1>3, <2>5 DEF Flown
  <2>7. \A k \in DOMAIN outbound : token'[outbound[k].job] = token[outbound[k].job] /\ kind'[outbound[k].job] = kind[outbound[k].job]
    BY JobNext, Settled, OutboundFacts DEF InFlightFiles, JobInv
  <2>8. \A l \in DOMAIN outbound' : \A m \in DOMAIN outbound' : token'[outbound'[l].job] = token'[outbound'[m].job] => l = m
    BY <2>3, <2>4, <2>7 DEF Flown
  <2>9. \A l \in DOMAIN outbound' : outbound'[l].job \in ToSet(responses') \/ Closing'
    BY <2>3, <2>6
  <2>10. \A l \in DOMAIN outbound' : IF kind'[outbound'[l].job] = "pub1" THEN outbound'[l].next = "PUBACK"
                                     ELSE outbound'[l].next \in {"PUBREC", "PUBCOMP"}
    BY <2>3, <2>7 DEF Flown
  <2> QED
    BY <2>8, <2>9, <2>10 DEF Flown
<1> QED
  BY <1>1, <1>5, <1>6

LEMMA ConsFirst ==
    ASSUME NEW q \in Seq(Entries), NEW c \in Entries
    PROVE  1 \in DOMAIN (<<c>> \o q) /\ (<<c>> \o q)[1] = c
<1>1. <<c>> \in Seq(Entries) /\ Len(<<c>>) = 1 /\ <<c>>[1] = c
  OBVIOUS
<1>2. PICK t : t = <<c>> \o q
  OBVIOUS
<1>3. PICK n : n = Len(q)
  OBVIOUS
<1>4. /\ t \in Seq(Entries)
      /\ Len(t) = 1 + n
      /\ \A k \in 1 .. 1 + n : t[k] = IF k <= 1 THEN <<c>>[k] ELSE q[k - 1]
  BY <1>1, <1>2, <1>3, ConcatProperties
<1>5. 1 \in 1 .. 1 + n
  BY <1>3, LenProperties
<1>6. 1 \in DOMAIN t /\ t[1] = c
  BY <1>1, <1>4, <1>5, LenProperties
<1> QED
  BY <1>2, <1>6

(* A request that is processed is new to the session. *)
LEMMA RequestNew ==
    ASSUME TypeInv, JobInv, InFlightFiles, Flown, crossed = {}, ~misplaced, ProcessRequest
    PROVE  /\ processing \in Jobs /\ kind[processing] \in {"pub1", "pub2", "sub"} /\ connected
           /\ processing \notin ToSet(responses)
           /\ \A w \in Waits : token[w] # token[processing]
           /\ \A i \in DOMAIN outbound : /\ outbound[i].job \in Waits
                                         /\ outbound[i].job # processing
                                         /\ token[outbound[i].job] # token[processing]
<1>1. processing \in Jobs /\ processing # none /\ kind[processing] \in {"pub1", "pub2", "sub"}
  BY RequestJobs DEF RequestLeaves
<1>2. processing \in Mine /\ connected
  BY <1>1 DEF JobInv, PlaceInv, Mine
<1>3. processing \notin ToSet(responses)
  BY <1>2 DEF JobInv, OnceInv
<1>4. \A w \in Waits : token[w] # token[processing]
  <2>1. processing \in Holders
    BY <1>1 DEF Holders, Live, Acknowledged
  <2>2. \A w \in Waits : w \in Holders /\ w # processing
    BY <1>3 DEF Holders, Live, Waits
  <2> QED
    BY <2>1, <2>2 DEF JobInv, IdsInv
<1>5. \A i \in DOMAIN outbound : outbound[i].job \in Waits
  BY <1>1, OutboundFacts DEF Closing, Flown, Waits, Acknowledged, InFlightFiles
<1> QED
  BY <1>1, <1>2, <1>3, <1>4, <1>5 DEF Waits

(* After an error the client disconnects before it sends anything more. *)
LEMMA ErrorCloses ==
    ASSUME TypeInv, UNCHANGED kind, processing' = none, commands' = Added(Command(none, 0), commands)
    PROVE  Closing'
<1>2. PICK d : d = Command(none, 0)
  OBVIOUS
<1>3. commands \in Seq(Entries) /\ d \in Entries /\ d.job = none
  BY <1>2, EntryTyped DEF TypeInv, QueueTypes, Command
<1>4. \/ commands # <<>> /\ Kind(Head(commands).job) = "dis" /\ commands' = commands
      \/ commands' = <<d>> \o commands
  BY <1>2, <1>3 DEF Added, IsFirst, Kind
<1>5. SUFFICES /\ 1 \in DOMAIN commands'
               /\ (IF commands'[1].job = none THEN "dis" ELSE kind[commands'[1].job]) = "dis"
  <2>1. 1 .. 1 - 1 = {}
    OBVIOUS
  <2> QED
    BY <1>5, <2>1 DEF Closing, Kind
<1>6. CASE commands # <<>> /\ Kind(Head(commands).job) = "dis" /\ commands' = commands
  <2>1. Head(commands) = commands[1] /\ Len(commands) \in Nat \ {0}
    BY <1>3, <1>6, SeqFacts
  <2>2. 1 \in DOMAIN commands
    BY <1>3, <2>1, LenProperties
  <2> QED
    BY <1>6, <2>1, <2>2 DEF Kind
<1>7. CASE commands' = <<d>> \o commands
  <2>5. 1 \in DOMAIN commands' /\ commands'[1] = d
    BY <1>3, <1>7, ConsFirst
  <2> QED
    BY <1>3, <2>5
<1> QED
  BY <1>4, <1>6, <1>7

LEMMA FlownRequest ==
    ASSUME TypeInv, JobInv, LinkInv, InFlightFiles, Flown, crossed = {}, ~misplaced, ~misplaced', Closing => Closing',
           Next, ProcessRequest
    PROVE  Flown'
<1>2. PICK j : j = processing
  OBVIOUS
<1>3. RequestFlies
  BY RequestFlight
<1>4. /\ j \in Jobs /\ kind[j] \in {"pub1", "pub2", "sub"} /\ connected
      /\ \A i \in DOMAIN outbound : outbound[i].job \in Waits /\ outbound[i].job # j /\ token[outbound[i].job] # token[j]
  BY <1>2, RequestNew
<1>5. \A i \in DOMAIN outbound : outbound[i].job \in ToSet(responses) => outbound[i].job \in ToSet(responses')
  BY ResponsesKept, OutboundFacts DEF InFlightFiles
<1>6. CASE UNCHANGED outbound
  BY <1>5, <1>6, FlownKept
<1>7. CASE outbound' = Append(outbound, createMessage(j)) /\ kind[j] \in {"pub1", "pub2"}
  <2>1. PICK m : m = createMessage(j)
    OBVIOUS
  <2>2. m \in Messages /\ m.job = j /\ (IF kind[j] = "pub1" THEN m.next = "PUBACK" ELSE m.next \in {"PUBREC", "PUBCOMP"})
    BY <1>4, <1>7, <2>1, CreatedTyped DEF createMessage
  <2>3. \A i \in DOMAIN outbound' : (i \in DOMAIN outbound /\ outbound'[i] = outbound[i])
                                    \/ (i = Len(outbound) + 1 /\ outbound'[i] = m)
    BY <1>7, <2>1, <2>2, OutboundAppend
  <2>4. UNCHANGED <<kind, token>>
    BY DEF ProcessRequest
  <2>5. j \in ToSet(responses') \/ Closing'
    <3>2. /\ processing' = none
          /\ \/ responses' = Append(responses, j)
             \/ commands' = Added(Command(none, 0), commands)
      BY <1>2, <1>4 DEF ProcessRequest, disconnect_internal
    <3>3. CASE responses' = Append(responses, j)
      BY <1>4, <3>3, ResponsesAppend DEF TypeInv, QueueTypes
    <3>4. CASE commands' = Added(Command(none, 0), commands)
      BY <2>4, <3>2, <3>4, ErrorCloses
    <3> QED
      BY <3>2, <3>3, <3>4
  <2>6. \A i \in DOMAIN outbound' : \A k \in DOMAIN outbound' :
            token'[outbound'[i].job] = token'[outbound'[k].job] => i = k
    BY <1>4, <2>2, <2>3, <2>4 DEF Flown
  <2>7. \A i \in DOMAIN outbound' : outbound'[i].job \in ToSet(responses') \/ Closing'
    BY <1>4, <1>5, <2>2, <2>3, <2>5 DEF Waits
  <2>8. \A i \in DOMAIN outbound' : IF kind'[outbound'[i].job] = "pub1" THEN outbound'[i].next = "PUBACK"
                                    ELSE outbound'[i].next \in {"PUBREC", "PUBCOMP"}
    BY <2>2, <2>3, <2>4 DEF Flown
  <2> QED
    BY <2>6, <2>7, <2>8 DEF Flown
<1> QED
  BY <1>2, <1>3, <1>4, <1>6, <1>7 DEF RequestFlies

LEMMA FlownStep ==
    ASSUME TypeInv, StreamInv, JobInv, LinkInv, InFlightFiles, Conversation, Flown, crossed = {}, ~misplaced, ~misplaced',
           Next, connected, connected'
    PROVE  Flown'
<1>1. Closing => Closing'
  BY ClosingStep
<1>2. ASSUME Silent \/ Register \/ ContinueWrite \/ HandlePubrec \/ HoldPacket \/ BrokerReads
      PROVE  \A i \in DOMAIN outbound : outbound[i].job \in ToSet(responses) => outbound[i].job \in ToSet(responses')
  BY <1>2, ResponsesKept, OutboundFacts DEF InFlightFiles
<1>3. CASE Silent \/ Register \/ ContinueWrite \/ HoldPacket \/ BrokerReads
  <2>1. UNCHANGED outbound
    BY <1>3 DEF Silent, Register, ContinueWrite, HoldPacket, BrokerReads, queueVars
  <2> QED
    BY <1>1, <1>2, <1>3, <2>1, FlownKept
<1>4. CASE HandlePubrec
  <2>1. \/ UNCHANGED outbound
        \/ \E i \in DOMAIN outbound : outbound' = [outbound EXCEPT ![i].next = "PUBCOMP"] /\ outbound[i].next = "PUBREC"
    BY <1>4 DEF HandlePubrec, Waiting
  <2>2. /\ DOMAIN outbound' = DOMAIN outbound
        /\ \A i \in DOMAIN outbound : /\ outbound'[i].job = outbound[i].job
                                      /\ \/ outbound'[i].next = outbound[i].next
                                         \/ outbound'[i].next = "PUBCOMP" /\ outbound[i].next = "PUBREC"
    BY <2>1, OutboundFacts DEF Messages
  <2> QED
    BY <1>1, <1>2, <1>4, <2>2, FlownKept
<1>5. CASE HandlePuback
  BY <1>1, <1>5, FlownPuback
<1>6. CASE ProcessRequest
  BY <1>1, <1>6, FlownRequest
<1>7. CASE ReceiveSuback
  <2>1. /\ UNCHANGED outbound /\ held.type \in {"SUBACK", "SUBACK_BAD"}
        /\ \/ UNCHANGED responses
           \/ \E what : Answered(held.id, what)
    BY <1>7 DEF ReceiveSuback
  <2>2. \A i \in DOMAIN outbound : outbound[i].job \in ToSet(responses) => outbound[i].job \in ToSet(responses')
    <3> SUFFICES ASSUME NEW i \in DOMAIN outbound, outbound[i].job \in ToSet(responses), NEW what, Answered(held.id, what)
                 PROVE  outbound[i].job \in ToSet(responses')
      BY <2>1
    <3>1. outbound[i].job \in Waits /\ kind[outbound[i].job] \in {"pub1", "pub2"}
      BY OutboundFacts DEF Waits, Acknowledged, InFlightFiles
    <3>2. Belongs(held)
      BY <2>1, AnswerHeld DEF IsAnswer
    <3>3. token[outbound[i].job] # held.id
      <4>1. token[outbound[i].job] = held.id => Fits(held, outbound[i].job)
        BY <3>1, <3>2, AnswerAccepted DEF JobInv
      <4> QED
        BY <2>1, <3>1, <4>1 DEF Fits
    <3> QED
      BY <3>3, AnsweredBy
  <2> QED
    BY <1>1, <2>1, <2>2, FlownKept
<1> QED
  BY <1>3, <1>4, <1>5, <1>6, <1>7, SessionNext DEF JobInv

(* A session begins with an accepted CONNECT, and ends with the connection. *)
LEMMA SessionBegins ==
    ASSUME TypeInv, Next, ~connected, connected'
    PROVE  /\ \E job : cleanSession(commands, job, "success")
           /\ held' = NoPacket /\ connect_state = 3 /\ link # "closed"
           /\ UNCHANGED <<link, toBroker, toClient, released>>
<1>1. ReceiveConnack
  BY DEF Next, ApplicationStep, SendThread, ReceiveThread, Connect, CheckConnected, ReadMsgId, AssignMsgId,
       AddCommand, ProcessConnect, ProcessDisconnect, checkDisconnect, TakeCommand, ProcessPublish0,
       NotePendingWrite, Register, ProcessRequest, ConnectTimesOut, Select, ContinueWrite, NothingToRead,
       Connecting, ConnectBreaks, ReadFails, AfterFailure, HoldPacket, ConnectFails, closeSession, closeOnly,
       ReceiveSuback, HandlePuback, HandlePubrec, HandlePublish1, HandlePublish2, HandlePubrel, HandlePingresp,
       KeepAlive, Crash, WriteCompleteCrashes, Dies, Restart, BrokerSends, BrokerReads, BrokerDrops,
       NetworkBreaks, connVars
<1>2. ~ConnectFails
  BY DEF ConnectFails, closeSession, closeOnly
<1> QED
  BY <1>1, <1>2 DEF ReceiveConnack, connVars, brokerVars, sockVars

LEMMA SessionEnds ==
    ASSUME TypeInv, LinkInv, Next, connected, ~connected'
    PROVE  /\ link' = "closed" /\ toClient' = <<>>
           /\ held' = NoPacket \/ responses' = <<>>
<1>0. connect_state = 0 /\ link # "closed"
  BY DEF LinkInv
<1>1. Dies \/ ProcessDisconnect \/ ReceiveConnack
  <2>1. ~ConnectTimesOut /\ ~ConnectBreaks
    BY <1>0 DEF ConnectTimesOut, ConnectBreaks
  <2> QED
    BY <1>0, <2>1 DEF Next, ApplicationStep, SendThread, ReceiveThread, Connect, CheckConnected, ReadMsgId,
         AssignMsgId, AddCommand, ProcessConnect, TakeCommand, ProcessPublish0, NotePendingWrite, Register,
         ProcessRequest, Select, ContinueWrite, NothingToRead, Connecting, ReadFails, AfterFailure, HoldPacket,
         ReceiveSuback, HandlePuback, HandlePubrec, HandlePublish1, HandlePublish2, HandlePubrel,
         HandlePingresp, KeepAlive, Crash, WriteCompleteCrashes, Restart, BrokerSends, BrokerReads,
         BrokerDrops, NetworkBreaks, connVars
<1>2. CASE Dies
  BY <1>2 DEF Dies
<1>3. CASE ProcessDisconnect
  <2>1. \E c : checkDisconnect(c)
    BY <1>3 DEF ProcessDisconnect
  <2> QED
    BY <2>1 DEF checkDisconnect, closeSession, closeOnly, cleanSession, Socket_close
<1>4. CASE ReceiveConnack
  <2>1. held' = NoPacket /\ ConnectFails
    BY <1>0, <1>4 DEF ReceiveConnack
  <2> QED
    BY <2>1 DEF ConnectFails, closeSession, closeOnly, Socket_close
<1> QED
  BY <1>1, <1>2, <1>3, <1>4

(* Files and publications in flight. *)
LEMMA FilesFlightStep ==
    ASSUME TypeInv, JobInv, InFlightFiles, Conversation, FlightFits, crossed = {}, ~misplaced, Next, up'
    PROVE  JobsOf(outbound') = {f.about : f \in FilesOf("s")'}
<1> DEFINE Of(files) == {f.about : f \in files}
<1>1. SUFFICES JobsOf(outbound') = Of(FilesOf("s")')
  OBVIOUS
<1>2. up \/ Restart
  <2>1. JobStep
    BY JobNext
  <2> QED
    BY <2>1 DEF JobStep, Relays, Clears, Locked, Replies, Connect, CheckConnected, ReadMsgId, AssignMsgId,
                      AddCommand, Begins, TakeCommand, Takes, ProcessPublish0, Processes, NotePendingWrite,
                      ProcessRequest, Register, ContinueWrite, Dies
<1>3. up => JobsOf(outbound) = Of(FilesOf("s"))
  BY DEF FlightFits
<1> HIDE DEF Of
<1>4. CASE up /\ UNCHANGED outbound /\ FilesOf("s")' = FilesOf("s")
  BY <1>3, <1>4
<1>5. ASSUME NEW q, NEW job, NEW what, cleanSession(q, job, what) PROVE JobsOf(outbound') = Of(FilesOf("s")')
  BY <1>5 DEF cleanSession, FilesOf, JobsOf, Of
<1>6. CASE Restart
  <2>1. /\ UNCHANGED store
        /\ \A i \in DOMAIN outbound' : \E f \in FilesOf("s") : outbound'[i].job = f.about
        /\ \A f \in FilesOf("s") : \E i \in DOMAIN outbound' : outbound'[i].job = f.about
    BY <1>6, RestartFlight
  <2>2. \A f \in FilesOf("s") : f.about # none
    BY OutboundFacts
  <2>3. FilesOf("s")' = FilesOf("s")
    BY <2>1 DEF FilesOf
  <2> QED
    BY <2>1, <2>2, <2>3 DEF JobsOf, Of
<1>7. CASE ProcessRequest
  <2>2. PICK j : j = processing
    OBVIOUS
  <2>3. RequestFlies /\ RequestLeaves
    BY <1>7, RequestFlight, RequestJobs
  <2>4. connected /\ up /\ j \in Jobs /\ j # none
    BY <2>2, <2>3 DEF RequestLeaves, JobInv, PlaceInv
  <2>5. Flown
    BY <2>4 DEF FlightFits
  <2>6. \A i \in DOMAIN outbound : token[outbound[i].job] # token[j]
    BY <1>7, <2>2, <2>5, RequestNew
  <2>7. \A f \in FilesOf("s") : f.id # token[j]
    <3>1. \A f \in FilesOf("s") : \E i \in DOMAIN outbound : outbound[i].job = f.about
      BY <1>3, <2>4 DEF Of, JobsOf
    <3> QED
      BY <2>6, <3>1 DEF InFlightFiles
  <2>8. CASE UNCHANGED outbound /\ FilesOf("s")' = FilesOf("s")
    BY <1>4, <2>4, <2>8
  <2>9. CASE /\ outbound' = Append(outbound, createMessage(j))
             /\ FilesOf("s")' = {f \in FilesOf("s") : f.id # token[j]} \cup {File("s", token[j], j)}
    <3>1. PICK g : g = File("s", token[j], j)
      OBVIOUS
    <3>2. FilesOf("s")' = FilesOf("s") \cup {g} /\ g.about = j
      BY <2>7, <2>9, <3>1 DEF File
    <3>3. PICK m : m = createMessage(j)
      OBVIOUS
    <3>4. m \in Messages /\ m.job = j
      BY <2>4, <3>3, CreatedTyped
    <3>5. /\ DOMAIN outbound' = 1 .. Len(outbound) + 1
          /\ \A i \in DOMAIN outbound : i \in DOMAIN outbound' /\ outbound'[i] = outbound[i]
          /\ \A i \in DOMAIN outbound' : (i \in DOMAIN outbound /\ outbound'[i] = outbound[i])
                                         \/ (i = Len(outbound) + 1 /\ outbound'[i] = m)
          /\ outbound'[Len(outbound) + 1] = m
      BY <2>9, <3>3, <3>4, OutboundAppend
    <3>6. Len(outbound) + 1 \in DOMAIN outbound'
      BY <3>5, OutboundFacts
    <3>7. JobsOf(outbound') = JobsOf(outbound) \cup {j}
      <4>1. JobsOf(outbound') \subseteq JobsOf(outbound) \cup {j}
        BY <3>4, <3>5 DEF JobsOf
      <4>2. JobsOf(outbound) \subseteq JobsOf(outbound')
        BY <3>5 DEF JobsOf
      <4>3. j \in JobsOf(outbound')
        BY <2>4, <3>4, <3>5, <3>6 DEF JobsOf
      <4> QED
        BY <4>1, <4>2, <4>3
    <3>8. Of(FilesOf("s")') = Of(FilesOf("s")) \cup {j}
      BY <3>2 DEF Of
    <3> QED
      BY <1>3, <2>4, <3>7, <3>8
  <2> QED
    BY <2>2, <2>3, <2>8, <2>9 DEF RequestFlies
<1>8. CASE HandlePuback
  <2>1. PICK p \in ToSet(toClient) :
            /\ Reads(p)
            /\ p.type \in {"PUBACK", "PUBCOMP"}
            /\ \/ UNCHANGED <<outbound, store>>
               \/ \E i \in Waiting(p.id, p.type) :
                     /\ outbound' = RemoveAt(outbound, i)
                     /\ store' = Removed({"s", "sc"}, p.id)
    BY <1>8 DEF HandlePuback
  <2>2. connected /\ up
    BY <2>1, AnswerRead, ReadsFirst DEF IsAnswer
  <2>3. Flown
    BY <2>2 DEF FlightFits
  <2>4. ASSUME NEW i \in Waiting(p.id, p.type), outbound' = RemoveAt(outbound, i), store' = Removed({"s", "sc"}, p.id)
        PROVE  JobsOf(outbound') = Of(FilesOf("s")')
    <3>1. i \in DOMAIN outbound /\ token[outbound[i].job] = p.id /\ outbound \in Seq(Messages)
      BY <2>4 DEF Waiting, TypeInv, QueueTypes
    <3>2. FilesOf("s")' = {f \in FilesOf("s") : f.id # p.id}
      BY <2>4 DEF FilesOf, Removed
    <3>3. \A f \in FilesOf("s") : \E k \in DOMAIN outbound : outbound[k].job = f.about
      BY <1>3, <2>2 DEF Of, JobsOf
    <3>4. \A k \in DOMAIN outbound : \E f \in FilesOf("s") : outbound[k].job = f.about
      BY <1>3, <2>2, OutboundFacts DEF Of, JobsOf
    <3>5. \A k \in DOMAIN outbound : token[outbound[k].job] = p.id => k = i
      BY <2>3, <3>1 DEF Flown
    <3>6. \A l \in DOMAIN outbound' : \E k \in DOMAIN outbound : k # i /\ outbound'[l] = outbound[k]
      <4>1. /\ outbound' \in Seq(Messages)
            /\ \A l \in DOMAIN outbound' : outbound'[l] = IF l < i THEN outbound[l] ELSE outbound[l + 1]
            /\ Len(outbound') = Len(outbound) - 1
        BY <2>4, <3>1, RemoveAtFacts
      <4>2. DOMAIN outbound' = 1 .. Len(outbound) - 1 /\ DOMAIN outbound = 1 .. Len(outbound) /\ Len(outbound) \in Nat
        BY <3>1, <4>1, LenProperties
      <4>3. \A l \in 1 .. Len(outbound) - 1 : /\ l \in DOMAIN outbound /\ l + 1 \in DOMAIN outbound
                                              /\ (l < i => l # i) /\ (~(l < i) => l + 1 # i)
        BY <3>1, <4>2
      <4> QED
        BY <4>1, <4>2, <4>3
    <3>7. \A k \in DOMAIN outbound : k # i => \E l \in DOMAIN outbound' : outbound'[l] = outbound[k]
      BY <2>4, <3>1, RemoveAtFacts
    <3>8. JobsOf(outbound') \subseteq Of(FilesOf("s")')
      <4> SUFFICES ASSUME NEW l \in DOMAIN outbound' PROVE \E f \in FilesOf("s")' : f.about = outbound'[l].job
        BY DEF JobsOf, Of
      <4>1. PICK k \in DOMAIN outbound : k # i /\ outbound'[l] = outbound[k]
        BY <3>6
      <4>2. PICK f \in FilesOf("s") : outbound[k].job = f.about
        BY <3>4
      <4>3. f.id # p.id
        BY <3>5, <4>1, <4>2 DEF InFlightFiles
      <4> QED
        BY <3>2, <4>1, <4>2, <4>3
    <3>9. Of(FilesOf("s")') \subseteq JobsOf(outbound')
      <4> SUFFICES ASSUME NEW f \in FilesOf("s"), f.id # p.id PROVE \E l \in DOMAIN outbound' : outbound'[l].job = f.about /\ f.about # none
        BY <3>2 DEF JobsOf, Of
      <4>1. PICK k \in DOMAIN outbound : outbound[k].job = f.about
        BY <3>3
      <4>2. k # i
        BY <3>1, <4>1 DEF InFlightFiles
      <4> QED
        BY <3>7, <4>1, <4>2, OutboundFacts
    <3> QED
      BY <3>8, <3>9
  <2> QED
    BY <1>4, <2>1, <2>2, <2>4 DEF FilesOf
<1>9. CASE HandlePubrec
  <2>1. /\ up
        /\ \/ UNCHANGED <<outbound, store>>
           \/ \E id : \E i \in DOMAIN outbound : /\ outbound' = [outbound EXCEPT ![i].next = "PUBCOMP"]
                                                 /\ store' = store \cup {File("sc", id, none)}
    BY <1>9 DEF HandlePubrec, Waiting, Reads, Cycles, Locked
  <2>2. DOMAIN outbound' = DOMAIN outbound /\ \A l \in DOMAIN outbound : outbound'[l].job = outbound[l].job
    BY <2>1, OutboundFacts DEF Messages
  <2>3. FilesOf("s")' = FilesOf("s")
    BY <2>1 DEF FilesOf, File
  <2>4. JobsOf(outbound') = JobsOf(outbound)
    BY <2>2 DEF JobsOf
  <2> QED
    BY <1>3, <2>1, <2>3, <2>4
<1>10. CASE HandlePublish2 \/ HandlePubrel
  <2>1. UNCHANGED outbound /\ up
    BY <1>10 DEF HandlePublish2, HandlePubrel, Reads, Cycles, Locked
  <2>2. \/ UNCHANGED store
        \/ \E id, about : store' = Put(store, File("r", id, about))
        \/ \E id : store' = Removed({"r"}, id)
    BY <1>10 DEF HandlePublish2, HandlePubrel
  <2>3. FilesOf("s")' = FilesOf("s")
    BY <2>2 DEF FilesOf, Put, Removed, File
  <2> QED
    BY <1>4, <2>1, <2>3
<1>11. ~Dies
  BY DEF Dies
<1> QED
  BY <1>2, <1>4, <1>5, <1>6, <1>7, <1>8, <1>9, <1>10, <1>11, FlightNext

LEMMA FlightStep ==
    ASSUME TypeInv, StreamInv, JobInv, LinkInv, InFlightFiles, Conversation, FlightFits, crossed = {}, ~misplaced,
           ~misplaced', Next
    PROVE  FlightFits'
<1>1. up' => JobsOf(outbound') = {f.about : f \in FilesOf("s")'}
  BY FilesFlightStep
<1>2. ASSUME connected' PROVE Flown'
  <2>1. CASE connected
    BY <1>2, <2>1, FlownStep DEF FlightFits
  <2>2. CASE ~connected
    <3>1. outbound' = <<>>
      BY <1>2, <2>2, SessionBegins DEF cleanSession
    <3> QED
      BY <3>1 DEF Flown
  <2> QED
    BY <2>1, <2>2
<1> QED
  BY <1>1, <1>2 DEF FlightFits

-----------------------------------------------------------------------------
(* What the broker keeps of QoS 2.                                         *)

(* CONNECT stays in what was written until it is read. *)
LEMMA ConnectsStay ==
    ASSUME NEW b \in Seq(Pieces), NEW e
    PROVE  /\ ConnectsIn(b) \subseteq ConnectsIn(Append(b, e))
           /\ e.part # "rest" /\ e.packet.type = "CONNECT" => ConnectsIn(Append(b, e)) # {}
<1>1. b \in Seq(Pieces \cup {e})
  <2>1. Len(b) \in Nat /\ \A i \in 1 .. Len(b) : b[i] \in Pieces \cup {e}
    BY LenProperties, ElementOfSeq
  <2>2. b = [i \in 1 .. Len(b) |-> b[i]]
    BY LenProperties
  <2> QED
    BY <2>1, <2>2, IsASeq
<1>2. PICK b1 : b1 = Append(b, e)
  OBVIOUS
<1>3. PICK n : n = Len(b)
  OBVIOUS
<1>4. /\ b1 \in Seq(Pieces \cup {e})
      /\ Len(b1) = n + 1
      /\ \A i \in 1 .. n : b1[i] = b[i]
      /\ b1[n + 1] = e
  BY <1>1, <1>2, <1>3, AppendFacts
<1>5. n \in Nat /\ DOMAIN b1 = 1 .. n + 1 /\ DOMAIN b = 1 .. n
  BY <1>3, <1>4, LenProperties
<1>6. n + 1 \in DOMAIN b1 /\ \A i \in DOMAIN b : i \in DOMAIN b1
  BY <1>5
<1>7. /\ ConnectsIn(b) \subseteq ConnectsIn(b1)
      /\ e.part # "rest" /\ e.packet.type = "CONNECT" => ConnectsIn(b1) # {}
  BY <1>4, <1>5, <1>6 DEF ConnectsIn
<1> QED
  BY <1>2, <1>7, Zenon

(* What the broker keeps it got on this connection, once CONNECT is read. *)
LEMMA ConnectedBefore ==
    ASSUME TypeInv, LinkInv, Next, link' = "open", ConnectsIn(toBroker') = {}
    PROVE  link = "open" /\ (released' = {} \/ ConnectsIn(toBroker) = {})
<1>0. toBroker \in Seq(Pieces)
  BY DEF TypeInv, WireTypes
<1>1. ~Connecting
  <2>1. ASSUME NEW part \in {"whole", "front"}, toBroker' = Append(toBroker, Piece(part, Packet("CONNECT", 0, none)))
        PROVE  FALSE
    <3>1. PICK e : e = Piece(part, Packet("CONNECT", 0, none))
      OBVIOUS
    <3>2. e.part # "rest" /\ e.packet.type = "CONNECT"
      BY <3>1 DEF Piece, Packet
    <3> QED
      BY <1>0, <2>1, <3>1, <3>2, ConnectsStay
  <2> QED
    BY <2>1 DEF Connecting
<1>2. CASE BrokerReads
  <2>1. /\ Readable /\ toBroker' = AfterReadable /\ UNCHANGED link
        /\ Head(toBroker).packet.type = "CONNECT" => released' = {}
    BY <1>2 DEF BrokerReads
  <2> QED
    BY <2>1, ConnectsRead DEF TypeInv, LinkInv
<1>3. \/ BrokerReads
      \/ /\ UNCHANGED link
         /\ UNCHANGED toBroker \/ \E e : toBroker' = Append(toBroker, e)
  <2>1. ~closeOnly /\ ~Socket_new /\ ~Dies /\ ~BrokerDrops /\ ~NetworkBreaks
    BY DEF closeOnly, Socket_close, Socket_new, Dies, BrokerDrops, NetworkBreaks, Breaks
  <2>2. ~ConnectFails
    BY <2>1 DEF ConnectFails, closeSession
  <2>3. \A p, rc : Socket_putdatas(p, rc) => UNCHANGED toBroker \/ \E e : toBroker' = Append(toBroker, e)
    BY DEF Socket_putdatas
  <2>4. Socket_continueWrites => UNCHANGED toBroker \/ \E e : toBroker' = Append(toBroker, e)
    BY DEF Socket_continueWrites
  <2> QED
    BY <1>1, <2>1, <2>2, <2>3, <2>4
    DEF Next, ApplicationStep, SendThread, ReceiveThread, Connect, CheckConnected, ReadMsgId, AssignMsgId, AddCommand,
         ProcessConnect, ProcessDisconnect, checkDisconnect, closeSession, TakeCommand, ProcessPublish0, NotePendingWrite, Register, ProcessRequest,
         ConnectTimesOut, Select,
         ContinueWrite, NothingToRead, ConnectBreaks, ReadFails, AfterFailure, HoldPacket, ReceiveConnack,
         ReceiveSuback, HandlePuback, HandlePubrec, HandlePublish1, HandlePublish2, HandlePubrel,
         HandlePingresp, KeepAlive, Crash, WriteCompleteCrashes, Restart, BrokerSends, sockVars
<1>4. CASE UNCHANGED link /\ (UNCHANGED toBroker \/ \E e : toBroker' = Append(toBroker, e))
  BY <1>0, <1>4, ConnectsStay
<1> QED
  BY <1>2, <1>3, <1>4

(* A publication that the broker keeps is not answered yet. *)
LEMMA ReleasedWaits ==
    ASSUME TypeInv, StreamInv, JobInv, LinkInv, Conversation, crossed = {}, ~misplaced', Next, connected, connected',
           NEW r \in released, r.job \in Waits, kind[r.job] = "pub2", token[r.job] = r.id
    PROVE  r.job \in Waits' /\ kind'[r.job] = "pub2" /\ token'[r.job] = r.id
<1>0. PICK j : j = r.job
  OBVIOUS
<1>1. PlaceInv /\ IdsInv /\ j \in ToSet(responses)
  BY <1>0 DEF JobInv, Waits
<1>2. SUFFICES j \in ToSet(responses')
  BY <1>0, WaitsFacts
<1>3. CASE HandlePuback
  <2>1. PICK p \in ToSet(toClient) : Reads(p) /\ p.type \in {"PUBACK", "PUBCOMP"} /\ Answered(p.id, "success")
    BY <1>3 DEF HandlePuback
  <2>2. Belongs(p)
    BY <2>1, AnswerRead DEF IsAnswer
  <2>3. ASSUME token[j] = p.id PROVE FALSE
    <3>1. Fits(p, j)
      BY <1>0, <1>1, <2>2, <2>3, AnswerAccepted
    <3> QED
      BY <1>0, <2>1, <2>3, <3>1 DEF Fits
  <2> QED
    BY <1>1, <2>1, <2>3, AnsweredBy
<1>4. CASE ReceiveSuback
  <2>1. /\ held.type \in {"SUBACK", "SUBACK_BAD"}
        /\ \/ UNCHANGED responses
           \/ \E what : Answered(held.id, what)
    BY <1>4 DEF ReceiveSuback
  <2>2. Belongs(held)
    BY <2>1, AnswerHeld DEF IsAnswer
  <2>3. ASSUME token[j] = held.id PROVE FALSE
    <3>1. Fits(held, j)
      BY <1>0, <1>1, <2>2, <2>3, AnswerAccepted
    <3> QED
      BY <1>0, <2>1, <2>3, <3>1 DEF Fits
  <2> QED
    BY <1>1, <2>1, <2>3, AnsweredBy
<1>5. CASE Silent \/ Register \/ ContinueWrite \/ ProcessRequest \/ HandlePubrec \/ HoldPacket \/ BrokerReads
  BY <1>0, <1>1, <1>5, ResponsesKept
<1> QED
  BY <1>1, <1>3, <1>4, <1>5, SessionNext

LEMMA ReleasedStep ==
    ASSUME TypeInv, StreamInv, JobInv, LinkInv, IdGiven, Conversation, ReleasedFits, crossed = {}, ~misplaced', Next
    PROVE  ReleasedFits'
<1> SUFFICES ASSUME link' = "open", ConnectsIn(toBroker') = {}, NEW r \in released'
             PROVE  connected' /\ r.job \in Waits' /\ kind'[r.job] = "pub2" /\ token'[r.job] = r.id
  BY DEF ReleasedFits
<1>1. link = "open" /\ ConnectsIn(toBroker) = {}
  BY ConnectedBefore
<1>2. \A s \in released : connected /\ s.job \in Waits /\ kind[s.job] = "pub2" /\ token[s.job] = s.id
  BY <1>1 DEF ReleasedFits
<1>3. connected => connected'
  BY SessionEnds
<1>4. CASE r \in released
  BY <1>2, <1>3, <1>4, ReleasedWaits
<1>5. CASE r \notin released
  <2>1. BrokerReads
    BY <1>5 DEF Next, ApplicationStep, SendThread, ReceiveThread, Connect, CheckConnected, ReadMsgId,
         AssignMsgId, AddCommand, ProcessConnect, ProcessDisconnect, TakeCommand, ProcessPublish0,
         NotePendingWrite, Register, ProcessRequest, ConnectTimesOut, Select, ContinueWrite, NothingToRead,
         Connecting, ConnectBreaks, ReadFails, AfterFailure, HoldPacket, ReceiveConnack, ReceiveSuback,
         HandlePuback, HandlePubrec, HandlePublish1, HandlePublish2, HandlePubrel, HandlePingresp, KeepAlive,
         Crash, WriteCompleteCrashes, Dies, Restart, BrokerSends, BrokerDrops, NetworkBreaks, brokerVars
  <2>2. PICK p : p = Head(toBroker).packet
    OBVIOUS
  <2>3. /\ Readable /\ p.type = "PUBLISH" /\ kind[p.about] = "pub2" /\ r = [id |-> p.id, job |-> p.about]
        /\ UNCHANGED <<responses, kind, token>>
    BY <1>5, <2>1, <2>2 DEF BrokerReads, appVars, queueVars
  <2>4. 1 \in DOMAIN toBroker /\ toBroker[1].part # "rest" /\ p = toBroker[1].packet
    BY <2>2, <2>3, ShiftedRead DEF TypeInv
  <2>5. p.id # 0
    <3>1. p \in Offered
      BY <2>4 DEF Offered
    <3> QED
      BY <2>3, <3>1 DEF IdGiven
  <2>6. 1 \in AsksIn(Out) /\ Out[1].packet = p
    BY <1>1, <2>3, <2>4, <2>5 DEF AsksIn, IsAsk, Out
  <2>7. p \in Underway(Out, toClient, held) /\ p \in Underway(Out, toClient, NoPacket)
    BY <2>6 DEF Underway
  <2>8. connected /\ Belongs(p)
    BY <2>7 DEF Conversation
  <2>9. p.about \in Waits /\ token[p.about] = p.id
    BY <2>3, <2>8 DEF Belongs, Fits
  <2>10. p.about \in Waits'
    BY <2>3, <2>9 DEF Waits, Acknowledged
  <2> QED
    BY <1>3, <2>3, <2>8, <2>9, <2>10
<1> QED
  BY <1>4, <1>5

-----------------------------------------------------------------------------
(* The conversation.                                                       *)

(* Nothing is under way after a session, *)
LEMMA ConversationEnds ==
    ASSUME TypeInv, LinkInv, Next, connected, ~connected'
    PROVE  Conversation'
<1>1. link' = "closed" /\ toClient' = <<>> /\ (held' = NoPacket \/ responses' = <<>>)
  BY SessionEnds
<1>2. Out' = <<>>
  BY <1>1 DEF Out
<1>3. Underway(<<>>, <<>>, NoPacket) = {} /\ ~IsAnswer(NoPacket)
  BY DEF Underway, AsksIn, AnswersIn, IsAnswer, NoPacket, Packet
<1>4. Underway(Out', toClient', NoPacket) = {}
  BY <1>1, <1>2, <1>3
<1>5. IsAnswer(held') => responses' = <<>>
  BY <1>1, <1>3
<1> QED
  BY <1>4, <1>5 DEF Conversation

(* nor before one, *)
LEMMA NothingUnderway ==
    ASSUME NEW b, NEW c
    PROVE  Underway(b, c, NoPacket) = {} <=> AsksIn(b) = {} /\ AnswersIn(c) = {}
<1>1. ~IsAnswer(NoPacket)
  BY DEF IsAnswer, NoPacket, Packet
<1> QED
  BY <1>1 DEF Underway

(* The broker answers nothing when it reads something else, or when the      *)
(* connection is gone.                                                       *)
LEMMA NoAnswer ==
    ASSUME TypeInv, IdGiven, BrokerReads, NEW p, p = Head(toBroker).packet, link = "open" => ~IsAsk(p)
    PROVE  /\ \E d \in {0, 1} : KeepsAnswers(toClient, toClient', d)
           /\ ~IsAsk(p) => released' \subseteq released
<1>1. 1 \in DOMAIN toBroker /\ toBroker[1].part # "rest" /\ p = toBroker[1].packet /\ p \in Packets
  BY ShiftedRead DEF TypeInv, Pieces, BrokerReads
<1>2. p.type = "PUBLISH" /\ p.id = 0 => kind[p.about] = "pub0"
  BY <1>1 DEF Offered, IdGiven
<1>3. \/ UNCHANGED toClient
      \/ \E type \in {"CONNACK", "REFUSED", "PINGRESP"} : toClient' = Append(toClient, Packet(type, 0, none))
      \/ toClient' = Append(toClient, Packet("PUBREL", p.id, p.about))
  BY <1>2 DEF BrokerReads, Reply, NoReply, IsAsk
<1>4. /\ \A type \in {"CONNACK", "REFUSED", "PINGRESP"} :
            Packet(type, 0, none) \in Packets /\ ~IsAnswer(Packet(type, 0, none))
      /\ Packet("PUBREL", p.id, p.about) \in Packets /\ ~IsAnswer(Packet("PUBREL", p.id, p.about))
  <2>1. {"CONNACK", "REFUSED", "PINGRESP", "PUBREL"} \subseteq PacketTypes /\ none \in Nat /\ 0 \in Nat
    BY DEF PacketTypes, none
  <2> QED
    BY <1>1, <2>1, PacketTyped DEF IsAnswer, Packet, Packets
<1>5. \E d \in {0, 1} : KeepsAnswers(toClient, toClient', d)
  BY <1>3, <1>4, NothingAnswered
<1>6. ~IsAsk(p) => released' \subseteq released
  BY <1>2 DEF BrokerReads, IsAsk
<1> QED
  BY <1>5, <1>6

LEMMA ConversationRests ==
    ASSUME TypeInv, StreamInv, PlaceInv, LinkInv, IdGiven, Conversation, Next, ~connected, ~connected'
    PROVE  Conversation'
<1>1. AsksIn(Out) = {} /\ AnswersIn(toClient) = {} /\ (IsAnswer(held) => responses = <<>>)
  BY NothingUnderway DEF Conversation
<1>2. ASSUME NEW e \in {0, 1, 2}, KeepsAsks(Out, Out', e), \E d \in {0, 1} : KeepsAnswers(toClient, toClient', d),
             held' = held \/ ~IsAnswer(held'), IsAnswer(held') /\ responses = <<>> => responses' = <<>>
      PROVE  Conversation'
  <2>1. AsksIn(Out') = {} /\ AnswersIn(toClient') = {}
    BY <1>1, <1>2 DEF KeepsAsks, KeepsAnswers
  <2>2. Underway(Out', toClient', NoPacket) = {}
    BY <2>1, NothingUnderway
  <2>3. IsAnswer(held') => responses' = <<>>
    BY <1>1, <1>2
  <2> QED
    BY <2>2, <2>3 DEF Conversation
<1>3. ~IsAnswer(NoPacket)
  BY DEF IsAnswer, NoPacket, Packet
<1>4. ASSUME link' # "open" \/ UNCHANGED <<link, toBroker>>, UNCHANGED toClient \/ toClient' = <<>>,
             held' \in {held, NoPacket}, held' = NoPacket \/ UNCHANGED responses \/ responses' = <<>>
      PROVE  Conversation'
  <2>1. KeepsAsks(Out, Out', 0) /\ \E d \in {0, 1} : KeepsAnswers(toClient, toClient', d)
    BY <1>4, NothingAsked, NothingAnswered
  <2>2. held' = held \/ ~IsAnswer(held')
    BY <1>3, <1>4
  <2>3. CASE held' = NoPacket
    BY <1>2, <1>3, <2>1, <2>3
  <2>4. CASE UNCHANGED responses \/ responses' = <<>>
    BY <1>2, <2>1, <2>2, <2>4
  <2> QED
    BY <1>4, <2>3, <2>4
<1>5. ASSUME closeOnly, UNCHANGED responses \/ responses' = <<>>, held' \in {held, NoPacket} PROVE Conversation'
  <2>1. link' # "open" /\ toClient' = <<>>
    BY <1>5 DEF closeOnly, Socket_close
  <2> QED
    BY <1>4, <1>5, <2>1
<1>6. ASSUME ConnectFails, held' \in {held, NoPacket} PROVE Conversation'
  BY <1>5, <1>6 DEF ConnectFails, closeSession, cleanSession
<1>7. CASE ApplicationStep \/ Select \/ NothingToRead \/ ReadFails \/ ReceiveSuback \/ Restart
  <2>1. /\ UNCHANGED <<link, toBroker, toClient>> /\ held' \in {held, NoPacket}
        /\ held' = NoPacket \/ UNCHANGED responses
    BY <1>7 DEF ApplicationStep, Connect, CheckConnected, ReadMsgId, AssignMsgId, AddCommand, Select,
         NothingToRead, ReadFails, ReceiveSuback, Restart, queueVars, sockVars, threadVars
  <2> QED
    BY <1>4, <2>1
<1>8. CASE ProcessConnect \/ BrokerDrops \/ NetworkBreaks \/ Dies
  <2>1. /\ link' # "open" \/ UNCHANGED <<link, toBroker>>
        /\ UNCHANGED toClient \/ toClient' = <<>>
        /\ held' \in {held, NoPacket} /\ (UNCHANGED responses \/ responses' = <<>>)
    BY <1>8 DEF ProcessConnect, Socket_new, BrokerDrops, NetworkBreaks, Breaks, Dies, queueVars, sockVars, threadVars
  <2> QED
    BY <1>4, <2>1
<1>9. CASE ProcessDisconnect \/ AfterFailure
  <2>1. /\ held' = held /\ (UNCHANGED responses \/ responses' = <<>>)
        /\ closeOnly \/ UNCHANGED <<link, toBroker, toClient>>
    BY <1>9 DEF ProcessDisconnect, checkDisconnect, closeSession, cleanSession, AfterFailure, sockVars, threadVars
  <2> QED
    BY <1>4, <1>5, <2>1
<1>10. CASE ConnectTimesOut \/ ConnectBreaks
  BY <1>6, <1>10 DEF ConnectTimesOut, ConnectBreaks, threadVars
<1>11. CASE ReceiveConnack
  <2>1. /\ held' = NoPacket
        /\ ConnectFails \/ UNCHANGED <<link, toBroker, toClient, responses>>
    BY <1>11 DEF ReceiveConnack, queueVars, sockVars
  <2> QED
    BY <1>4, <1>6, <2>1
<1>12. ~(TakeCommand \/ ProcessPublish0 \/ NotePendingWrite \/ Register \/ ProcessRequest \/ KeepAlive)
  <2>1. stage = "idle"
    BY ProcessingTyped DEF PlaceInv
  <2> QED
    BY <2>1 DEF TakeCommand, Takes, ProcessPublish0, NotePendingWrite, Register, ProcessRequest, Processes, KeepAlive
<1>13. ~(HandlePuback \/ HandlePubrec)
  <2>1. \A p : Reads(p) => ~IsAnswer(p)
    BY <1>1, ReadsFirst
  <2> QED
    BY <2>1 DEF HandlePuback, HandlePubrec, IsAnswer
<1>14. CASE HandlePublish1 \/ HandlePublish2 \/ HandlePubrel \/ HandlePingresp \/ BrokerSends
  BY <1>2, <1>14, ReceivedSilent DEF Silent
<1>15. CASE Connecting
  <2>1. PICK part \in {"whole", "front"} : toBroker' = Append(toBroker, Piece(part, Packet("CONNECT", 0, none)))
    BY <1>15 DEF Connecting
  <2>2. PICK p : p = Packet("CONNECT", 0, none)
    OBVIOUS
  <2>3. p \in Packets /\ ~IsAsk(p) /\ toBroker \in Seq(Pieces) /\ part \in {"whole", "front", "rest"}
    BY <2>2, ClientPackets DEF IsAsk, Packet, TypeInv, WireTypes
  <2>4. KeepsAsks(toBroker, Append(toBroker, Piece(part, p)), 0)
    BY <2>3, KeepsAppend, Zenon
  <2>5. Out = toBroker /\ Out' = Append(toBroker, Piece(part, p)) /\ UNCHANGED <<toClient, held, responses>>
    BY <1>15, <2>1, <2>2 DEF Connecting, LinkInv, Out, queueVars
  <2>6. KeepsAsks(Out, Out', 0)
    BY <2>4, <2>5, Zenon
  <2> QED
    BY <1>2, <2>5, <2>6, NothingAnswered
<1>16. CASE ContinueWrite
  <2>1. /\ UNCHANGED <<link, toClient, held>> /\ Socket_continueWrites
        /\ responses = <<>> => responses' = <<>>
    BY <1>16 DEF ContinueWrite
  <2>2. KeepsAsks(Out, Out', 0) /\ \E d \in {0, 1} : KeepsAnswers(toClient, toClient', d)
    BY <2>1, NothingAsked, NothingAnswered
  <2> QED
    BY <1>2, <2>1, <2>2
<1>17. CASE HoldPacket
  <2>1. PICK p \in ToSet(toClient) : Reads(p) /\ held' = p /\ UNCHANGED <<link, toBroker, responses>>
    BY <1>17 DEF HoldPacket, queueVars
  <2>2. ~IsAnswer(p)
    BY <1>1, <2>1, ReadsFirst
  <2>3. KeepsAsks(Out, Out', 0) /\ \E d \in {0, 1} : KeepsAnswers(toClient, toClient', d)
    BY <2>1, NothingAsked, NothingAnswered
  <2> QED
    BY <1>2, <2>1, <2>2, <2>3
<1>18. CASE BrokerReads
  <2>1. PICK p : p = Head(toBroker).packet
    OBVIOUS
  <2>2. Readable /\ toBroker' = AfterReadable /\ UNCHANGED <<link, responses, held>>
    BY <1>18 DEF BrokerReads, queueVars, threadVars
  <2>3. 1 \in DOMAIN toBroker /\ toBroker[1].part # "rest" /\ p = toBroker[1].packet /\ p \in Packets
    BY <2>1, <2>2, ShiftedRead DEF TypeInv, Pieces
  <2>4. \E e \in {0, 1, 2} : KeepsAsks(Out, Out', e)
    <3>1. CASE link = "open"
      <4>1. PICK e \in {1, 2} : Shifted(toBroker, AfterReadable, e)
        BY <2>2, ShiftedRead DEF TypeInv
      <4>2. KeepsAsks(toBroker, AfterReadable, e)
        BY <4>1, ShiftedKeeps
      <4>3. Out = toBroker /\ Out' = AfterReadable
        BY <2>2, <3>1 DEF Out
      <4> QED
        BY <4>2, <4>3
    <3>2. CASE link # "open"
      BY <2>2, <3>2, NothingAsked
    <3> QED
      BY <3>1, <3>2
  <2>5. link = "open" => ~IsAsk(p)
    BY <1>1, <2>3 DEF AsksIn, Out
  <2>9. \E d \in {0, 1} : KeepsAnswers(toClient, toClient', d)
    BY <1>18, <2>1, <2>5, NoAnswer
  <2> QED
    BY <1>2, <2>2, <2>4, <2>9
<1> QED
  BY <1>7, <1>8, <1>9, <1>10, <1>11, <1>12, <1>13, <1>14, <1>15, <1>16, <1>17, <1>18
  DEF Next, SendThread, ReceiveThread, Crash, WriteCompleteCrashes

(* and when it begins. *)
LEMMA ConversationBegins ==
    ASSUME TypeInv, Conversation, Next, ~connected, connected'
    PROVE  Conversation'
<1>1. UNCHANGED <<link, toBroker, toClient>> /\ held' = NoPacket
  BY SessionBegins
<1>2. Out' = Out
  BY <1>1 DEF Out
<1>3. Underway(Out, toClient, NoPacket) = {}
  BY DEF Conversation
<1>4. AsksIn(Out) = {} /\ AnswersIn(toClient) = {} /\ ~IsAnswer(NoPacket)
  BY <1>3, NothingUnderway DEF IsAnswer, NoPacket, Packet
<1>5. Alone(Out, toClient, NoPacket)
  BY <1>4 DEF Alone
<1>6. Underway(Out', toClient', held') = {} /\ Alone(Out', toClient', held')
  BY <1>1, <1>2, <1>3, <1>5
<1> QED
  BY <1>6 DEF Conversation

(* In a session. *)
LEMMA ConversationHolds ==
    ASSUME connected', Alone(Out', toClient', held'), \A p \in Underway(Out', toClient', held') : Belongs(p)'
    PROVE  Conversation'
BY DEF Conversation

LEMMA OutTypedNext ==
    ASSUME TypeInv, StreamInv, Next
    PROVE  Out' \in Seq(Pieces) /\ toClient' \in Seq(Packets)
<1>1. TypeInv'
  BY WireNext DEF WireInv
<1>2. toBroker' \in Seq(Pieces) /\ toClient' \in Seq(Packets) /\ <<>> \in Seq(Pieces)
  BY <1>1 DEF TypeInv, WireTypes, BrokerTypes
<1> QED
  BY <1>2 DEF Out

\* The publications in flight of a request that waits are the same, or wait
\* for PUBCOMP now.
FlightGoesOn ==
    \A i \in DOMAIN outbound' :
        \/ outbound'[i].next = "PUBCOMP"
        \/ outbound'[i].job \notin Waits
        \/ \E k \in DOMAIN outbound : outbound[k].job = outbound'[i].job /\ outbound[k].next = outbound'[i].next

LEMMA FlightContinues ==
    ASSUME TypeInv, StreamInv, JobInv, LinkInv, InFlightFiles, Flown, crossed = {}, ~misplaced, Next, connected, connected'
    PROVE  FlightGoesOn
<1>1. PlaceInv /\ outbound \in Seq(Messages)
  BY DEF JobInv, TypeInv, QueueTypes
<1>2. CASE UNCHANGED outbound
  BY <1>2 DEF FlightGoesOn
<1>3. CASE ProcessRequest
  <2>2. PICK j : j = processing
    OBVIOUS
  <2>3. RequestFlies
    BY <1>3, RequestFlight
  <2>4. j \in Jobs /\ j \notin Waits
    BY <1>3, <2>2, RequestNew DEF Waits
  <2>5. CASE outbound' = Append(outbound, createMessage(j))
    <3>1. PICK m : m = createMessage(j)
      OBVIOUS
    <3>2. m \in Messages /\ m.job = j
      BY <2>4, <3>1, CreatedTyped
    <3>3. \A i \in DOMAIN outbound' : (i \in DOMAIN outbound /\ outbound'[i] = outbound[i])
                                      \/ (i = Len(outbound) + 1 /\ outbound'[i] = m)
      BY <2>5, <3>1, <3>2, OutboundAppend
    <3> QED
      BY <2>4, <3>2, <3>3 DEF FlightGoesOn
  <2> QED
    BY <1>2, <2>2, <2>3, <2>5 DEF RequestFlies
<1>4. CASE HandlePuback
  <2>1. UNCHANGED outbound \/ \E i \in DOMAIN outbound : outbound' = RemoveAt(outbound, i)
    BY <1>4 DEF HandlePuback, Waiting
  <2>2. ASSUME NEW i \in DOMAIN outbound, outbound' = RemoveAt(outbound, i) PROVE FlightGoesOn
    <3>1. \A l \in DOMAIN outbound' : outbound'[l] = IF l < i THEN outbound[l] ELSE outbound[l + 1]
      BY <1>1, <2>2, RemoveAtFacts
    <3>2. \A l \in DOMAIN outbound' : l \in DOMAIN outbound /\ l + 1 \in DOMAIN outbound
      <4>1. outbound' \in Seq(Messages) /\ Len(outbound') = Len(outbound) - 1
        BY <1>1, <2>2, RemoveAtFacts
      <4>2. DOMAIN outbound' = 1 .. Len(outbound) - 1 /\ DOMAIN outbound = 1 .. Len(outbound) /\ Len(outbound) \in Nat
        BY <1>1, <4>1, LenProperties
      <4> QED
        BY <4>2
    <3> QED
      BY <3>1, <3>2 DEF FlightGoesOn
  <2> QED
    BY <1>2, <2>1, <2>2
<1>5. CASE HandlePubrec
  <2>1. UNCHANGED outbound \/ \E i \in DOMAIN outbound : outbound' = [outbound EXCEPT ![i].next = "PUBCOMP"]
    BY <1>5 DEF HandlePubrec, Waiting
  <2>2. \A i \in DOMAIN outbound' : outbound'[i].next = "PUBCOMP" \/ (i \in DOMAIN outbound /\ outbound'[i] = outbound[i])
    BY <1>1, <2>1, OutboundFacts DEF Messages
  <2> QED
    BY <2>2 DEF FlightGoesOn
<1> QED
  BY <1>1, <1>2, <1>3, <1>4, <1>5, SessionNext DEF Silent, Register, ContinueWrite, ReceiveSuback, HoldPacket,
       BrokerReads, queueVars

LEMMA BelongsKept ==
    ASSUME TypeInv, JobInv, BrokerInv, Next, NEW p, Belongs(p), FlightGoesOn,
           \A j \in Waits : token[j] = p.id => j \in ToSet(responses'),
           p.type = "PUBCOMP" => \A r \in released' : r \in released \/ r.id # p.id
    PROVE  Belongs(p)'
<1>1. PICK j \in Waits : token[j] = p.id /\ Fits(p, j)
  BY DEF Belongs
<1>2. /\ j \in Jobs /\ kind'[j] = kind[j] /\ token'[j] = token[j] /\ j \in Waits'
  BY <1>1, WaitsFacts
<1>3. accepted[j] > 0 => accepted'[j] > 0
  BY <1>2, BrokerStep
<1>4. p.type \in {"PUBREL", "PUBCOMP"} =>
          \A i \in DOMAIN outbound' : outbound'[i].job = j => outbound'[i].next = "PUBCOMP"
  BY <1>1 DEF FlightGoesOn, Fits
<1>5. p.type = "PUBCOMP" => \A r \in released' : r.id # p.id
  BY <1>1 DEF Fits
<1>6. Fits(p, j)'
  BY <1>1, <1>2, <1>3, <1>4, <1>5 DEF Fits
<1> QED
  BY <1>1, <1>2, <1>6 DEF Belongs

(* No ask and no answer is new. *)
LEMMA ConversationKept ==
    ASSUME TypeInv, StreamInv, JobInv, LinkInv, BrokerInv, InFlightFiles, Conversation, Flown, crossed = {}, ~misplaced,
           ~misplaced', Next, connected, connected',
           Silent \/ Register \/ ContinueWrite
    PROVE  Conversation'
<1>1. /\ Out \in Seq(Pieces) /\ toClient \in Seq(Packets)
      /\ \A p \in Underway(Out, toClient, held) : Belongs(p)
      /\ Alone(Out, toClient, held)
  BY OutTyped DEF Conversation
<1>2. /\ UNCHANGED <<held, released>> /\ KeepsAsks(Out, Out', 0)
      /\ \E d \in {0, 1} : KeepsAnswers(toClient, toClient', d)
  <2>1. CASE Silent
    BY <2>1 DEF Silent
  <2>2. CASE Register \/ ContinueWrite
    <3>1. /\ UNCHANGED <<held, released, toClient, link>>
          /\ UNCHANGED toBroker \/ Socket_continueWrites
      BY <2>2 DEF Register, ContinueWrite, brokerVars, sockVars
    <3> QED
      BY <3>1, NothingAsked, NothingAnswered
  <2> QED
    BY <2>1, <2>2
<1>3. Out' \in Seq(Pieces) /\ toClient' \in Seq(Packets)
  BY OutTypedNext
<1>4. Underway(Out', toClient', held) \subseteq Underway(Out, toClient, held) /\ Alone(Out', toClient', held)
  BY <1>1, <1>2, <1>3, AloneKept
<1>5. ASSUME NEW p \in Underway(Out', toClient', held') PROVE Belongs(p)'
  <2>1. Belongs(p)
    BY <1>1, <1>2, <1>4, <1>5
  <2>2. \A j \in Waits : j \in ToSet(responses')
    BY ResponsesKept, WaitsFacts
  <2>3. FlightGoesOn
    BY FlightContinues
  <2> QED
    BY <1>2, <2>1, <2>2, <2>3, BelongsKept
<1> QED
  BY <1>2, <1>4, <1>5, ConversationHolds

(* What is left of the conversation goes on when its requests still wait. *)
LEMMA ConversationGoesOn ==
    ASSUME TypeInv, StreamInv, JobInv, LinkInv, BrokerInv, InFlightFiles, Conversation, Flown, crossed = {}, ~misplaced,
           Next, connected, connected',
           Alone(Out', toClient', held'),
           \A p \in Underway(Out', toClient', held') :
               \/ Belongs(p)'
               \/ /\ p \in Underway(Out, toClient, held)
                  /\ \A j \in Waits : token[j] = p.id => j \in ToSet(responses')
                  /\ p.type = "PUBCOMP" => \A r \in released' : r \in released \/ r.id # p.id
    PROVE  Conversation'
<1>1. ASSUME NEW p \in Underway(Out', toClient', held') PROVE Belongs(p)'
  <2>1. CASE /\ p \in Underway(Out, toClient, held)
             /\ \A j \in Waits : token[j] = p.id => j \in ToSet(responses')
             /\ p.type = "PUBCOMP" => \A r \in released' : r \in released \/ r.id # p.id
    <3>1. Belongs(p)
      BY <2>1 DEF Conversation
    <3>2. FlightGoesOn
      BY FlightContinues
    <3> QED
      BY <2>1, <3>1, <3>2, BelongsKept
  <2> QED
    BY <2>1
<1> QED
  BY <1>1, ConversationHolds

(* The acknowledgement of a publication is read. *)
LEMMA ConversationPuback ==
    ASSUME TypeInv, StreamInv, JobInv, LinkInv, BrokerInv, InFlightFiles, Conversation, Flown, crossed = {}, ~misplaced,
           Next, connected, connected', HandlePuback
    PROVE  Conversation'
<1>1. PICK p \in ToSet(toClient) : /\ Reads(p) /\ p.type \in {"PUBACK", "PUBCOMP"} /\ Answered(p.id, "success")
                                   /\ UNCHANGED <<link, toBroker, held, released>>
  BY DEF HandlePuback, brokerVars
<1>2. Fresh(p.id, Out, toClient', held) /\ Alone(Out, toClient, held)
  BY <1>1, AnswerRead DEF IsAnswer
<1>3. /\ Out' = Out /\ toClient' \in Seq(Packets) /\ KeepsAnswers(toClient, toClient', 1)
      /\ Out \in Seq(Pieces) /\ toClient \in Seq(Packets)
  BY <1>1, ReadsFirst, OutTyped DEF Out
<1>4. Underway(Out, toClient', held) \subseteq Underway(Out, toClient, held) /\ Alone(Out, toClient', held)
  BY <1>2, <1>3, AloneKept, KeepsSame
<1>5. ASSUME NEW q \in Underway(Out', toClient', held')
      PROVE  q \in Underway(Out, toClient, held) /\ \A j \in Waits : token[j] = q.id => j \in ToSet(responses')
  <2>1. q \in Underway(Out, toClient', held)
    BY <1>1, <1>3
  <2>2. q.id # p.id
    BY <1>2, <2>1 DEF Fresh
  <2> QED
    BY <1>1, <1>4, <2>1, <2>2, AnsweredBy DEF Waits
<1>6. Alone(Out', toClient', held')
  BY <1>1, <1>3, <1>4
<1> QED
  BY <1>1, <1>5, <1>6, ConversationGoesOn

(* The same of a subscription. *)
LEMMA ConversationSuback ==
    ASSUME TypeInv, StreamInv, JobInv, LinkInv, BrokerInv, InFlightFiles, Conversation, Flown, crossed = {}, ~misplaced,
           Next, connected, connected', ReceiveSuback
    PROVE  Conversation'
<1>1. /\ held.type \in {"SUBACK", "SUBACK_BAD"} /\ held' = NoPacket
      /\ \/ UNCHANGED responses
         \/ \E what : Answered(held.id, what)
      /\ UNCHANGED <<link, toBroker, toClient, released>>
  BY DEF ReceiveSuback, brokerVars, sockVars
<1>2. /\ Fresh(held.id, Out, toClient, NoPacket) /\ Alone(Out, toClient, NoPacket)
      /\ Underway(Out, toClient, NoPacket) \subseteq Underway(Out, toClient, held)
  BY <1>1, AnswerHeld DEF IsAnswer
<1>3. Out' = Out
  BY <1>1 DEF Out
<1>4. Alone(Out', toClient', held') /\ Underway(Out', toClient', held') = Underway(Out, toClient, NoPacket)
  BY <1>1, <1>2, <1>3
<1>5. ASSUME NEW q \in Underway(Out', toClient', held')
      PROVE  q \in Underway(Out, toClient, held) /\ \A j \in Waits : token[j] = q.id => j \in ToSet(responses')
  <2>1. q \in Underway(Out, toClient, NoPacket)
    BY <1>4
  <2>2. q.id # held.id
    BY <1>2, <2>1 DEF Fresh
  <2> QED
    BY <1>1, <1>2, <2>1, <2>2, AnsweredBy DEF Waits
<1> QED
  BY <1>1, <1>4, <1>5, ConversationGoesOn

(* A packet is read and kept until the mutex is taken again. *)
LEMMA ConversationHeld ==
    ASSUME TypeInv, StreamInv, JobInv, LinkInv, BrokerInv, InFlightFiles, Conversation, Flown, crossed = {}, ~misplaced,
           Next, connected, connected', HoldPacket
    PROVE  Conversation'
<1>1. PICK p \in ToSet(toClient) : Reads(p) /\ held' = p /\ UNCHANGED <<link, toBroker, responses, released>>
  BY DEF HoldPacket, brokerVars, queueVars
<1>2. /\ Out' = Out /\ toClient' \in Seq(Packets) /\ KeepsAnswers(toClient, toClient', 1)
      /\ Out \in Seq(Pieces) /\ toClient \in Seq(Packets)
  BY <1>1, ReadsFirst, OutTyped DEF Out
<1>3. Underway(Out, toClient', held) \subseteq Underway(Out, toClient, held) /\ Alone(Out, toClient', held)
  BY <1>2, AloneKept, KeepsSame DEF Conversation
<1>4. Alone(Out, toClient', p) /\ Underway(Out, toClient', p) \subseteq Underway(Out, toClient, held)
  <2>1. CASE ~IsAnswer(p)
    BY <1>3, <2>1, NotHeld
  <2>2. CASE IsAnswer(p)
    <3>1. p \in Underway(Out, toClient, held) /\ Fresh(p.id, Out, toClient', held)
      BY <1>1, <2>2, AnswerRead
    <3>2. ~IsAnswer(NoPacket)
      BY DEF IsAnswer, NoPacket, Packet
    <3>3. /\ Underway(Out, toClient', NoPacket) \subseteq Underway(Out, toClient', held)
          /\ Alone(Out, toClient', NoPacket)
      BY <1>3, <3>2, NotHeld
    <3>4. Fresh(p.id, Out, toClient', NoPacket)
      BY <3>1, <3>3 DEF Fresh
    <3>5. /\ Alone(Out, toClient', p)
          /\ Underway(Out, toClient', p) \subseteq Underway(Out, toClient', NoPacket) \cup {p}
      BY <3>2, <3>3, <3>4, NewHeld
    <3> QED
      BY <1>3, <3>1, <3>3, <3>5
  <2> QED
    BY <2>1, <2>2
<1>5. Alone(Out', toClient', held') /\ Underway(Out', toClient', held') \subseteq Underway(Out, toClient, held)
  BY <1>1, <1>2, <1>4
<1>6. \A j \in Waits : j \in ToSet(responses')
  BY <1>1 DEF Waits
<1> QED
  BY <1>1, <1>5, <1>6, ConversationGoesOn

(* A new ask is written. *)
LEMMA AskWritten ==
    ASSUME TypeInv, NEW x \in Packets, NEW rc \in Results, Socket_putdatas(x, rc), UNCHANGED link,
           NEW c, NEW h, Alone(Out, c, h), Fresh(x.id, Out, c, h)
    PROVE  /\ Alone(Out', c, h)
           /\ Underway(Out', c, h) \subseteq Underway(Out, c, h) \cup {x}
           /\ rc = "error" => Out' = Out
<1>1. \/ Out' = Out
      \/ rc # "error" /\ \E part \in {"whole", "front"} : Out' = Append(Out, Piece(part, x))
  BY DEF Socket_putdatas, Out
<1>2. CASE Out' = Out
  BY <1>2
<1>3. ASSUME rc # "error", NEW part \in {"whole", "front"}, Out' = Append(Out, Piece(part, x))
      PROVE  Alone(Out', c, h) /\ Underway(Out', c, h) \subseteq Underway(Out, c, h) \cup {x}
  <2>1. PICK b : b = Out
    OBVIOUS
  <2>2. b \in Seq(Pieces) /\ Alone(b, c, h) /\ Fresh(x.id, b, c, h)
    BY <2>1, OutTyped
  <2>3. /\ Alone(Append(b, Piece(part, x)), c, h)
        /\ Underway(Append(b, Piece(part, x)), c, h) \subseteq Underway(b, c, h) \cup {x}
    BY <2>2, NewAsk, Zenon
  <2> QED
    BY <1>3, <2>1, <2>3, Zenon
<1> QED
  BY <1>1, <1>2, <1>3

LEMMA ConversationRequest ==
    ASSUME TypeInv, StreamInv, JobInv, LinkInv, BrokerInv, InFlightFiles, Conversation, Flown, crossed = {}, ~misplaced,
           ~misplaced', Next, connected, connected', ProcessRequest
    PROVE  Conversation'
<1>1. UNCHANGED <<kind, token, link, toClient, held, released>>
  BY DEF ProcessRequest, brokerVars
<1>2. PICK j : j = processing
  OBVIOUS
<1>3. PICK rc \in Results :
          /\ Socket_putdatas(Packet(IF kind[j] \in {"pub1", "pub2"} THEN "PUBLISH" ELSE "SUBSCRIBE", token[j], j), rc)
          /\ rc # "error" => responses' = Append(responses, j)
  BY <1>2 DEF ProcessRequest
<1>4. /\ j \in Jobs /\ kind[j] \in {"pub1", "pub2", "sub"}
      /\ \A w \in Waits : token[w] # token[j]
  BY <1>2, RequestNew
<1>5. PICK x \in Packets :
          /\ x.id = token[j] /\ x.about = j /\ x.type = (IF kind[j] \in {"pub1", "pub2"} THEN "PUBLISH" ELSE "SUBSCRIBE")
          /\ Socket_putdatas(x, rc)
  <2>1. {"PUBLISH", "SUBSCRIBE"} \subseteq PacketTypes /\ j \in Nat /\ token[j] \in Nat
    BY <1>4, JobsFacts, JobsAssumption DEF PacketTypes, TypeInv, AppTypes
  <2> QED
    BY <1>3, <1>4, <2>1, PacketTyped DEF Packet
<1>6. Fresh(x.id, Out, toClient, held) /\ Alone(Out, toClient, held)
  BY <1>4, <1>5 DEF Fresh, Conversation, Belongs
<1>7. /\ Alone(Out', toClient, held)
      /\ Underway(Out', toClient, held) \subseteq Underway(Out, toClient, held) \cup {x}
      /\ rc = "error" => Out' = Out
  BY <1>1, <1>5, <1>6, AskWritten
<1>8. rc # "error" => Belongs(x)'
  <2> SUFFICES ASSUME rc # "error" PROVE Belongs(x)'
    OBVIOUS
  <2>1. j \in ToSet(responses')
    BY <1>3, <1>4, ResponsesAppend DEF TypeInv, QueueTypes
  <2>2. j \in Waits'
    BY <1>1, <1>4, <2>1 DEF Waits, Acknowledged
  <2>3. Fits(x, j)'
    BY <1>1, <1>4, <1>5 DEF Fits
  <2> QED
    BY <1>1, <1>5, <2>2, <2>3 DEF Belongs
<1>9. \A w \in Waits : w \in ToSet(responses')
  BY ResponsesKept, WaitsFacts
<1>10. ASSUME NEW q \in Underway(Out', toClient', held') PROVE q \in Underway(Out, toClient, held) \/ Belongs(q)'
  <2>1. q \in Underway(Out', toClient, held)
    BY <1>1
  <2>2. CASE rc = "error"
    BY <1>7, <2>1, <2>2
  <2>3. CASE rc # "error"
    BY <1>7, <1>8, <2>1, <2>3
  <2> QED
    BY <2>2, <2>3
<1>11. Alone(Out', toClient', held')
  BY <1>1, <1>7
<1> QED
  BY <1>1, <1>9, <1>10, <1>11, ConversationGoesOn

(* PUBREL follows PUBREC. *)
LEMMA ConversationPubrec ==
    ASSUME TypeInv, StreamInv, JobInv, LinkInv, BrokerInv, InFlightFiles, Conversation, Flown, crossed = {}, ~misplaced,
           Next, connected, connected', HandlePubrec
    PROVE  Conversation'
<1>1. PICK p \in ToSet(toClient) :
          /\ Reads(p) /\ p.type = "PUBREC"
          /\ \/ UNCHANGED toBroker
             \/ \E i \in Waiting(p.id, "PUBREC"), rc \in Results :
                   /\ Socket_putdatas(Packet("PUBREL", p.id, outbound[i].job), rc)
                   /\ outbound' = [outbound EXCEPT ![i].next = "PUBCOMP"]
          /\ UNCHANGED <<kind, token, link, held, released, responses>>
  BY DEF HandlePubrec, appVars, brokerVars
<1>2. Fresh(p.id, Out, toClient', held) /\ Alone(Out, toClient, held) /\ Belongs(p)
  BY <1>1, AnswerRead DEF IsAnswer
<1>3. /\ toClient' \in Seq(Packets) /\ KeepsAnswers(toClient, toClient', 1) /\ p \in Packets
      /\ Out \in Seq(Pieces) /\ toClient \in Seq(Packets)
  BY <1>1, ReadsFirst, OutTyped
<1>4. Underway(Out, toClient', held) \subseteq Underway(Out, toClient, held) /\ Alone(Out, toClient', held)
  BY <1>2, <1>3, AloneKept, KeepsSame
<1>5. \A w \in Waits : w \in ToSet(responses')
  BY <1>1 DEF Waits
<1>6. CASE UNCHANGED toBroker
  <2>1. Out' = Out
    BY <1>1, <1>6 DEF Out
  <2>2. Alone(Out', toClient', held') /\ Underway(Out', toClient', held') \subseteq Underway(Out, toClient, held)
    BY <1>1, <1>4, <2>1
  <2> QED
    BY <1>1, <1>5, <2>2, ConversationGoesOn
<1>7. ASSUME NEW i \in Waiting(p.id, "PUBREC"), NEW rc \in Results,
             Socket_putdatas(Packet("PUBREL", p.id, outbound[i].job), rc),
             outbound' = [outbound EXCEPT ![i].next = "PUBCOMP"]
      PROVE  Conversation'
  <2>1. PICK x : x = Packet("PUBREL", p.id, outbound[i].job)
    OBVIOUS
  <2>2. i \in DOMAIN outbound /\ token[outbound[i].job] = p.id /\ outbound \in Seq(Messages)
    BY <1>7 DEF Waiting, TypeInv, QueueTypes
  <2>3. x \in Packets /\ x.id = p.id /\ x.type = "PUBREL"
    <3>1. "PUBREL" \in PacketTypes /\ p.id \in Nat /\ outbound[i].job \in Nat
      BY <1>3, <2>2, OutboundFacts, JobsAssumption DEF PacketTypes, Packets
    <3> QED
      BY <2>1, <3>1, PacketTyped DEF Packet
  <2>4. /\ Alone(Out', toClient', held)
        /\ Underway(Out', toClient', held) \subseteq Underway(Out, toClient', held) \cup {x}
    BY <1>1, <1>2, <1>4, <1>7, <2>1, <2>3, AskWritten
  <2>5. PICK j \in Waits : token[j] = p.id /\ Fits(p, j)
    BY <1>2 DEF Belongs
  <2>6. \A k \in DOMAIN outbound' : outbound'[k].job = j => outbound'[k].next = "PUBCOMP"
    <3>1. /\ DOMAIN outbound' = DOMAIN outbound
          /\ \A k \in DOMAIN outbound : outbound'[k].job = outbound[k].job /\ (k = i => outbound'[k].next = "PUBCOMP")
      BY <1>7, <2>2, OutboundFacts DEF Messages
    <3>2. \A k \in DOMAIN outbound : outbound[k].job = j => k = i
      BY <2>2, <2>5 DEF Flown
    <3> QED
      BY <3>1, <3>2
  <2>7. j \in Waits'
    BY <1>1, <2>5 DEF Waits, Acknowledged
  <2>8. Fits(x, j)'
    BY <1>1, <2>3, <2>5, <2>6 DEF Fits
  <2>9. Belongs(x)'
    BY <1>1, <2>3, <2>5, <2>7, <2>8 DEF Belongs
  <2>10. Alone(Out', toClient', held') /\ Underway(Out', toClient', held') \subseteq Underway(Out, toClient, held) \cup {x}
    BY <1>1, <1>4, <2>4
  <2> QED
    BY <1>1, <1>5, <2>9, <2>10, ConversationGoesOn
<1> QED
  BY <1>1, <1>6, <1>7

(* What the broker's answer says of the request. *)
LEMMA AnswerBelongs ==
    ASSUME TypeInv, JobInv, LinkInv, BrokerInv, ReleasedFits, crossed = {}, BrokerReads, link = "open",
           NEW p, p = Head(toBroker).packet, IsAsk(p), Belongs(p)
    PROVE  \/ UNCHANGED toClient
           \/ \E type \in {"PUBACK", "PUBREC", "PUBCOMP", "SUBACK", "SUBACK_BAD"}, about \in {none, p.about} :
                 /\ toClient' = Append(toClient, Packet(type, p.id, about))
                 /\ Belongs(Packet(type, p.id, about))'
<1>1. PICK j \in Waits : token[j] = p.id /\ Fits(p, j)
  BY DEF Belongs
<1>2. /\ UNCHANGED <<kind, token, responses, outbound>> /\ Readable /\ toBroker' = AfterReadable
  BY DEF BrokerReads, appVars, queueVars
<1>3. j \in Waits' /\ token'[j] = p.id /\ j \in Jobs
  BY <1>1, <1>2 DEF Waits, Acknowledged
<1>4. accepted \in [Jobs -> Nat]
  BY DEF BrokerInv
<1>5. Accept(j) => accepted'[j] > 0
  BY <1>3, <1>4 DEF Accept
<1>6. ASSUME NEW type \in {"PUBACK", "PUBREC", "PUBCOMP", "SUBACK", "SUBACK_BAD"}, NEW about \in {none, p.about},
             type = "PUBACK" => kind[j] = "pub1",
             type \in {"PUBREC", "PUBCOMP"} => kind[j] = "pub2",
             type \in {"SUBACK", "SUBACK_BAD"} => kind[j] = "sub",
             type \in {"PUBACK", "PUBCOMP", "SUBACK"} => accepted'[j] > 0,
             type = "PUBCOMP" => /\ \A i \in DOMAIN outbound : outbound[i].job = j => outbound[i].next = "PUBCOMP"
                                 /\ \A r \in released' : r.id # p.id
      PROVE  Belongs(Packet(type, p.id, about))'
  <2>1. PICK a : a = Packet(type, p.id, about)
    OBVIOUS
  <2>2. a.type = type /\ a.id = p.id
    BY <2>1 DEF Packet
  <2>3. Fits(a, j)'
    BY <1>2, <1>6, <2>2 DEF Fits
  <2>4. Belongs(a)'
    BY <1>3, <2>2, <2>3 DEF Belongs
  <2> QED
    BY <2>1, <2>4
<1>7. CASE p.type = "PUBLISH"
  <2>1. p.about = j /\ kind[j] \in {"pub1", "pub2"}
    BY <1>1, <1>7 DEF Fits
  <2>2. \/ /\ kind[j] = "pub1" /\ Accept(j) /\ toClient' = Append(toClient, Packet("PUBACK", p.id, none))
        \/ /\ kind[j] = "pub2" /\ toClient' = Append(toClient, Packet("PUBREC", p.id, none))
    BY <1>7, <2>1 DEF BrokerReads, Reply
  <2> QED
    BY <1>5, <1>6, <2>2
<1>8. CASE p.type = "PUBREL"
  <2>1. PICK r \in released : r.id = p.id /\ Accept(r.job) /\ released' = released \ {r}
    BY <1>8 DEF BrokerReads
  <2>2. toClient' = Append(toClient, Packet("PUBCOMP", p.id, none))
    BY <1>8 DEF BrokerReads, Reply
  <2>3. ConnectsIn(toBroker) = {}
    BY <1>2, <1>8, ConnectsRead DEF TypeInv, LinkInv
  <2>4. \A s \in released : s.id = p.id => s.job = j
    <3>1. \A s \in released : s.job \in Waits /\ token[s.job] = s.id
      BY <2>3 DEF ReleasedFits
    <3> QED
      BY <1>1, <3>1, WaitUnique DEF JobInv
  <2>5. \A s \in released' : s.id # p.id
    <3>1. released \subseteq [id : Nat, job : Nat]
      BY DEF BrokerInv
    <3>2. \A s \in released : s.id = r.id /\ s.job = r.job => s = r
      BY <2>1, <3>1
    <3> QED
      BY <2>1, <2>4, <3>2
  <2>6. kind[j] = "pub2" /\ \A i \in DOMAIN outbound : outbound[i].job = j => outbound[i].next = "PUBCOMP"
    BY <1>1, <1>8 DEF Fits
  <2>7. accepted'[j] > 0
    BY <1>5, <2>1, <2>4
  <2> QED
    BY <1>6, <2>2, <2>5, <2>6, <2>7
<1>9. CASE p.type = "SUBSCRIBE"
  <2>1. p.about = j /\ kind[j] = "sub"
    BY <1>1, <1>9 DEF Fits
  <2>2. \/ Accept(j) /\ toClient' = Append(toClient, Packet("SUBACK", p.id, p.about))
        \/ toClient' = Append(toClient, Packet("SUBACK_BAD", p.id, p.about))
    BY <1>9, <2>1 DEF BrokerReads, Reply
  <2> QED
    BY <1>5, <1>6, <2>1, <2>2
<1> QED
  BY <1>7, <1>8, <1>9 DEF IsAsk

LEMMA ConversationBroker ==
    ASSUME TypeInv, StreamInv, JobInv, LinkInv, IdGiven, BrokerInv, InFlightFiles, Conversation, ReleasedFits, Flown,
           crossed = {}, ~misplaced, Next, connected, connected', BrokerReads
    PROVE  Conversation'
<1>1. PICK p : p = Head(toBroker).packet
  OBVIOUS
<1>2. Readable /\ toBroker' = AfterReadable /\ UNCHANGED <<link, responses, held>>
  BY DEF BrokerReads, queueVars, threadVars
<1>3. /\ Out \in Seq(Pieces) /\ toClient \in Seq(Packets) /\ Out' \in Seq(Pieces) /\ toClient' \in Seq(Packets)
      /\ Alone(Out, toClient, held)
  BY OutTyped, OutTypedNext DEF Conversation
<1>4. \A w \in Waits : w \in ToSet(responses')
  BY <1>2 DEF Waits
<1>5. CASE link # "open"
  <2>1. Out = <<>> /\ Out' = <<>> /\ toClient = <<>> /\ toClient' = toClient
    BY <1>2, <1>5 DEF Out, LinkInv, BrokerReads, Reply, NoReply
  <2>2. Alone(Out', toClient', held') /\ Underway(Out', toClient', held') = Underway(Out, toClient, held)
    BY <1>2, <1>3, <2>1
  <2>3. Underway(<<>>, <<>>, held) \subseteq {held}
    BY DEF Underway, AsksIn, AnswersIn
  <2>4. \A q \in Underway(Out, toClient, held) : q.type # "PUBCOMP"
    BY <2>1, <2>3 DEF BrokerInv
  <2> QED
    BY <1>4, <2>2, <2>4, ConversationGoesOn
<1>6. CASE link = "open"
  <2>1. Out = toBroker /\ Out' = AfterReadable
    BY <1>2, <1>6 DEF Out
  <2>2. 1 \in DOMAIN toBroker /\ toBroker[1].part # "rest" /\ p = toBroker[1].packet /\ p \in Packets
    BY <1>1, <1>2, ShiftedRead DEF TypeInv, Pieces
  <2>3. PICK e \in {1, 2} : KeepsAsks(Out, Out', e)
    <3>1. PICK e \in {1, 2} : Shifted(toBroker, AfterReadable, e)
      BY <1>2, ShiftedRead DEF TypeInv
    <3>2. KeepsAsks(toBroker, AfterReadable, e)
      BY <3>1, ShiftedKeeps
    <3> QED
      BY <2>1, <3>2
  <2>4. Underway(Out', toClient, held) \subseteq Underway(Out, toClient, held) /\ Alone(Out', toClient, held)
    <3>1. KeepsAnswers(toClient, toClient, 0) /\ e \in Nat /\ 0 \in Nat
      BY <1>3, KeepsSame
    <3> QED
      BY <1>3, <2>3, <3>1, AloneKept
  <2>5. CASE ~IsAsk(p)
    <3>1. PICK d \in {0, 1} : KeepsAnswers(toClient, toClient', d)
      BY <1>1, <2>5, NoAnswer
    <3>2. released' \subseteq released
      BY <1>1, <2>5, NoAnswer
    <3>3. KeepsAsks(Out', Out', 0)
      BY <1>3, KeepsSame
    <3>4. Underway(Out', toClient', held) \subseteq Underway(Out', toClient, held) /\ Alone(Out', toClient', held)
      BY <1>3, <2>4, <3>1, <3>3, AloneKept
    <3>5. Alone(Out', toClient', held') /\ Underway(Out', toClient', held') \subseteq Underway(Out, toClient, held)
      BY <1>2, <2>4, <3>4
    <3> QED
      BY <1>4, <3>2, <3>5, ConversationGoesOn
  <2>6. CASE IsAsk(p)
    <3>1. 1 \in AsksIn(Out) /\ Out[1].packet = p
      BY <2>1, <2>2, <2>6 DEF AsksIn
    <3>2. Belongs(p)
      BY <3>1 DEF Underway, Conversation
    <3>3. Fresh(p.id, Out', toClient, held)
      <4>1. e \in Nat \ {0}
        OBVIOUS
      <4> QED
        BY <1>3, <2>3, <3>1, <4>1, AskGone
    <3>4. \A r \in released' : r \in released \/ r.id = p.id
      BY <1>1 DEF BrokerReads
    <3>5. \A q \in Underway(Out', toClient, held) : \A r \in released' : r \in released \/ r.id # q.id
      BY <3>3, <3>4 DEF Fresh
    <3>6. CASE UNCHANGED toClient
      <4>1. Alone(Out', toClient', held') /\ Underway(Out', toClient', held') = Underway(Out', toClient, held)
        BY <1>2, <2>4, <3>6
      <4> QED
        BY <1>4, <2>4, <3>5, <4>1, ConversationGoesOn
    <3>7. ASSUME NEW type \in {"PUBACK", "PUBREC", "PUBCOMP", "SUBACK", "SUBACK_BAD"}, NEW about \in {none, p.about},
                 toClient' = Append(toClient, Packet(type, p.id, about)), Belongs(Packet(type, p.id, about))'
          PROVE  Conversation'
      <4>1. PICK a : a = Packet(type, p.id, about)
        OBVIOUS
      <4>2. a \in Packets /\ a.id = p.id
        <5>1. {"PUBACK", "PUBREC", "PUBCOMP", "SUBACK", "SUBACK_BAD"} \subseteq PacketTypes /\ none \in Nat
          BY DEF PacketTypes, none
        <5>2. type \in PacketTypes /\ p.id \in Nat /\ about \in Nat
          BY <2>2, <5>1 DEF Packets
        <5> QED
          BY <4>1, <5>2, PacketTyped DEF Packet
      <4>3. toClient' = Append(toClient, a) /\ Belongs(a)'
        BY <3>7, <4>1
      <4>4. /\ Alone(Out', Append(toClient, a), held)
            /\ Underway(Out', Append(toClient, a), held) \subseteq Underway(Out', toClient, held) \cup {a}
        BY <1>3, <2>4, <3>3, <4>2, NewAnswer
      <4>5. /\ Alone(Out', toClient', held')
            /\ Underway(Out', toClient', held') \subseteq Underway(Out', toClient, held) \cup {a}
        BY <1>2, <4>3, <4>4, Zenon
      <4>6. \A q \in Underway(Out', toClient', held') :
                \/ Belongs(q)'
                \/ q \in Underway(Out, toClient, held) /\ \A r \in released' : r \in released \/ r.id # q.id
        BY <2>4, <3>5, <4>3, <4>5
      <4> QED
        BY <1>4, <4>5, <4>6, ConversationGoesOn
    <3> QED
      BY <1>1, <1>6, <2>6, <3>2, <3>6, <3>7, AnswerBelongs
  <2> QED
    BY <2>5, <2>6
<1> QED
  BY <1>5, <1>6

LEMMA ConversationStep ==
    ASSUME TypeInv, StreamInv, JobInv, LinkInv, IdGiven, BrokerInv, InFlightFiles, Conversation, ReleasedFits, FlightFits,
           crossed = {}, ~misplaced, ~misplaced', Next
    PROVE  Conversation'
<1>1. PlaceInv
  BY DEF JobInv
<1>2. CASE connected /\ connected'
  <2>1. Flown
    BY <1>2 DEF FlightFits
  <2> QED
    BY <1>1, <1>2, <2>1, SessionNext, ConversationKept, ConversationRequest, ConversationPuback, ConversationPubrec,
       ConversationSuback, ConversationHeld, ConversationBroker
<1>3. CASE ~connected /\ ~connected'
  BY <1>1, <1>3, ConversationRests
<1>4. CASE connected /\ ~connected'
  BY <1>4, ConversationEnds
<1>5. CASE ~connected /\ connected'
  BY <1>5, ConversationBegins
<1> QED
  BY <1>2, <1>3, <1>4, <1>5

-----------------------------------------------------------------------------
(* The whole invariant.                                                    *)

LEMMA TalkInit == Init => ConversationInv
<1> SUFFICES ASSUME Init PROVE ConversationInv
  OBVIOUS
<1>1. /\ toBroker = <<>> /\ toClient = <<>> /\ commands = <<>> /\ responses = <<>> /\ outbound = <<>> /\ inbound = {}
      /\ store = {} /\ released = {} /\ held = NoPacket /\ link = "closed" /\ ~connected
  BY DEF Init, SocketInit
<1>2. \A j \in Jobs : j \in AllJobs /\ j \notin Calls
  BY JobsAssumption DEF AllJobs
<1>3. /\ FilesOf("s") = {} /\ FilesOf("r") = {} /\ FileJobs = {} /\ JobsOf(commands) = {} /\ JobsOf(outbound) = {}
      /\ ConnectsIn(toBroker) = {} /\ Offered = {} /\ Acknowledged = {}
  BY <1>1, <1>2 DEF FilesOf, FileJobs, JobsOf, ConnectsIn, Offered, Acknowledged, Init
<1>4. LinkInv /\ IdGiven
  BY <1>1, <1>3 DEF LinkInv, IdGiven
<1>5. InFlightFiles /\ QueueFiles /\ ReceivedFiles
  BY <1>1, <1>3 DEF InFlightFiles, QueueFiles, ReceivedFiles
<1>6. BrokerInv
  BY <1>1 DEF BrokerInv, Init, NoPacket, Packet
<1>7. Conversation
  <2>1. Underway(<<>>, <<>>, NoPacket) = {} /\ ~IsAnswer(NoPacket)
    BY DEF Underway, AsksIn, AnswersIn, IsAnswer, NoPacket, Packet
  <2> QED
    BY <1>1, <2>1 DEF Conversation, Out
<1>8. ReleasedFits /\ FlightFits /\ Told
  BY <1>1, <1>3 DEF ReleasedFits, FlightFits, Told
<1> QED
  BY <1>4, <1>5, <1>6, <1>7, <1>8 DEF ConversationInv, TalkBase, TalkInv

LEMMA TalkStep ==
    ASSUME WireInv, InboundInv, JobInv, ConversationInv, Next
    PROVE  ConversationInv'
<1>1. /\ TypeInv /\ StreamInv /\ PlaceInv /\ OnceInv
      /\ LinkInv /\ IdGiven /\ InFlightFiles /\ QueueFiles /\ ReceivedFiles /\ BrokerInv /\ TalkInv
  BY DEF WireInv, JobInv, ConversationInv, TalkBase
<1>2. TalkBase'
  BY <1>1, LinkStep, IdGivenStep, InFlightStep, QueueFilesStep, ReceivedFilesStep, BrokerStep DEF TalkBase
<1>3. crossed \subseteq crossed' /\ (misplaced => misplaced')
  BY <1>1, JobNext, Settled
<1>4. ASSUME crossed' = {}, ~misplaced' PROVE (Conversation /\ ReleasedFits /\ FlightFits /\ Told)'
  <2>1. ~misplaced
    BY <1>3, <1>4, Zenon
  <2>2. crossed = {}
    BY <1>3, <1>4
  <2>3. Conversation /\ ReleasedFits /\ FlightFits /\ Told
    BY <1>1, <2>1, <2>2 DEF TalkInv
  <2>4. Conversation'
    BY <1>1, <1>4, <2>1, <2>2, <2>3, ConversationStep
  <2>5. ReleasedFits'
    BY <1>1, <1>4, <2>2, <2>3, ReleasedStep
  <2>6. FlightFits'
    BY <1>1, <1>4, <2>1, <2>2, <2>3, FlightStep
  <2>7. Told'
    BY <1>1, <1>4, <2>2, <2>3, ToldStep
  <2> QED
    BY <2>4, <2>5, <2>6, <2>7
<1> QED
  BY <1>2, <1>4 DEF ConversationInv, TalkInv

LEMMA TalkStutters ==
    ASSUME ConversationInv, UNCHANGED vars
    PROVE  ConversationInv'
<1>1. UNCHANGED <<kind, caller, token, outcome, crossed, commands, responses, outbound, inbound, store, connected,
                  connect_state, processing, held, misplaced, released, accepted, link, toBroker, toClient, up>>
  BY DEF vars, appVars, queueVars, connVars, threadVars, brokerVars, sockVars
<1>2. /\ Acknowledged' = Acknowledged /\ Offered' = Offered /\ FileJobs' = FileJobs /\ Out' = Out /\ Closing' = Closing
      /\ FilesOf("s")' = FilesOf("s") /\ FilesOf("r")' = FilesOf("r")
  BY <1>1 DEF Acknowledged, Offered, FileJobs, FilesOf, Out, Closing, Kind
<1>3. Waits' = Waits
  BY <1>1, <1>2 DEF Waits
<1>4. TalkBase'
  <2>1. LinkInv' /\ IdGiven'
    BY <1>1, <1>2 DEF ConversationInv, TalkBase, LinkInv, IdGiven
  <2>2. InFlightFiles' /\ QueueFiles' /\ ReceivedFiles' /\ BrokerInv'
    BY <1>1, <1>2 DEF ConversationInv, TalkBase, InFlightFiles, QueueFiles, ReceivedFiles, BrokerInv
  <2> QED
    BY <2>1, <2>2 DEF TalkBase
<1>5. ASSUME NEW p, Belongs(p) PROVE Belongs(p)'
  BY <1>1, <1>3, <1>5 DEF Belongs, Fits
<1>6. Conversation => Conversation'
  BY <1>1, <1>2, <1>5 DEF Conversation
<1>7. (ReleasedFits => ReleasedFits') /\ (FlightFits => FlightFits') /\ (Told => Told')
  BY <1>1, <1>2, <1>3 DEF ReleasedFits, FlightFits, Flown, Told
<1> QED
  BY <1>1, <1>4, <1>6, <1>7 DEF ConversationInv, TalkInv

\* The inductive invariant about the conversation with the broker: while no
\* id was given twice, every request and answer under way in a session is
\* about a job that waits for it (MQTTAsync_cycle), is the only one with its
\* id and says of the broker what is true, and the files and publications in
\* flight are those the protocol has come to.
THEOREM PahoConversation == Spec => []ConversationInv
<1>1. WireInv /\ InboundInv /\ JobInv /\ ConversationInv /\ [Next]_vars => ConversationInv'
  BY TalkStep, TalkStutters
<1> QED
  BY <1>1, TalkInit, PahoWire, PahoInbound, PahoJobs, PTL DEF Spec

\* A publication or subscription whose token is told of success was accepted
\* by the broker: MQTTAsync_cycle, which finds a response by its message id
\* alone, never takes the answer to another request, of this session or of an
\* earlier one, for its own, whatever breaks, is cut or crashes, unless an id
\* that a call had been given and had not queued yet was given to another
\* call (two that overlap between MQTTAsync_assignMsgId's reading of msgID
\* and their insertion in the queue), or MQTTAsync_writeComplete freed another
\* job's response.
THEOREM PahoSuccessIsDelivered == Spec => []SuccessIsDelivered
<1>1. ConversationInv => SuccessIsDelivered
  BY DEF ConversationInv, TalkInv, Told, SuccessIsDelivered
<1> QED
  BY <1>1, PahoConversation, PTL

\* The files are those of the commands in the queue, the publications in
\* flight and the QoS 2 messages in memory (MQTTAsync_persistCommand,
\* MQTTPersistence_put and MQTTPersistence_remove), with the same exceptions.
\* The command that MQTTAsync_processCommand has taken off the queue is in
\* neither, and has no file until its publication is put: a process that dies
\* then loses it.
THEOREM PahoStoreMatches == Spec => []StoreMatches
<1>1. ASSUME WireInv, JobInv, ConversationInv PROVE StoreMatches
  <2> SUFFICES ASSUME up, crossed = {}, ~misplaced
               PROVE  /\ FileJobs = {j \in JobsOf(commands) : kind[j] \notin {"con", "dis"}}
                      /\ {f.about : f \in FilesOf("s")} = JobsOf(outbound)
                      /\ {f.about : f \in FilesOf("r")} = {m.about : m \in inbound}
    BY DEF StoreMatches, FileJobs
  <2>1. /\ TypeInv /\ PlaceInv /\ QueueFiles /\ ReceivedFiles /\ FlightFits
    BY <1>1 DEF WireInv, JobInv, ConversationInv, TalkBase, TalkInv
  <2>2. FileJobs \subseteq {j \in JobsOf(commands) : kind[j] \notin {"con", "dis"}}
    BY <2>1 DEF PlaceInv
  <2>3. ASSUME NEW j \in JobsOf(commands), kind[j] \notin {"con", "dis"} PROVE j \in FileJobs
    <3>1. j \in AllJobs
      <4>1. PICK i \in DOMAIN commands : commands[i].job = j /\ j # none
        BY DEF JobsOf
      <4>2. commands \in Seq(Entries) /\ DOMAIN commands = 1 .. Len(commands)
        BY <2>1, LenProperties DEF TypeInv, QueueTypes
      <4>3. commands[i] \in Entries
        BY <4>1, <4>2, ElementOfSeq
      <4> QED
        BY <4>1, <4>3 DEF Entries
    <3>2. j \in Jobs
      BY <2>1, <2>3, <3>1 DEF AllJobs, TypeInv, AppTypes
    <3> QED
      BY <2>1, <2>3, <3>2 DEF QueueFiles
  <2>4. {f.about : f \in FilesOf("s")} = JobsOf(outbound)
    BY <2>1 DEF FlightFits
  <2>5. {f.about : f \in FilesOf("r")} = {m.about : m \in inbound}
    <3>1. inbound = {[id |-> f.id, about |-> f.about] : f \in FilesOf("r")}
      BY <2>1 DEF ReceivedFiles
    <3>2. \A f \in FilesOf("r") : \E m \in inbound : m.about = f.about
      <4> SUFFICES ASSUME NEW f \in FilesOf("r") PROVE \E m \in inbound : m.about = f.about
        OBVIOUS
      <4>1. PICK m : m = [id |-> f.id, about |-> f.about]
        OBVIOUS
      <4> QED
        BY <3>1, <4>1
    <3>3. \A m \in inbound : \E f \in FilesOf("r") : m.about = f.about
      BY <3>1
    <3> QED
      BY <3>2, <3>3
  <2> QED
    BY <2>2, <2>3, <2>4, <2>5
<1> QED
  BY <1>1, PahoWire, PahoJobs, PahoConversation, PTL
=============================================================================
