------------------------- MODULE PahoAsyncInvariants -------------------------
(***************************************************************************)
(* The inductive invariants of the asynchronous MQTT client of module      *)
(* PahoAsync, in layers: the types and the wire (WireInv), the messages    *)
(* from the broker (InboundInv), the jobs (JobInv) and the conversation    *)
(* with the broker (ConversationInv).  PahoAsyncProofs proves them.        *)
(***************************************************************************)
EXTENDS PahoAsync

-----------------------------------------------------------------------------
(* Types and the wire.                                                     *)

PacketTypes ==
    {"none", "CONNECT", "CONNACK", "REFUSED", "DISCONNECT", "PINGREQ", "PINGRESP", "SUBSCRIBE", "SUBACK", "SUBACK_BAD",
     "PUBLISH", "PUBLISH1", "PUBLISH2", "PUBACK", "PUBREC", "PUBREL", "PUBREL_DUP", "PUBCOMP"}

Packets == [type : PacketTypes, id : Nat, about : Nat]

Pieces == [part : {"whole", "front", "rest"}, packet : Packets]

Entries == [job : AllJobs \cup {none}, version : Nat]

Messages == [job : Jobs, next : {"PUBACK", "PUBREC", "PUBCOMP"}]

Files == [key : {"c", "s", "sc", "r"}, id : Nat, about : Nat]

AppTypes ==
    /\ kind \in [AllJobs -> Kinds \cup {"con", "unmade"}]
    /\ caller \in [AllJobs -> {"idle", "refused", "checked", "numbering", "assigned", "queued", "gone"}]
    /\ token \in [AllJobs -> Nat]
    /\ outcome \in [AllJobs -> {"none", "success", "failure", "again"}]
    /\ crossed \subseteq Jobs
    /\ \A j \in Jobs : kind[j] # "con"
    /\ \A j \in Calls : kind[j] = "con"

QueueTypes ==
    /\ commands \in Seq(Entries)
    /\ responses \in Seq(Jobs)
    /\ outbound \in Seq(Messages)
    /\ inbound \subseteq [id : Nat, about : Nat]
    /\ store \subseteq Files /\ IsFiniteSet(store)
    /\ \A f \in store : f.key \in {"c", "s"} => f.about \in Jobs
    /\ msgID \in Nat

ConnTypes ==
    /\ connected \in BOOLEAN
    /\ connect_state \in {0, 1, 3}
    /\ connect \in [job : Calls \cup {none}, version : Nat, armed : BOOLEAN]
    /\ pending_write \in Jobs \cup {none}
    /\ processing \in Jobs \cup {none}
    /\ stage \in {"idle", "taken", "cut", "noted"}
    /\ (stage = "idle") = (processing = none)
    /\ misplaced \in BOOLEAN
    /\ up \in BOOLEAN
    /\ held \in Packets

WireTypes ==
    /\ link \in {"closed", "connecting", "open", "reset"}
    /\ write_pending \in BOOLEAN
    /\ stale \in BOOLEAN
    /\ writes \in Seq(Packets)
    /\ toBroker \in Seq(Pieces)

BrokerTypes ==
    /\ toClient \in Seq(Packets)
    /\ sent \in [Inbound -> {"unsent", "sent1", "sent2", "released", "done"}]
    /\ delivered \in [Inbound -> Nat]

TypeInv == AppTypes /\ QueueTypes /\ ConnTypes /\ WireTypes /\ BrokerTypes

\* A rest follows its front, and a front is the last piece or is followed by
\* its rest.
WellFormed(s) ==
    /\ \A i \in DOMAIN s : s[i].part = "rest" => i > 1 /\ s[i - 1] = Piece("front", s[i].packet)
    /\ \A i \in DOMAIN s : s[i].part = "front" /\ i < Len(s) => s[i + 1] = Piece("rest", s[i].packet)

\* What is kept of a cut write, while the descriptor is that of the
\* connection on which the front was written.
Pending ==
    IF write_pending
       THEN /\ Len(writes) = 1
            /\ toBroker # <<>>
            /\ toBroker[Len(toBroker)] = Piece("front", writes[1])
       ELSE /\ writes = <<>>
            /\ toBroker # <<>> => toBroker[Len(toBroker)].part # "front"

StreamInv ==
    /\ write_pending => writes # <<>>
    /\ ~stale => /\ WellFormed(toBroker)
                 /\ link \in {"connecting", "open"} => Pending
                 /\ link = "connecting" => toBroker = <<>>

Outcomes == {"none", "success", "failure", "again"}

WireInv == TypeInv /\ StreamInv

-----------------------------------------------------------------------------
(* The messages from the broker.                                           *)

\* The packets the broker has been offered, whole or in part.
Offered == {toBroker[i].packet : i \in {k \in DOMAIN toBroker : toBroker[k].part # "rest"}}

Recs == {p \in Offered : p.type = "PUBREC"}

\* The QoS 2 messages kept for their PUBREL, in memory or in a file.
Kept == inbound \cup {[id |-> f.id, about |-> f.about] : f \in FilesOf("r")}

Message(m) == [id |-> m, about |-> m]

\* The packets by which the broker hands a message over.
Releases == {"PUBREL", "PUBREL_DUP"}

InboundTypes == {"PUBLISH1", "PUBLISH2"} \cup Releases

\* The i-th packet of s is about message m and of one of these types.
At(s, i, types, m) == s[i].type \in types /\ s[i].about = m

\* There are traces of message m at QoS 2.
Second(m) ==
    \/ Message(m) \in Kept
    \/ Packet("PUBREC", m, m) \in Recs
    \/ \E i \in DOMAIN toClient : At(toClient, i, {"PUBLISH2"} \cup Releases, m)

AboutMessage(x) == x.about \in Inbound /\ x.id = x.about

\* How far a message has come.  A message that was delivered is not kept and
\* not on its way any more; the PUBREL that follows its last PUBLISH finds
\* nothing.
MessageInv(m) ==
    /\ sent[m] = "unsent" => delivered[m] = 0 /\ ~Second(m)
    /\ \A i \in DOMAIN toClient : At(toClient, i, {"PUBLISH1"}, m) =>
          /\ delivered[m] = 0
          /\ ~Second(m)
          /\ sent[m] \in {"sent1", "done"}
          /\ \A k \in DOMAIN toClient : At(toClient, k, {"PUBLISH1"}, m) => k = i
    /\ Second(m) => sent[m] \in {"sent2", "released", "done"}
    /\ \A i \in DOMAIN toClient : At(toClient, i, Releases, m) =>
          /\ sent[m] \in {"released", "done"}
          /\ \A k \in DOMAIN toClient : k > i => ~At(toClient, k, {"PUBLISH2"}, m)
    /\ delivered[m] # 0 =>
          /\ delivered[m] = 1
          /\ Message(m) \notin Kept
          /\ \A i \in DOMAIN toClient : ~At(toClient, i, {"PUBLISH1", "PUBLISH2"}, m)
          /\ sent[m] \in {"sent1", "released", "done"}

InboundInv ==
    /\ \A i \in DOMAIN toClient : toClient[i].type \in InboundTypes => AboutMessage(toClient[i])
    /\ \A p \in Recs : AboutMessage(p)
    /\ \A x \in Kept : AboutMessage(x)
    /\ \A m \in Inbound : MessageInv(m)

-----------------------------------------------------------------------------
(* The jobs and their tokens.                                              *)

\* No member of S is in s twice.
Distinct(s, S) == \A i, k \in DOMAIN s : s[i] \in S /\ s[i] = s[k] => i = k

\* No member of S has two commands in q.
DistinctJobs(q, S) == \A i, k \in DOMAIN q : q[i].job \in S /\ q[i].job = q[k].job => i = k

\* The jobs whose command has a file.
FileJobs == {f.about : f \in FilesOf("c")}

\* The jobs whose token is held by this process.
Mine == {j \in Jobs : caller[j] = "queued"}

\* Where jobs may be, by what their caller has done.
PlaceInv ==
    /\ connected => up
    /\ ~up => \A j \in AllJobs : caller[j] \in {"idle", "gone"}
    /\ \A j \in Jobs : kind[j] # "unmade" => caller[j] # "idle"
    /\ \A j \in Jobs \cap (JobsOf(commands) \cup ToSet(responses) \cup FileJobs) : caller[j] \in {"queued", "gone"}
    /\ connected => \A j \in JobsOf(commands) \cup ToSet(responses) : caller[j] = "queued"
    /\ processing # none => connected /\ caller[processing] = "queued"
    /\ stage \in {"cut", "noted"} => kind[processing] = "pub0"
    /\ pending_write # none => kind[pending_write] = "pub0"
    /\ up => FileJobs \subseteq JobsOf(commands)
    /\ \A j \in FileJobs : kind[j] \notin {"con", "dis"}

\* A job of this process is in one place of one queue, and has not been told
\* anything yet.
OnceInv ==
    /\ \A j \in Jobs : caller[j] \in {"idle", "checked", "numbering", "assigned"} => outcome[j] = "none"
    /\ ~misplaced =>
          /\ \A j \in Mine \cap (JobsOf(commands) \cup ToSet(responses) \cup {processing}) : outcome[j] = "none"
          /\ DistinctJobs(commands, Mine)
          /\ Distinct(responses, Mine)
          /\ Mine \cap JobsOf(commands) \cap ToSet(responses) = {}
          /\ processing \in Mine => processing \notin JobsOf(commands) \cup ToSet(responses)
          /\ \A j \in Jobs : outcome[j] # "again"

\* The jobs that have a message id and may still use it.
Holders ==
    Acknowledged \cap ({j \in Jobs : caller[j] = "assigned"} \cup Live \cup FileJobs)

IdsInv == crossed = {} => \A i \in Holders : \A j \in Holders : i # j => token[i] # token[j]

\* The inductive invariant about the jobs.
JobInv == PlaceInv /\ TokenKept /\ OnceInv /\ IdsInv

-----------------------------------------------------------------------------
(* The conversation with the broker.                                       *)

\* What the client asks of the broker under a message id, and the answers.
IsAsk(p) == p.type \in {"PUBREL", "SUBSCRIBE"} \/ (p.type = "PUBLISH" /\ p.id # 0)

IsAnswer(p) == p.type \in {"PUBACK", "PUBREC", "PUBCOMP", "SUBACK", "SUBACK_BAD"}

\* Where they are in what was written, b, and in what can be read, c.
AsksIn(b) == {i \in DOMAIN b : b[i].part # "rest" /\ IsAsk(b[i].packet)}

AnswersIn(c) == {i \in DOMAIN c : IsAnswer(c[i])}

\* The packets under way, h in the hands of the receive thread.
Underway(b, c, h) ==
    {b[i].packet : i \in AsksIn(b)} \cup {c[i] : i \in AnswersIn(c)} \cup {p \in {h} : IsAnswer(p)}

\* No packet under way has this id.
Fresh(id, b, c, h) == \A p \in Underway(b, c, h) : p.id # id

\* Of each id there is one packet under way.
Alone(b, c, h) ==
    /\ \A i \in AsksIn(b) : \A k \in AsksIn(b) : b[i].packet.id = b[k].packet.id => i = k
    /\ \A i \in AnswersIn(c) : \A k \in AnswersIn(c) : c[i].id = c[k].id => i = k
    /\ \A i \in AsksIn(b) : \A k \in AnswersIn(c) : b[i].packet.id # c[k].id
    /\ IsAnswer(h) => /\ \A i \in AsksIn(b) : b[i].packet.id # h.id
                      /\ \A k \in AnswersIn(c) : c[k].id # h.id

\* What was written and the broker may still answer.
Out == IF link = "open" THEN toBroker ELSE <<>>

\* The requests that wait for an answer.
Waits == Acknowledged \cap ToSet(responses)

\* What a packet of the conversation about j says of it.
Fits(p, j) ==
    /\ p.type = "PUBLISH" => p.about = j /\ kind[j] \in {"pub1", "pub2"}
    /\ p.type = "SUBSCRIBE" => p.about = j /\ kind[j] = "sub"
    /\ p.type = "PUBACK" => kind[j] = "pub1"
    /\ p.type \in {"PUBREC", "PUBREL", "PUBCOMP"} => kind[j] = "pub2"
    /\ p.type \in {"SUBACK", "SUBACK_BAD"} => kind[j] = "sub"
    /\ p.type \in {"PUBACK", "PUBCOMP", "SUBACK"} => accepted[j] > 0
    /\ p.type \in {"PUBREL", "PUBCOMP"} =>
          \A i \in DOMAIN outbound : outbound[i].job = j => outbound[i].next = "PUBCOMP"
    /\ p.type = "PUBCOMP" => \A r \in released : r.id # p.id

Belongs(p) == \E j \in Waits : token[j] = p.id /\ Fits(p, j)

\* In a session every packet under way is about a request that waits, and the
\* only one about it.  Before the session nothing is under way, and an answer
\* of the last one that is still held finds no request.
Conversation ==
    IF connected
    THEN /\ \A p \in Underway(Out, toClient, held) : Belongs(p)
         /\ Alone(Out, toClient, held)
    ELSE /\ Underway(Out, toClient, NoPacket) = {}
         /\ IsAnswer(held) => responses = <<>>

\* What the broker keeps of QoS 2 since it has read CONNECT.
ConnectsIn(b) == {i \in DOMAIN b : b[i].part # "rest" /\ b[i].packet.type = "CONNECT"}

ReleasedFits ==
    link = "open" /\ ConnectsIn(toBroker) = {} =>
        \A r \in released : connected /\ r.job \in Waits /\ kind[r.job] = "pub2" /\ token[r.job] = r.id

\* A disconnect is processed before any request.
Closing ==
    /\ processing = none
    /\ \E i \in DOMAIN commands : /\ Kind(commands[i].job) = "dis"
                                  /\ \A k \in 1 .. i - 1 : Kind(commands[k].job) = "con"

\* The publications in flight in a session: their ids differ, they wait for an
\* answer or are about to be forgotten, and for one that fits their kind.
Flown ==
    /\ \A i \in DOMAIN outbound : \A k \in DOMAIN outbound :
          token[outbound[i].job] = token[outbound[k].job] => i = k
    /\ \A i \in DOMAIN outbound : outbound[i].job \in ToSet(responses) \/ Closing
    /\ \A i \in DOMAIN outbound : IF kind[outbound[i].job] = "pub1" THEN outbound[i].next = "PUBACK"
                                  ELSE outbound[i].next \in {"PUBREC", "PUBCOMP"}

FlightFits ==
    /\ up => JobsOf(outbound) = {f.about : f \in FilesOf("s")}
    /\ connected => Flown

\* Those told of success have been accepted.
Told == \A j \in Acknowledged : outcome[j] = "success" => accepted[j] > 0

TalkInv == crossed = {} /\ ~misplaced => Conversation /\ ReleasedFits /\ FlightFits /\ Told

\* What holds of the link, the ids and the files whatever the ids in flight.
LinkInv ==
    /\ connected => connect_state = 0 /\ link \in {"open", "reset"}
    /\ link = "connecting" => ~connected /\ connect_state = 1 /\ toBroker = <<>>
    /\ link # "open" => toClient = <<>>
    /\ ConnectsIn(toBroker) \subseteq {1}

IdGiven ==
    /\ \A j \in Acknowledged : caller[j] \in {"assigned", "queued"} => token[j] # 0
    /\ \A p \in Offered : p.type = "PUBLISH" /\ p.id = 0 => p.about \in Jobs /\ kind[p.about] = "pub0"

InFlightFiles ==
    /\ \A i \in DOMAIN outbound : /\ caller[outbound[i].job] \in {"queued", "gone"}
                                  /\ kind[outbound[i].job] \in {"pub1", "pub2"}
    /\ \A f \in FilesOf("s") : /\ caller[f.about] \in {"queued", "gone"}
                               /\ kind[f.about] \in {"pub1", "pub2"}
                               /\ f.id = token[f.about]

QueueFiles == up /\ ~misplaced => \A j \in Jobs \cap JobsOf(commands) : kind[j] # "dis" => j \in FileJobs

ReceivedFiles == up => inbound = {[id |-> f.id, about |-> f.about] : f \in FilesOf("r")}

BrokerInv ==
    /\ accepted \in [Jobs -> Nat]
    /\ released \subseteq [id : Nat, job : Nat]
    /\ held.type \in {"none", "CONNACK", "REFUSED", "SUBACK", "SUBACK_BAD"}

TalkBase == LinkInv /\ IdGiven /\ InFlightFiles /\ QueueFiles /\ ReceivedFiles /\ BrokerInv

ConversationInv == TalkBase /\ TalkInv
=============================================================================
