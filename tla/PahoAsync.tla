------------------------------ MODULE PahoAsync ------------------------------
(***************************************************************************)
(* The asynchronous MQTT client of lib/MQTTAsync.c with its protocol and   *)
(* persistence layers, as IOTP_Client uses it through async_client: one    *)
(* client, clean sessions, the default file store, MQTT 3.1.1 tried before *)
(* 3.1, no retry interval and no automatic reconnect.                      *)
(* Application threads put commands on a queue, the send thread takes them *)
(* off it, and the receive thread reads packets.  An operation under       *)
(* mqttasync_mutex is one action, except that the send thread takes a      *)
(* command off the queue and its file off the store in one action and      *)
(* sends it in another, and notes a cut write in two more: the process may *)
(* die between them, and calls and select go on.  What happens outside the *)
(* mutex is an action of its own: the check of connected, the reading of   *)
(* the message id given last and the insertion in the queue by the         *)
(* application, select and the continuation of a cut write by the receive  *)
(* thread, and its two visits to the mutex per packet.                     *)
(* A job is one call of the API and stands for its token as well.          *)
(***************************************************************************)
EXTENDS PahoSocket, FiniteSets, SequencesExt

CONSTANTS
    Jobs,       \* calls of publish, subscribe, unsubscribe and disconnect, numbered as they are made
    Calls,      \* calls of connect, numbered as they are made
    Inbound,    \* messages the broker has for this client, by their message ids
    MaxMsgId,   \* MAX_MSG_ID, 65535 in the code
    MaxEvents   \* bound: jobs, messages, partial writes, broken connections, crashes, timeouts, probes, in any mixture

ASSUME MsgIdAssumption == MaxMsgId \in Nat \ {0}

ASSUME JobsAssumption == /\ Jobs \cap Calls = {}
                         /\ Jobs \cup Calls \subseteq Nat \ {0}
                         /\ Inbound \subseteq Nat \ {0}

VARIABLES
    kind,             \* what each job is, chosen when the call is made and not refused
    caller,           \* where the thread that makes the call is
    token,            \* the message id of a job, 0 if none; while its caller seeks one, the id it starts from
    outcome,          \* what the job's callbacks have been told
    commands,         \* the command queue, each with the MQTT version tried last
    responses,        \* m->responses: jobs sent and waiting for an answer
    outbound,         \* c->outboundMsgs, each with the packet awaited next
    inbound,          \* c->inboundMsgs: QoS 2 messages waiting for PUBREL
    store,            \* the files of the persistent store
    msgID,            \* c->msgID: the message id given last
    connected,        \* c->connected
    connect_state,    \* c->connect_state: 0, 1 TCP, 3 CONNECT sent
    connect,          \* m->connect: the connect command under way
    ping_outstanding, \* c->ping_outstanding
    pending_write,    \* m->pending_write: the QoS 0 job whose write is cut
    processing,       \* the command that processCommand has taken off the queue and not sent yet
    stage,            \* how far it is: taken, its QoS 0 write cut, or noted in pending_write
    rcv,              \* the receive thread: selecting, told of a ready socket, failed, or holding a packet
    held,             \* the packet it holds
    up,               \* the process runs
    released,         \* broker: publications of QoS 2 not released yet
    session,          \* broker: the client has a session
    sent,             \* broker: how far each inbound message has come
    accepted,         \* history: how often the broker took each publication
    delivered,        \* history: how often each inbound message was delivered
    crossed,          \* history: jobs not queued yet when another was given their id
    misplaced,        \* history: writeComplete freed another job's response
    events            \* how many of the events that MaxEvents bounds may still happen

appVars    == <<kind, caller, token, outcome, crossed>>
queueVars  == <<commands, responses, outbound, inbound, store, msgID>>
connVars   == <<connected, connect_state, connect, ping_outstanding>>
threadVars == <<pending_write, processing, stage, rcv, held, misplaced>>
brokerVars == <<released, session, sent, accepted>>
vars == <<appVars, queueVars, connVars, threadVars, brokerVars, sockVars, up, delivered, events>>

AllJobs == Jobs \cup Calls

\* No job; as the job of a command, an internal disconnect.
none == 0

Kinds == {"pub0", "pub1", "pub2", "sub", "dis"}
Publishes == {"pub0", "pub1", "pub2"}

Packet(type, id, about) == [type |-> type, id |-> id, about |-> about]

NoPacket == Packet("none", 0, none)

Command(job, version) == [job |-> job, version |-> version]

Kind(job) == IF job = none THEN "dis" ELSE kind[job]

\* The type of the command, as MQTTAsync_addCommand compares it.
IsFirst(job) == job = none \/ Kind(job) = "con"

JobsOf(q) == {q[i].job : i \in DOMAIN q} \ {none}

-----------------------------------------------------------------------------
Init ==
    /\ kind = [j \in AllJobs |-> IF j \in Calls THEN "con" ELSE "unmade"]
    /\ caller = [j \in AllJobs |-> "idle"]
    /\ token = [j \in AllJobs |-> 0]
    /\ outcome = [j \in AllJobs |-> "none"]
    /\ commands = <<>>
    /\ responses = <<>>
    /\ outbound = <<>>
    /\ inbound = {}
    /\ store = {}
    /\ msgID = 0
    /\ connected = FALSE
    /\ connect_state = 0
    /\ connect = [job |-> none, version |-> 0, armed |-> FALSE]
    /\ ping_outstanding = FALSE
    /\ pending_write = none
    /\ processing = none
    /\ stage = "idle"
    /\ rcv = "select"
    /\ held = NoPacket
    /\ up = TRUE
    /\ released = {}
    /\ session = FALSE
    /\ sent = [m \in Inbound |-> "unsent"]
    /\ accepted = [j \in Jobs |-> 0]
    /\ delivered = [m \in Inbound |-> 0]
    /\ crossed = {}
    /\ misplaced = FALSE
    /\ SocketInit
    /\ events = MaxEvents

-----------------------------------------------------------------------------
(* Callbacks, queue and store.                                             *)

\* The callbacks of these jobs are called.  A command restored after a crash
\* has none.
Tell(told, jobs, what) ==
    [j \in AllJobs |-> IF j \notin jobs \/ caller[j] # "queued" THEN told[j]
                       ELSE IF told[j] = "none" THEN what ELSE "again"]

\* MQTTAsync_addCommand: a connect or an internal disconnect goes to the
\* head, and is dropped when the head is of its type.
Added(c, q) ==
    IF ~IsFirst(c.job) THEN Append(q, c)
    ELSE IF q # <<>> /\ (Kind(Head(q).job) = "con") = (Kind(c.job) = "con")
                     /\ Kind(Head(q).job) \in {"con", "dis"}
         THEN q ELSE <<c>> \o q

\* Mutant: a failed connection is not closed.
disconnect_internal_None == commands

\* MQTTAsync_disconnect_internal.
disconnect_internal == IF connected THEN Added(Command(none, 0), commands) ELSE commands

\* The files: commands not processed yet, publications sent and not
\* acknowledged, PUBRELs, and QoS 2 messages received and not released.
File(key, id, about) == [key |-> key, id |-> id, about |-> about]

\* MQTTPersistence_put: a file of this key and id is replaced.
Put(files, f) == {g \in files : g.key # f.key \/ g.id # f.id} \cup {f}

\* MQTTPersistence_remove of a publication, with its PUBREL, or of a message
\* received.
Removed(keys, id) == {f \in store : f.key \notin keys \/ f.id # id}

\* MQTTAsync_persistCommand writes PUBLISH, SUBSCRIBE and UNSUBSCRIBE.
Persisted(j) == IF kind[j] \in {"con", "dis"} THEN {} ELSE {File("c", token[j], j)}

\* Mutant: the commands and responses are freed and nobody is told.
removeResponsesAndCommands_Silent(q) == outcome

\* MQTTAsync_removeResponsesAndCommands with command queue q: every job that
\* waits is told of a failure.
removeResponsesAndCommands(q) == Tell(outcome, ToSet(responses) \cup JobsOf(q), "failure")

\* MQTTAsync_cleanSession: everything is forgotten; then job is told what
\* became of it.
cleanSession(q, job, what) ==
    /\ store' = {}
    /\ inbound' = {}
    /\ outbound' = <<>>
    /\ msgID' = 0
    /\ responses' = <<>>
    /\ commands' = <<>>
    /\ outcome' = Tell(removeResponsesAndCommands(q), {job}, what)

\* MQTTAsync_closeOnly.
closeOnly ==
    /\ Socket_close(connected, Packet("DISCONNECT", 0, none))
    /\ connected' = FALSE
    /\ connect_state' = 0
    /\ ping_outstanding' = FALSE

\* MQTTAsync_closeSession.
closeSession(q, job, what) ==
    /\ closeOnly
    /\ cleanSession(q, job, what)

\* MQTTAsync_checkConn: after MQTT 3.1.1 comes 3.1.
checkConn(version) == version = 4

\* A connection attempt has failed: the command returns to the queue or is
\* told, and the session closed.
ConnectFails ==
    /\ \/ /\ checkConn(connect.version)
          /\ closeOnly
          /\ commands' = Added(Command(connect.job, 4), commands)
          /\ UNCHANGED <<responses, outbound, inbound, store, msgID, outcome>>
       \/ /\ ~checkConn(connect.version)
          /\ closeSession(commands, connect.job, "failure")
    /\ UNCHANGED connect

\* Something happens that MaxEvents bounds.
Costs(n) ==
    /\ events >= n
    /\ events' = events - n

\* A write that the kernel takes only in part counts as one of them.
Cost(rc) == IF rc = "interrupted" THEN 1 ELSE 0

\* An operation under mqttasync_mutex.
Locked == up /\ processing = none

-----------------------------------------------------------------------------
(* Application threads.                                                    *)

\* The next call is j.
Begins(j, all) ==
    /\ up
    /\ caller[j] = "idle"
    /\ \A i \in all : i < j => caller[i] # "idle"

\* MQTTAsync_connect: sets the callbacks of m->connect, then queues the
\* command.
Connect(j) ==
    /\ Begins(j, Calls)
    /\ caller' = [caller EXCEPT ![j] = "queued"]
    /\ connect' = [connect EXCEPT !.job = j, !.armed = TRUE]
    /\ commands' = Added(Command(j, 0), commands)
    /\ UNCHANGED <<kind, token, outcome, crossed, responses, outbound, inbound, store, msgID, connected,
                   connect_state, ping_outstanding, threadVars, brokerVars, sockVars, up, delivered, events>>

\* MQTTAsync_send, MQTTAsync_subscribeMany, MQTTAsync_unsubscribeMany and
\* MQTTAsync_disconnect1 look at connected without the mutex.
CheckConnected(j, k) ==
    /\ Begins(j, Jobs)
    /\ Costs(1)
    /\ \/ /\ ~connected
          /\ caller' = [caller EXCEPT ![j] = "refused"]
          /\ UNCHANGED kind
       \/ /\ connected
          /\ kind' = [kind EXCEPT ![j] = k]
          /\ caller' = [caller EXCEPT ![j] = IF k \in {"pub0", "dis"} THEN "assigned" ELSE "checked"]
    /\ UNCHANGED <<token, outcome, crossed, queueVars, connVars, threadVars, brokerVars, sockVars, up, delivered>>

\* MQTTAsync_assignMsgId reads the id given last before it locks the mutex:
\* when it has the mutex, another call may have been given the next one.
ReadMsgId(j) ==
    /\ up
    /\ caller[j] = "checked"
    /\ token' = [token EXCEPT ![j] = msgID]
    /\ caller' = [caller EXCEPT ![j] = "numbering"]
    /\ UNCHANGED <<kind, outcome, crossed, queueVars, connVars, threadVars, brokerVars, sockVars, up, delivered,
                   events>>

\* Mutant: the search does not look at the responses.
UsedIds_Queued == {token[j] : j \in JobsOf(commands)}

UsedIds == {token[j] : j \in JobsOf(commands) \cup ToSet(responses)}

\* The ids in the order they are tried.  The search gives up when it is back
\* at the id it started from, which it does not look at.
Tried(start, i) == ((start + i - 1) % MaxMsgId) + 1

Free(start, id) == id # start /\ id \notin UsedIds

\* The jobs that have this id and are not queued yet, so that it is not seen
\* to be in use.
Unseen(id) == {j \in Jobs : caller[j] = "assigned" /\ token[j] = id}

\* Under the mutex: the first id that is free.  A search that starts from 0,
\* no id having been given in the session, never ends when none is free.
AssignMsgId(j) ==
    /\ Locked
    /\ caller[j] = "numbering"
    /\ \/ \E i \in 1..MaxMsgId :
             /\ Free(token[j], Tried(token[j], i))
             /\ \A k \in 1..(i - 1) : ~Free(token[j], Tried(token[j], k))
             /\ token' = [token EXCEPT ![j] = Tried(token[j], i)]
             /\ msgID' = Tried(token[j], i)
             /\ crossed' = crossed \cup Unseen(Tried(token[j], i))
             /\ caller' = [caller EXCEPT ![j] = "assigned"]
       \/ /\ \A i \in 1..MaxMsgId : ~Free(token[j], Tried(token[j], i))
          /\ token[j] # 0
          /\ token' = [token EXCEPT ![j] = 0]
          /\ caller' = [caller EXCEPT ![j] = "refused"]
          /\ UNCHANGED <<crossed, msgID>>
    /\ UNCHANGED <<kind, outcome, commands, responses, outbound, inbound, store, connVars, threadVars, brokerVars,
                   sockVars, up, delivered, events>>

\* MQTTAsync_addCommand, under mqttcommand_mutex.
AddCommand(j) ==
    /\ up
    /\ caller[j] = "assigned"
    /\ caller' = [caller EXCEPT ![j] = "queued"]
    /\ commands' = Added(Command(j, 0), commands)
    /\ store' = store \cup Persisted(j)
    /\ UNCHANGED <<kind, token, outcome, crossed, responses, outbound, inbound, msgID, connVars, threadVars,
                   brokerVars, sockVars, up, delivered, events>>

-----------------------------------------------------------------------------
(* The send thread.                                                        *)

\* The first command, if MQTTAsync_processCommand may process it now.
Takes(c) ==
    /\ Locked
    /\ commands # <<>>
    /\ c = Head(commands)
    /\ \/ Kind(c.job) \in {"con", "dis"}
       \/ connected /\ connect_state = 0 /\ ~write_pending /\ Len(outbound) < MaxMsgId - 1

\* Mutant: the file of a command that was processed stays.
Unpersisted_Kept(j) == store

Unpersisted(j) == store \ {f \in store : f.key = "c" /\ f.about = j}

\* A publication or request is taken off the queue and its file removed.
\* Then mqttcommand_mutex is free again.
TakeCommand ==
    \E c \in ToSet(commands) :
        /\ Takes(c)
        /\ Kind(c.job) \notin {"con", "dis"}
        /\ processing' = c.job
        /\ stage' = "taken"
        /\ commands' = Tail(commands)
        /\ store' = Unpersisted(c.job)
        /\ UNCHANGED <<appVars, responses, outbound, inbound, msgID, connVars, pending_write, rcv, held, misplaced,
                       brokerVars, sockVars, up, delivered, events>>

\* The rest of processCommand with a command of one of these kinds.
Processes(kinds) ==
    /\ up
    /\ stage = "taken"
    /\ kind[processing] \in kinds

\* CONNECT.  While a connection exists or is being made the command only
\* replaces m->connect.
ProcessConnect ==
    \E c \in ToSet(commands) :
        /\ Takes(c)
        /\ Kind(c.job) = "con"
        /\ LET version == IF c.version = 0 THEN 4 ELSE 3
           IN  \/ /\ connected \/ connect_state # 0
                  /\ connect' = [job |-> c.job, version |-> c.version, armed |-> TRUE]
                  /\ commands' = Tail(commands)
                  /\ UNCHANGED <<outcome, connect_state, sockVars, events>>
               \/ /\ ~connected /\ connect_state = 0
                  /\ Socket_new
                  /\ connect_state' = 1
                  /\ connect' = [job |-> c.job, version |-> version, armed |-> TRUE]
                  /\ commands' = Tail(commands)
                  /\ UNCHANGED <<outcome, events>>
               \/ /\ ~connected /\ connect_state = 0       \* Socket_new fails
                  /\ Costs(1)
                  /\ IF checkConn(version)
                        THEN commands' = Added(Command(c.job, 4), Tail(commands)) /\ UNCHANGED outcome
                        ELSE commands' = Tail(commands) /\ outcome' = Tell(outcome, {c.job}, "failure")
                  /\ UNCHANGED <<connect, connect_state, sockVars>>
    /\ UNCHANGED <<kind, caller, token, crossed, responses, outbound, inbound, store, msgID, connected,
                   ping_outstanding, threadVars, brokerVars, up, delivered>>

\* MQTTAsync_checkDisconnect with no time to wait for messages in flight.
checkDisconnect(c) == closeSession(Tail(commands), c.job, "success")

\* DISCONNECT.  When there is no session the command is forgotten.
ProcessDisconnect ==
    \E c \in ToSet(commands) :
        /\ Takes(c)
        /\ Kind(c.job) = "dis"
        /\ \/ /\ connected \/ connect_state # 0
              /\ checkDisconnect(c)
           \/ /\ ~connected /\ connect_state = 0
              /\ commands' = Tail(commands)
              /\ UNCHANGED <<outcome, responses, outbound, inbound, store, msgID, connected, connect_state,
                             ping_outstanding, sockVars>>
    /\ UNCHANGED <<kind, caller, token, crossed, connect, threadVars, brokerVars, up, delivered, events>>

\* PUBLISH at QoS 0: told of success when the packet is written.  A cut
\* write leaves the job to writeComplete; after an error pending_write holds
\* the freed command and nobody is told.
ProcessPublish0 ==
    \E rc \in Results :
        /\ Processes({"pub0"})
        /\ Costs(Cost(rc))
        /\ Socket_putdatas(Packet("PUBLISH", 0, processing), rc)
        /\ outcome' = IF rc = "complete" THEN Tell(outcome, {processing}, "success") ELSE outcome
        /\ processing' = IF rc = "interrupted" THEN processing ELSE none
        /\ stage' = IF rc = "interrupted" THEN "cut" ELSE "idle"
        /\ pending_write' = IF rc = "error" THEN processing ELSE pending_write
        /\ UNCHANGED <<kind, caller, token, crossed, queueVars, connVars, rcv, held, misplaced, brokerVars,
                       link, stale, toClient, up, delivered>>

\* After a cut write the command is put in pending_write, and then in the
\* responses.  The receive thread may have completed the write before the
\* first, or between the two.
NotePendingWrite ==
    /\ up
    /\ stage = "cut"
    /\ pending_write' = processing
    /\ stage' = "noted"
    /\ UNCHANGED <<appVars, queueVars, connVars, processing, rcv, held, misplaced, brokerVars, sockVars, up,
                   delivered, events>>

Register ==
    /\ up
    /\ stage = "noted"
    /\ responses' = Append(responses, processing)
    /\ processing' = none
    /\ stage' = "idle"
    /\ UNCHANGED <<appVars, commands, outbound, inbound, store, msgID, connVars, pending_write, rcv, held,
                   misplaced, brokerVars, sockVars, up, delivered, events>>

\* MQTTProtocol_createMessage.
createMessage(j) == [job |-> j, next |-> IF kind[j] = "pub2" THEN "PUBREC" ELSE "PUBACK"]

\* PUBLISH at QoS 1 and 2, SUBSCRIBE and UNSUBSCRIBE.  A publication is kept
\* in outboundMsgs and in the store before it is written.  After an error
\* the job is told and the client disconnects.
ProcessRequest ==
    \E rc \in Results :
        LET isPublish == kind[processing] \in {"pub1", "pub2"}
        IN  /\ Processes({"pub1", "pub2", "sub"})
            /\ Costs(Cost(rc))
            /\ Socket_putdatas(
                   Packet(IF isPublish THEN "PUBLISH" ELSE "SUBSCRIBE", token[processing], processing), rc)
            /\ outbound' = IF isPublish THEN Append(outbound, createMessage(processing)) ELSE outbound
            /\ store' = IF isPublish THEN Put(store, File("s", token[processing], processing)) ELSE store
            /\ \/ /\ rc # "error"
                  /\ responses' = Append(responses, processing)
                  /\ UNCHANGED <<commands, outcome>>
               \/ /\ rc = "error"
                  /\ commands' = disconnect_internal
                  /\ outcome' = Tell(outcome, {processing}, "failure")
                  /\ UNCHANGED responses
    /\ processing' = none
    /\ stage' = "idle"
    /\ UNCHANGED <<kind, caller, token, crossed, inbound, msgID, connVars, pending_write, rcv, held, misplaced,
                   brokerVars, link, stale, toClient, up, delivered>>

\* MQTTAsync_checkTimeouts: a connection attempt takes too long.
ConnectTimesOut ==
    /\ Locked
    /\ connect_state # 0
    /\ Costs(1)
    /\ ConnectFails
    /\ UNCHANGED <<kind, caller, token, crossed, threadVars, brokerVars, up, delivered>>

-----------------------------------------------------------------------------
(* The receive thread.                                                     *)

\* Socket_getReadySocket, under socket_mutex only: the connection is ready
\* when it can be read and no write is pending, or when connect has ended.
Select ==
    /\ up
    /\ rcv = "select"
    /\ \/ link = "connecting"
       \/ link = "open" /\ toClient # <<>> /\ ~write_pending
       \/ link = "reset" /\ ~write_pending
    /\ rcv' = "ready"
    /\ UNCHANGED <<appVars, queueVars, connVars, pending_write, processing, stage, held, misplaced, brokerVars,
                   sockVars, up, delivered, events>>

\* MQTTAsync_writeComplete, from the same select, after the rest of a cut
\* write: the pending QoS 0 job is told, and the first response is freed in
\* place of the job's own.  With no response, or when the job has been freed
\* by a disconnect, the process reads freed or null memory.
ContinueWrite ==
    /\ up
    /\ Socket_continueWrites
    /\ \/ /\ pending_write = none
          /\ UNCHANGED <<outcome, responses, misplaced>>
       \/ /\ pending_write # none /\ responses # <<>>
          /\ outcome' = IF pending_write \in ToSet(responses) \cup {processing}
                           THEN Tell(outcome, {pending_write}, "success") ELSE outcome
          /\ responses' = Tail(responses)
          /\ misplaced' = (misplaced \/ Head(responses) # pending_write)
    /\ pending_write' = none
    /\ UNCHANGED <<kind, caller, token, crossed, commands, outbound, inbound, store, msgID, connVars, processing,
                   stage, rcv, held, brokerVars, link, stale, toClient, up, delivered, events>>

\* The rest of MQTTAsync_cycle needs mqttasync_mutex.
Cycles == Locked /\ rcv = "ready"

\* The socket has been closed, or replaced by one that has nothing to read.
NothingToRead ==
    /\ Cycles
    /\ link = "closed" \/ (link = "open" /\ toClient = <<>>)
    /\ rcv' = "select"
    /\ UNCHANGED <<appVars, queueVars, connVars, pending_write, processing, stage, held, misplaced, brokerVars,
                   sockVars, up, delivered, events>>

\* MQTTAsync_connecting: the TCP connection is made, and CONNECT sent.
Connecting ==
    /\ Cycles
    /\ link = "connecting"
    /\ link' = "open"
    /\ connect_state' = 3
    /\ rcv' = "select"
    /\ \/ /\ toBroker' = Append(toBroker, Piece("whole", Packet("CONNECT", 0, none)))
          /\ UNCHANGED <<write_pending, writes, events>>
       \/ /\ Costs(1)
          /\ toBroker' = Append(toBroker, Piece("front", Packet("CONNECT", 0, none)))
          /\ pendingWrite(Packet("CONNECT", 0, none))
    /\ UNCHANGED <<appVars, queueVars, connected, connect, ping_outstanding, pending_write, processing, stage,
                   held, misplaced, brokerVars, toClient, stale, up, delivered>>

\* The connection attempt fails in connecting, or CONNECT has been sent and
\* the read fails; then the thread still goes on to AfterFailure.
ConnectBreaks ==
    /\ Cycles
    /\ link = "reset"
    /\ connect_state # 0
    /\ ConnectFails
    /\ rcv' = IF connect_state = 3 THEN "failed" ELSE "select"
    /\ UNCHANGED <<kind, caller, token, crossed, pending_write, processing, stage, held, misplaced, brokerVars, up,
                   delivered, events>>

\* The read fails in a session; the thread has let go of the mutex when it
\* looks at the result.
ReadFails ==
    /\ Cycles
    /\ link = "reset"
    /\ connect_state = 0
    /\ rcv' = "failed"
    /\ UNCHANGED <<appVars, queueVars, connVars, pending_write, processing, stage, held, misplaced, brokerVars,
                   sockVars, up, delivered, events>>

\* MQTTAsync_receiveThread after SOCKET_ERROR.
AfterFailure ==
    /\ Locked
    /\ rcv = "failed"
    /\ rcv' = "select"
    /\ \/ /\ link = "closed"
          /\ UNCHANGED <<commands, connected, connect_state, ping_outstanding, sockVars>>
       \/ /\ link # "closed" /\ connected
          /\ commands' = disconnect_internal
          /\ UNCHANGED <<connected, connect_state, ping_outstanding, sockVars>>
       \/ /\ link # "closed" /\ ~connected
          /\ closeOnly
          /\ UNCHANGED commands
    /\ UNCHANGED <<appVars, responses, outbound, inbound, store, msgID, connect, pending_write, processing, stage,
                   held, misplaced, brokerVars, up, delivered, events>>

\* A packet is read.
Reads(p) ==
    /\ Cycles
    /\ link = "open"
    /\ toClient # <<>>
    /\ p = Head(toClient)
    /\ toClient' = Tail(toClient)

\* CONNACK and SUBACK leave the cycle: the thread lets go of the mutex and
\* takes it again before it handles them.
HoldPacket ==
    \E p \in ToSet(toClient) :
        /\ Reads(p)
        /\ p.type \in {"CONNACK", "REFUSED", "SUBACK", "SUBACK_BAD"}
        /\ held' = p
        /\ rcv' = "holds"
        /\ UNCHANGED <<appVars, queueVars, connVars, pending_write, processing, stage, misplaced, brokerVars,
                       link, stale, write_pending, writes, toBroker, up, delivered, events>>

\* Mutant: the session is taken for one that goes on.
ReceiveConnack_KeepsSession ==
    /\ Locked
    /\ rcv = "holds"
    /\ held.type \in {"CONNACK", "REFUSED"}
    /\ rcv' = "select"
    /\ held' = NoPacket
    /\ link # "closed" /\ connect_state = 3 /\ held.type = "CONNACK"
    /\ connected' = TRUE
    /\ connect_state' = 0
    /\ outcome' = Tell(outcome, {connect.job}, "success")
    /\ connect' = [connect EXCEPT !.armed = FALSE]
    /\ UNCHANGED <<kind, caller, token, crossed, queueVars, ping_outstanding, pending_write, processing, stage,
                   misplaced, brokerVars, sockVars, up, delivered, events>>

\* MQTTAsync_completeConnection and what follows it.
ReceiveConnack ==
    /\ Locked
    /\ rcv = "holds"
    /\ held.type \in {"CONNACK", "REFUSED"}
    /\ rcv' = "select"
    /\ held' = NoPacket
    /\ \/ /\ link = "closed"
          /\ UNCHANGED <<outcome, queueVars, connVars, sockVars>>
       \/ /\ link # "closed" /\ connect_state = 3 /\ held.type = "CONNACK"
          /\ connected' = TRUE
          /\ connect_state' = 0
          /\ cleanSession(commands, IF connect.armed THEN connect.job ELSE none, "success")
          /\ connect' = [connect EXCEPT !.armed = FALSE]
          /\ UNCHANGED <<ping_outstanding, sockVars>>
       \/ /\ link # "closed" /\ ~(connect_state = 3 /\ held.type = "CONNACK")
          /\ ConnectFails
    /\ UNCHANGED <<kind, caller, token, crossed, pending_write, processing, stage, misplaced, brokerVars, up,
                   delivered, events>>

\* Mutant: the message id is not compared.
Answers_Any(id) == DOMAIN responses

\* The responses that a packet answers, by message id only.
Answers(id) == {i \in DOMAIN responses : token[responses[i]] = id}

\* Mutant: the response is told and not detached.
Answered_Kept(id, what) ==
    IF Answers(id) = {} THEN UNCHANGED <<responses, outcome>>
    ELSE LET i == CHOOSE i \in Answers(id) : \A k \in Answers(id) : i <= k
         IN  /\ outcome' = Tell(outcome, {responses[i]}, what)
             /\ UNCHANGED responses

\* The first response with this id is detached and told.
Answered(id, what) ==
    IF Answers(id) = {} THEN UNCHANGED <<responses, outcome>>
    ELSE LET i == CHOOSE i \in Answers(id) : \A k \in Answers(id) : i <= k
         IN  /\ responses' = RemoveAt(responses, i)
             /\ outcome' = Tell(outcome, {responses[i]}, what)

\* SUBACK (and UNSUBACK).  The broker may have refused the subscription.
ReceiveSuback ==
    /\ Locked
    /\ rcv = "holds"
    /\ held.type \in {"SUBACK", "SUBACK_BAD"}
    /\ rcv' = "select"
    /\ held' = NoPacket
    /\ IF link = "closed" THEN UNCHANGED <<responses, outcome>>
       ELSE Answered(held.id, IF held.type = "SUBACK" THEN "success" ELSE "failure")
    /\ UNCHANGED <<kind, caller, token, crossed, commands, outbound, inbound, store, msgID, connVars,
                   pending_write, processing, stage, misplaced, brokerVars, sockVars, up, delivered, events>>

\* The first message with this id is the one awaiting this packet.
Waiting(id, next) ==
    {i \in DOMAIN outbound : /\ token[outbound[i].job] = id
                             /\ \A k \in 1..(i - 1) : token[outbound[k].job] # id
                             /\ outbound[i].next = next}

\* MQTTProtocol_handlePubacks and handlePubcomps, then the response.
HandlePuback ==
    \E p \in ToSet(toClient) :
        /\ Reads(p)
        /\ p.type \in {"PUBACK", "PUBCOMP"}
        /\ \/ /\ Waiting(p.id, p.type) = {}
              /\ UNCHANGED <<outbound, store>>
           \/ \E i \in Waiting(p.id, p.type) :
                 /\ outbound' = RemoveAt(outbound, i)
                 /\ store' = Removed({"s", "sc"}, p.id)
        /\ Answered(p.id, "success")
        /\ rcv' = "select"
        /\ UNCHANGED <<kind, caller, token, crossed, commands, inbound, msgID, connVars, pending_write,
                       processing, stage, held, misplaced, brokerVars, link, stale, write_pending, writes,
                       toBroker, up, delivered, events>>

\* MQTTProtocol_handlePubrecs: PUBREL is stored and sent.
HandlePubrec ==
    \E p \in ToSet(toClient) :
        /\ Reads(p)
        /\ p.type = "PUBREC"
        /\ \/ /\ Waiting(p.id, "PUBREC") = {}
              /\ rcv' = "select"
              /\ UNCHANGED <<outbound, store, write_pending, writes, toBroker, events>>
           \/ \E i \in Waiting(p.id, "PUBREC"), rc \in Results :
                 /\ Costs(Cost(rc))
                 /\ Socket_putdatas(Packet("PUBREL", p.id, outbound[i].job), rc)
                 /\ outbound' = [outbound EXCEPT ![i].next = "PUBCOMP"]
                 /\ store' = store \cup {File("sc", p.id, none)}
                 /\ rcv' = IF rc = "error" THEN "failed" ELSE "select"
        /\ UNCHANGED <<appVars, commands, responses, inbound, msgID, connVars, pending_write, processing, stage,
                       held, misplaced, brokerVars, link, stale, up, delivered>>

\* Protocol_processPublication: the application's message_arrived is called.
processPublication(m) == delivered' = [delivered EXCEPT ![m] = @ + 1]

\* MQTTProtocol_handlePublishes.  At QoS 1 PUBACK is sent and the message
\* delivered, whether PUBACK could be sent or not.
HandlePublish1 ==
    \E p \in ToSet(toClient), rc \in Results :
        /\ Reads(p)
        /\ Costs(Cost(rc))
        /\ p.type = "PUBLISH1"
        /\ Socket_putdatas(Packet("PUBACK", p.id, p.about), rc)
        /\ processPublication(p.about)
        /\ rcv' = IF rc = "error" THEN "failed" ELSE "select"
        /\ UNCHANGED <<appVars, queueVars, connVars, pending_write, processing, stage, held, misplaced,
                       brokerVars, link, stale, up>>

\* Mutant: a QoS 2 message is delivered when it arrives.
HandlePublish2_AtOnce ==
    \E p \in ToSet(toClient) :
        /\ Reads(p)
        /\ p.type = "PUBLISH2"
        /\ Socket_putdatas(Packet("PUBREC", p.id, p.about), "complete")
        /\ processPublication(p.about)
        /\ rcv' = "select"
        /\ UNCHANGED <<appVars, queueVars, connVars, pending_write, processing, stage, held, misplaced,
                       brokerVars, link, stale, up, events>>

\* At QoS 2 the message is stored, kept in place of an earlier one with its
\* id, and answered by PUBREC.
HandlePublish2 ==
    \E p \in ToSet(toClient), rc \in Results :
        /\ Reads(p)
        /\ Costs(Cost(rc))
        /\ p.type = "PUBLISH2"
        /\ Socket_putdatas(Packet("PUBREC", p.id, p.about), rc)
        /\ inbound' = (inbound \ {m \in inbound : m.id = p.id}) \cup {[id |-> p.id, about |-> p.about]}
        /\ store' = Put(store, File("r", p.id, p.about))
        /\ rcv' = IF rc = "error" THEN "failed" ELSE "select"
        /\ UNCHANGED <<appVars, commands, responses, outbound, msgID, connVars, pending_write, processing, stage,
                       held, misplaced, brokerVars, link, stale, up, delivered>>

\* MQTTProtocol_handlePubrels: PUBCOMP is sent, and the message delivered and
\* forgotten.  A PUBREL for no message is answered only when it is a repeat.
HandlePubrel ==
    \E p \in ToSet(toClient), rc \in Results :
        /\ Reads(p)
        /\ Costs(Cost(rc))
        /\ p.type \in {"PUBREL", "PUBREL_DUP"}
        /\ \/ \E m \in inbound :
                 /\ m.id = p.id
                 /\ Socket_putdatas(Packet("PUBCOMP", p.id, m.about), rc)
                 /\ processPublication(m.about)
                 /\ inbound' = inbound \ {m}
                 /\ store' = Removed({"r"}, p.id)
           \/ /\ \A m \in inbound : m.id # p.id
              /\ p.type = "PUBREL_DUP"
              /\ Socket_putdatas(Packet("PUBCOMP", p.id, p.about), rc)
              /\ UNCHANGED <<delivered, inbound, store>>
           \/ /\ \A m \in inbound : m.id # p.id
              /\ p.type = "PUBREL"
              /\ rc = "complete"
              /\ UNCHANGED <<delivered, inbound, store, write_pending, writes, toBroker>>
        /\ rcv' = IF rc = "error" THEN "failed" ELSE "select"
        /\ UNCHANGED <<appVars, commands, responses, outbound, msgID, connVars, pending_write, processing, stage,
                       held, misplaced, brokerVars, link, stale, up>>

\* MQTTProtocol_handlePingresps.
HandlePingresp ==
    \E p \in ToSet(toClient) :
        /\ Reads(p)
        /\ p.type = "PINGRESP"
        /\ ping_outstanding' = FALSE
        /\ rcv' = "select"
        /\ UNCHANGED <<appVars, queueVars, connected, connect_state, connect, pending_write, processing, stage,
                       held, misplaced, brokerVars, link, stale, write_pending, writes, toBroker, up, delivered,
                       events>>

\* MQTTProtocol_keepalive at the end of a cycle, when the keep-alive interval
\* has passed without traffic.
KeepAlive ==
    /\ Locked
    /\ connected
    /\ \/ /\ ~ping_outstanding
          /\ ~write_pending
          /\ \E rc \in Results :
                /\ Costs(1 + Cost(rc))
                /\ Socket_putdatas(Packet("PINGREQ", 0, none), rc)
                /\ ping_outstanding' = (rc = "complete")
                /\ commands' = IF rc = "complete" THEN commands ELSE disconnect_internal
       \/ /\ ping_outstanding
          /\ commands' = disconnect_internal
          /\ Costs(1)
          /\ UNCHANGED <<ping_outstanding, write_pending, writes, toBroker>>
    /\ UNCHANGED <<appVars, responses, outbound, inbound, store, msgID, connected, connect_state, connect,
                   threadVars, brokerVars, link, stale, toClient, up, delivered>>

-----------------------------------------------------------------------------
(* Crash and restart.                                                      *)

\* The process ends; the kernel closes the connection.
Dies ==
    /\ up' = FALSE
    /\ caller' = [j \in AllJobs |-> IF caller[j] = "idle" THEN "idle" ELSE "gone"]
    /\ link' = "closed"
    /\ toClient' = <<>>
    /\ write_pending' = FALSE
    /\ writes' = <<>>
    /\ commands' = <<>>
    /\ responses' = <<>>
    /\ outbound' = <<>>
    /\ inbound' = {}
    /\ msgID' = 0
    /\ connected' = FALSE
    /\ connect_state' = 0
    /\ connect' = [job |-> none, version |-> 0, armed |-> FALSE]
    /\ ping_outstanding' = FALSE
    /\ pending_write' = none
    /\ processing' = none
    /\ stage' = "idle"
    /\ rcv' = "select"
    /\ held' = NoPacket
    /\ UNCHANGED <<kind, token, outcome, crossed, store, misplaced, brokerVars, delivered, toBroker, stale>>

Crash ==
    /\ up
    /\ Costs(1)
    /\ Dies

\* MQTTAsync_writeComplete with no response to free, or with a freed command
\* in pending_write.
WriteCompleteCrashes ==
    /\ up
    /\ write_pending
    /\ link \in {"open", "reset"}
    /\ pending_write # none
    /\ responses = <<>> \/ pending_write \notin ToSet(responses) \cup {processing}
    /\ Dies
    /\ UNCHANGED events

FilesOf(key) == {f \in store : f.key = key}

\* The files in any order: the order of the directory and of
\* MQTTPersistence_insertInOrder, which reads a command as a message.
Listed(files) == {q \in [1..Cardinality(files) -> files] : ToSet(q) = files}

\* MQTTPersistence_restore: publications in flight, with how far they had
\* come, and messages received.
restore ==
    /\ \E q \in Listed(FilesOf("s")) :
          outbound' = [i \in DOMAIN q |->
                          [createMessage(q[i].about) EXCEPT
                              !.next = IF File("sc", q[i].id, none) \in store THEN "PUBCOMP" ELSE @]]
    /\ inbound' = {[id |-> f.id, about |-> f.about] : f \in FilesOf("r")}

\* MQTTAsync_restoreCommand writes through a null pointer when it restores a
\* SUBSCRIBE or UNSUBSCRIBE, so a process that finds one cannot start.
restoreCommand(f) == kind[f.about] # "sub"

\* MQTTAsync_restoreCommands.
restoreCommands ==
    /\ \A f \in FilesOf("c") : restoreCommand(f)
    /\ \E q \in Listed(FilesOf("c")) : commands' = [i \in DOMAIN q |-> Command(q[i].about, 0)]

\* MQTTAsync_createWithOptions in a new process.
Restart ==
    /\ ~up
    /\ up' = TRUE
    /\ restore
    /\ restoreCommands
    /\ UNCHANGED <<appVars, responses, store, msgID, connVars, threadVars, brokerVars, sockVars, delivered, events>>

-----------------------------------------------------------------------------
(* The broker and the network (external).                                  *)

\* The broker's answers reach a connection that is still there.
Reply(p) == toClient' = IF link = "open" THEN Append(toClient, p) ELSE toClient

NoReply == UNCHANGED toClient

Accept(j) == accepted' = [accepted EXCEPT ![j] = @ + 1]

BrokerReads ==
    /\ Readable
    /\ LET p == Head(toBroker).packet
       IN  \/ /\ p.type = "CONNECT"
              /\ \E answer \in {"CONNACK", "REFUSED"} :
                    /\ Reply(Packet(answer, 0, none))
                    /\ Costs(IF answer = "REFUSED" THEN 1 ELSE 0)
                    /\ session' = (answer = "CONNACK" /\ link = "open")
              /\ released' = {}
              /\ UNCHANGED <<sent, accepted>>
           \/ /\ p.type = "PUBLISH"
              /\ \/ kind[p.about] = "pub0" /\ Accept(p.about) /\ NoReply /\ UNCHANGED released
                 \/ /\ kind[p.about] = "pub1"
                    /\ Accept(p.about)
                    /\ Reply(Packet("PUBACK", p.id, none))
                    /\ UNCHANGED released
                 \/ /\ kind[p.about] = "pub2"
                    /\ released' = IF \E r \in released : r.id = p.id THEN released
                                   ELSE released \cup {[id |-> p.id, job |-> p.about]}
                    /\ Reply(Packet("PUBREC", p.id, none))
                    /\ UNCHANGED accepted
              /\ UNCHANGED <<session, sent, events>>
           \/ /\ p.type = "PUBREL"
              /\ \E r \in released : r.id = p.id /\ Accept(r.job) /\ released' = released \ {r}
              /\ Reply(Packet("PUBCOMP", p.id, none))
              /\ UNCHANGED <<session, sent, events>>
           \/ /\ p.type = "SUBSCRIBE"
              /\ Reply(Packet("SUBACK", p.id, p.about))
              /\ Accept(p.about)
              /\ UNCHANGED <<session, released, sent, events>>
           \/ /\ p.type = "SUBSCRIBE"
              /\ Reply(Packet("SUBACK_BAD", p.id, p.about))
              /\ Costs(1)
              /\ UNCHANGED <<session, released, sent, accepted>>
           \/ /\ p.type = "PINGREQ"
              /\ Reply(Packet("PINGRESP", 0, none))
              /\ UNCHANGED <<session, released, sent, accepted, events>>
           \/ /\ p.type = "PUBREC"
              /\ Reply(Packet("PUBREL", p.id, p.about))
              /\ sent' = [sent EXCEPT ![p.about] = IF @ = "sent2" THEN "released" ELSE @]
              /\ UNCHANGED <<session, released, accepted, events>>
           \/ /\ p.type \in {"PUBACK", "PUBCOMP"}
              /\ sent' = [sent EXCEPT ![p.about] = "done"]
              /\ NoReply
              /\ UNCHANGED <<session, released, accepted, events>>
           \/ /\ p.type = "DISCONNECT"
              /\ session' = FALSE
              /\ NoReply
              /\ UNCHANGED <<released, sent, accepted, events>>
    /\ toBroker' = AfterReadable
    /\ UNCHANGED <<appVars, queueVars, connVars, threadVars, link, stale, write_pending, writes, up, delivered>>

\* The broker sends a message at the QoS of the subscription, and may repeat
\* what it has had no answer to.
BrokerSends ==
    /\ session
    /\ link = "open"
    /\ Costs(1)
    /\ \E m \in Inbound :
          \/ /\ sent[m] = "unsent"
             /\ \E type \in {"PUBLISH1", "PUBLISH2"} :
                   /\ toClient' = Append(toClient, Packet(type, m, m))
                   /\ sent' = [sent EXCEPT ![m] = IF type = "PUBLISH1" THEN "sent1" ELSE "sent2"]
          \/ /\ sent[m] = "sent2"
             /\ Packet("PUBLISH2", m, m) \notin ToSet(toClient)
             /\ toClient' = Append(toClient, Packet("PUBLISH2", m, m))
             /\ UNCHANGED sent
          \/ /\ sent[m] = "released"
             /\ Packet("PUBREL_DUP", m, m) \notin ToSet(toClient)
             /\ toClient' = Append(toClient, Packet("PUBREL_DUP", m, m))
             /\ UNCHANGED sent
    /\ UNCHANGED <<appVars, queueVars, connVars, threadVars, released, session, accepted, link, stale,
                   write_pending, writes, toBroker, up, delivered>>

\* The broker closes a connection on which no packet can be made out.
BrokerDrops ==
    /\ Malformed
    /\ toBroker' = <<>>
    /\ session' = FALSE
    /\ link' = IF link = "open" THEN "reset" ELSE link
    /\ toClient' = IF link = "open" THEN <<>> ELSE toClient
    /\ UNCHANGED <<appVars, queueVars, connVars, threadVars, released, sent, accepted, write_pending, writes,
                   stale, up, delivered, events>>

NetworkBreaks ==
    /\ Breaks
    /\ Costs(1)
    /\ UNCHANGED <<appVars, queueVars, connVars, threadVars, brokerVars, write_pending, writes, toBroker, stale, up,
                   delivered>>

-----------------------------------------------------------------------------
ApplicationStep ==
    \/ \E j \in Calls : Connect(j)
    \/ \E j \in Jobs : (\E k \in Kinds : CheckConnected(j, k)) \/ ReadMsgId(j) \/ AssignMsgId(j)
                         \/ AddCommand(j)

SendThread ==
    \/ ProcessConnect \/ ProcessDisconnect
    \/ TakeCommand \/ ProcessPublish0 \/ NotePendingWrite \/ Register \/ ProcessRequest

ReceiveThread ==
    \/ Select \/ ContinueWrite
    \/ NothingToRead \/ Connecting \/ ConnectBreaks \/ ReadFails \/ AfterFailure
    \/ HoldPacket \/ ReceiveConnack \/ ReceiveSuback
    \/ HandlePuback \/ HandlePubrec \/ HandlePublish1 \/ HandlePublish2 \/ HandlePubrel \/ HandlePingresp

Next ==
    \/ ApplicationStep
    \/ SendThread
    \/ ConnectTimesOut
    \/ ReceiveThread
    \/ KeepAlive
    \/ Crash
    \/ WriteCompleteCrashes
    \/ Restart
    \/ BrokerReads
    \/ BrokerSends
    \/ BrokerDrops
    \/ NetworkBreaks

Spec == Init /\ [][Next]_vars

\* The two threads of the library run, and the broker answers what reaches it.
\* Nothing makes the application call, a connection break, a timer expire or a
\* crash happen.
FairSpec ==
    /\ Spec
    /\ WF_vars(SendThread)
    /\ WF_vars(ReceiveThread)
    /\ WF_vars(BrokerReads \/ BrokerDrops)

-----------------------------------------------------------------------------
(* Properties.                                                             *)

Acknowledged == {j \in Jobs : kind[j] \in {"pub1", "pub2", "sub"}}

\* What reaches the broker is a sequence of whole packets: no thread writes
\* into the middle of a packet whose rest is pending (Socket_putdatas and the
\* select loop share the descriptor under different mutexes).  The exception
\* is the code's: Socket_close leaves the rest of a cut write in writes, and
\* the next connection with the same descriptor sends it.
StreamIntact == Malformed => stale

\* The jobs that the queue, the send thread or the responses have.
Live == JobsOf(commands) \cup ToSet(responses) \cup ({processing} \ {none})

\* Two requests that are queued, being sent or waiting for an answer have
\* different message ids, so that MQTTAsync_cycle, which finds a response by
\* the id alone, tells the right one.  The exception is the code's: the search
\* does not see an id that a thread has been given and has not queued yet.
\* Another thread is given it too when it read msgID before the first was
\* given the id (MQTTAsync_assignMsgId reads it before it locks the mutex),
\* when MQTTAsync_cleanSession has reset msgID in between, or when the ids
\* have gone round.  From then on (crossed) nothing is claimed.
MsgIdsDistinct ==
    crossed = {} => \A i, j \in Acknowledged \cap Live : i # j => token[i] # token[j]

\* A token whose callbacks have not been called is still in the queue, in the
\* send thread's hands or among the responses: no path through a failed write,
\* a broken connection, a reconnect or a late packet loses it, and
\* wait_for_completion without a timeout ends.  The exception is the code's:
\* MQTTAsync_writeComplete frees the first response in place of the QoS 0
\* publication's own.
TokenKept ==
    \A j \in Acknowledged : caller[j] = "queued" /\ outcome[j] = "none" => misplaced \/ j \in Live

\* A token's callbacks are called once: async_client frees the token in
\* remove_token when the first one returns.
TokenOnce == \A j \in Jobs : outcome[j] = "again" => misplaced

\* A publication or subscription that is told of success has been accepted by
\* the broker, whatever was in flight at the same time or before a reconnect.
\* The exceptions are those of MsgIdsDistinct and TokenKept: once two calls
\* have been given one id, which two calls at the same time suffice for, one
\* may be told of the other's answer.
SuccessIsDelivered ==
    crossed = {} /\ ~misplaced => \A j \in Acknowledged : outcome[j] = "success" => accepted[j] > 0

\* A session starts clean: what is queued, being sent or waiting for an answer
\* while the client is connected was asked for by this process.  What the store kept of
\* a process that crashed is restored by MQTTAsync_createWithOptions and
\* forgotten when the first connection is accepted, and never sent.
SessionStartsClean == connected => \A j \in Live : caller[j] = "queued"

\* The application sees each inbound message once, although the broker repeats
\* PUBLISH at QoS 2 and PUBREL, connections break between the four packets and
\* the process crashes with the message in the store.
DeliveredOnce == \A m \in Inbound : delivered[m] <= 1

\* What a crash would leave for the next process: a queued command, a
\* publication in flight and a QoS 2 message that waits for PUBREL have a file
\* exactly while they are in memory.  The command in the send thread's hands
\* has none: its file is removed with it from the queue, a publication's is
\* put when it is sent, and a process that dies in between has lost it without
\* a word to anyone.  Files of publications are named by message id, so the
\* exceptions are those of MsgIdsDistinct and TokenKept: an id is given again
\* while the file of its first publication is still there.
StoreMatches ==
    up /\ crossed = {} /\ ~misplaced =>
        /\ {f.about : f \in FilesOf("c")} = {j \in JobsOf(commands) : kind[j] \notin {"con", "dis"}}
        /\ {f.about : f \in FilesOf("s")} = JobsOf(outbound)
        /\ {f.about : f \in FilesOf("r")} = {m.about : m \in inbound}

InFlight(j) == up /\ j \in Acknowledged /\ j \in ToSet(responses)

\* A request that was sent does not wait for ever: its answer comes, or the
\* connection is found broken and it is told of the failure.  A job is made
\* once, so that this is the same as: again and again, nothing is in flight.
AnsweredAtLast == []<>(crossed # {} \/ \A j \in Jobs : ~InFlight(j))
=============================================================================
