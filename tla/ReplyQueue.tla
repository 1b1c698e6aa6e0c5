----------------------------- MODULE ReplyQueue -----------------------------
(***************************************************************************)
(* The reply queue of IOTP_Client: message handlers put replies on         *)
(* mReplyMsgs (IOTF_send_reply), a thread of its own publishes them        *)
(* (_send_reply), and the destructor stops that thread before it deletes   *)
(* the MQTT client.                                                        *)
(*                                                                         *)
(* Threads: the Paho receive thread, which runs handlers while it holds    *)
(* mqttasync_mutex; the Paho send thread; the firmware progress threads;   *)
(* the reply thread; the thread that runs the destructor.                  *)
(*                                                                         *)
(* A critical section that nothing can block inside is one step.  The      *)
(* reply thread keeps mLock across publish and wait_for_completion, so     *)
(* those are steps of their own.                                           *)
(***************************************************************************)
EXTENDS Naturals, Sequences

CONSTANTS
    CallbackReplies,    \* replies that handlers make on the receive thread
    ThreadReplies,      \* replies that progress threads make
    ProgressThreads,    \* threads that check download or update progress
    NoReply             \* "no reply in hand"

ReceiveThread == "receiveThread"
Callers == ProgressThreads \cup {ReceiveThread}
Replies == CallbackReplies \cup ThreadReplies

ASSUME ReplyAssumption ==
    /\ CallbackReplies \cap ThreadReplies = {}
    /\ NoReply \notin Replies
ASSUME ThreadAssumption == ReceiveThread \notin ProgressThreads

VARIABLES
    mReplyMsgs,         \* IOTP_Client::mReplyMsgs
    mLock,              \* IOTP_Client::mLock: "free" or "replyThread"
    mExit,              \* IOTP_Client::mExit
    mqttasync_mutex,    \* "free" or "receiveThread"
    caller,             \* where each caller of IOTF_send_reply is
    argument,           \* the reply each caller is about to enqueue
    replyThread,        \* where _send_reply is
    reply,              \* the local variable reply of _send_reply
    pubtok,             \* the delivery token of the publish in progress
    connected,          \* the MQTT connection is up
    destructor,         \* where ~IOTP_Client is
    alive,              \* std::terminate has not been called
    accepted,           \* history: replies pushed, oldest first
    published           \* history: replies the MQTT client took, oldest first

lockVars == <<mLock, mqttasync_mutex>>
callerVars == <<caller, argument, accepted>>
threadVars == <<replyThread, reply, published>>
netVars == <<pubtok, connected>>
exitVars == <<mExit, destructor, alive>>
vars == <<mReplyMsgs, lockVars, callerVars, threadVars, netVars, exitVars>>

Init ==
    /\ mReplyMsgs = <<>>
    /\ mLock = "free"
    /\ mExit = FALSE
    /\ mqttasync_mutex = "free"
    /\ caller = [t \in Callers |-> "idle"]
    /\ argument = [t \in Callers |-> NoReply]
    /\ replyThread = "loop"
    /\ reply = NoReply
    /\ pubtok = "none"
    /\ connected = TRUE
    /\ destructor = "live"
    /\ alive = TRUE
    /\ accepted = <<>>
    /\ published = <<>>

(* A handler makes each of its replies once. *)
Fresh(m) ==
    /\ \A i \in 1..Len(accepted) : accepted[i] # m
    /\ \A t \in Callers : argument[t] # m

-----------------------------------------------------------------------------
(* Callers of IOTF_send_reply *)

(* The receive thread takes mqttasync_mutex, delivers a message, and the   *)
(* handler makes a reply.  A destroyed client has no handle to deliver to. *)
MessageArrived(m) ==
    /\ alive
    /\ caller[ReceiveThread] = "idle"
    /\ mqttasync_mutex = "free"
    /\ connected
    /\ destructor # "deleted"
    /\ Fresh(m)
    /\ mqttasync_mutex' = ReceiveThread
    /\ caller' = [caller EXCEPT ![ReceiveThread] = "send_reply"]
    /\ argument' = [argument EXCEPT ![ReceiveThread] = m]
    /\ UNCHANGED <<mReplyMsgs, mLock, accepted, threadVars, netVars, exitVars>>

(* The next handler of the same topic replies too. *)
NextHandler(m) ==
    /\ alive
    /\ caller[ReceiveThread] = "callback"
    /\ Fresh(m)
    /\ caller' = [caller EXCEPT ![ReceiveThread] = "send_reply"]
    /\ argument' = [argument EXCEPT ![ReceiveThread] = m]
    /\ UNCHANGED <<mReplyMsgs, lockVars, accepted, threadVars, netVars, exitVars>>

(* message_arrived returns and the receive thread lets go of the mutex. *)
CallbackReturns ==
    /\ alive
    /\ caller[ReceiveThread] = "callback"
    /\ caller' = [caller EXCEPT ![ReceiveThread] = "idle"]
    /\ mqttasync_mutex' = "free"
    /\ UNCHANGED <<mReplyMsgs, mLock, argument, accepted, threadVars, netVars,
                   exitVars>>

(* check_download_progress or check_update_progress reports a change. *)
ProgressReport(t, m) ==
    /\ alive
    /\ caller[t] = "idle"
    /\ Fresh(m)
    /\ caller' = [caller EXCEPT ![t] = "send_reply"]
    /\ argument' = [argument EXCEPT ![t] = m]
    /\ UNCHANGED <<mReplyMsgs, lockVars, accepted, threadVars, netVars, exitVars>>

(* mCond.notify_one(): only the thread that is in the wait set notices. *)
NotifyOne == IF replyThread = "wait" THEN "notified" ELSE replyThread

AfterSend(t) == IF t = ReceiveThread THEN "callback" ELSE "idle"

(* Mutant: the pointer is moved out before it is pushed. *)
IOTF_send_reply_MovedFrom(t) ==
    /\ alive
    /\ caller[t] = "send_reply"
    /\ destructor # "deleted"
    /\ mLock = "free"
    /\ mReplyMsgs' = Append(mReplyMsgs, NoReply)
    /\ accepted' = Append(accepted, argument[t])
    /\ replyThread' = NotifyOne
    /\ caller' = [caller EXCEPT ![t] = AfterSend(t)]
    /\ argument' = [argument EXCEPT ![t] = NoReply]
    /\ UNCHANGED <<lockVars, reply, published, netVars, exitVars>>

IOTF_send_reply(t) ==
    /\ alive
    /\ caller[t] = "send_reply"
    /\ destructor # "deleted"
    /\ mLock = "free"
    /\ mReplyMsgs' = Append(mReplyMsgs, argument[t])
    /\ accepted' = Append(accepted, argument[t])
    /\ replyThread' = NotifyOne
    /\ caller' = [caller EXCEPT ![t] = AfterSend(t)]
    /\ argument' = [argument EXCEPT ![t] = NoReply]
    /\ UNCHANGED <<lockVars, reply, published, netVars, exitVars>>

(* mClient dangles: the call on the freed object crashes or does nothing   *)
(* that anyone sees.                                                       *)
SendReplyAfterDelete(t) ==
    /\ alive
    /\ caller[t] = "send_reply"
    /\ destructor = "deleted"
    /\ alive' \in BOOLEAN
    /\ caller' = [caller EXCEPT ![t] = AfterSend(t)]
    /\ argument' = [argument EXCEPT ![t] = NoReply]
    /\ UNCHANGED <<mReplyMsgs, lockVars, accepted, threadVars, netVars, mExit,
                   destructor>>

-----------------------------------------------------------------------------
(* The reply thread: _send_reply *)

(* The loop condition reads mExit; then mLock is taken and wait_for        *)
(* releases it while it waits.                                             *)
TestExit ==
    /\ alive
    /\ replyThread = "loop"
    /\ replyThread' = IF mExit THEN "done" ELSE "lock"
    /\ UNCHANGED <<mReplyMsgs, lockVars, callerVars, reply, published, netVars,
                   exitVars>>

EnterWait ==
    /\ alive
    /\ replyThread = "lock"
    /\ mLock = "free"
    /\ replyThread' = "wait"
    /\ UNCHANGED <<mReplyMsgs, lockVars, callerVars, reply, published, netVars,
                   exitVars>>

(* The deadline passes, or the system wakes the thread for no reason. *)
LeaveWait(how) ==
    /\ alive
    /\ replyThread = "wait"
    /\ replyThread' = how
    /\ UNCHANGED <<mReplyMsgs, lockVars, callerVars, reply, published, netVars,
                   exitVars>>

(* Mutant: wait instead of wait_for, so no deadline ends the wait. *)
Expire_Never == LeaveWait("wait")

Expire == LeaveWait("expired")
SpuriousWakeup == LeaveWait("spurious")

(* wait_for has taken mLock again and returns cv_status::timeout: the      *)
(* deadline passed in the wait or, after a notification, before mLock was  *)
(* free.  The queue is not looked at.                                      *)
WaitTimesOut ==
    /\ alive
    /\ replyThread \in {"expired", "notified", "spurious"}
    /\ mLock = "free"
    /\ replyThread' = "loop"
    /\ UNCHANGED <<mReplyMsgs, lockVars, callerVars, reply, published, netVars,
                   exitVars>>

(* wait_for returns no_timeout and the queue is empty. *)
NotifiedButEmpty ==
    /\ alive
    /\ replyThread \in {"notified", "spurious"}
    /\ mLock = "free"
    /\ mReplyMsgs = <<>>
    /\ replyThread' = "loop"
    /\ UNCHANGED <<mReplyMsgs, lockVars, callerVars, reply, published, netVars,
                   exitVars>>

(* Mutant: front() without pop(). *)
TakeReply_NoPop ==
    /\ alive
    /\ replyThread \in {"notified", "spurious"}
    /\ mLock = "free"
    /\ mReplyMsgs # <<>>
    /\ mLock' = "replyThread"
    /\ reply' = Head(mReplyMsgs)
    /\ mReplyMsgs' = mReplyMsgs
    /\ replyThread' = "publish"
    /\ UNCHANGED <<mqttasync_mutex, callerVars, published, netVars, exitVars>>

(* Mutant: a stack instead of a queue. *)
TakeReply_Newest ==
    /\ alive
    /\ replyThread \in {"notified", "spurious"}
    /\ mLock = "free"
    /\ mReplyMsgs # <<>>
    /\ mLock' = "replyThread"
    /\ reply' = mReplyMsgs[Len(mReplyMsgs)]
    /\ mReplyMsgs' = SubSeq(mReplyMsgs, 1, Len(mReplyMsgs) - 1)
    /\ replyThread' = "publish"
    /\ UNCHANGED <<mqttasync_mutex, callerVars, published, netVars, exitVars>>

(* wait_for returns no_timeout: one reply leaves the queue, and mLock is   *)
(* kept until it is delivered.                                             *)
TakeReply ==
    /\ alive
    /\ replyThread \in {"notified", "spurious"}
    /\ mLock = "free"
    /\ mReplyMsgs # <<>>
    /\ mLock' = "replyThread"
    /\ reply' = Head(mReplyMsgs)
    /\ mReplyMsgs' = Tail(mReplyMsgs)
    /\ replyThread' = "publish"
    /\ UNCHANGED <<mqttasync_mutex, callerVars, published, netVars, exitVars>>

(* MQTTAsync_send looks at the connection; async_client::publish turns a   *)
(* refusal into an exception that nobody on this thread catches.           *)
CheckConnected ==
    /\ alive
    /\ replyThread = "publish"
    /\ IF connected
       THEN replyThread' = "assignMsgId" /\ UNCHANGED alive
       ELSE alive' = FALSE /\ UNCHANGED replyThread
    /\ UNCHANGED <<mReplyMsgs, lockVars, callerVars, reply, published, netVars,
                   mExit, destructor>>

(* MQTTAsync_assignMsgId needs mqttasync_mutex; then the publish command   *)
(* is queued for the send thread.                                          *)
Publish ==
    /\ alive
    /\ replyThread = "assignMsgId"
    /\ mqttasync_mutex = "free"
    /\ published' = Append(published, reply)
    /\ reply' = NoReply
    /\ pubtok' = "queued"
    /\ replyThread' = "completion"
    /\ UNCHANGED <<mReplyMsgs, lockVars, callerVars, connected, exitVars>>

(* wait_for_completion returns, and mLock is released. *)
Delivered ==
    /\ alive
    /\ replyThread = "completion"
    /\ pubtok = "complete"
    /\ pubtok' = "none"
    /\ mLock' = "free"
    /\ replyThread' = "loop"
    /\ UNCHANGED <<mReplyMsgs, mqttasync_mutex, callerVars, reply, published,
                   connected, exitVars>>

(* wait_for_completion throws: ten seconds passed, or the token failed. *)
CompletionThrows ==
    /\ alive
    /\ replyThread = "completion"
    /\ pubtok # "complete"
    /\ alive' = FALSE
    /\ UNCHANGED <<mReplyMsgs, lockVars, callerVars, threadVars, netVars, mExit,
                   destructor>>

-----------------------------------------------------------------------------
(* The Paho threads and the connection *)

(* The send thread writes the queued PUBLISH. *)
ProcessCommand ==
    /\ alive
    /\ pubtok = "queued"
    /\ connected
    /\ mqttasync_mutex = "free"
    /\ pubtok' = "sent"
    /\ UNCHANGED <<mReplyMsgs, lockVars, callerVars, threadVars, connected,
                   exitVars>>

(* The receive thread reads the PUBACK and completes the token. *)
PubackArrives ==
    /\ alive
    /\ pubtok = "sent"
    /\ connected
    /\ mqttasync_mutex = "free"
    /\ pubtok' = "complete"
    /\ UNCHANGED <<mReplyMsgs, lockVars, callerVars, threadVars, connected,
                   exitVars>>

(* The session is closed: every command and response still open fails. *)
ConnectionLost ==
    /\ alive
    /\ connected
    /\ destructor # "deleted"
    /\ mqttasync_mutex = "free"
    /\ connected' = FALSE
    /\ pubtok' = IF pubtok \in {"queued", "sent"} THEN "failed" ELSE pubtok
    /\ UNCHANGED <<mReplyMsgs, lockVars, callerVars, threadVars, exitVars>>

-----------------------------------------------------------------------------
(* ~IOTP_Client *)

RequestExit ==
    /\ alive
    /\ destructor = "live"
    /\ mExit' = TRUE
    /\ destructor' = "join"
    /\ UNCHANGED <<mReplyMsgs, lockVars, callerVars, threadVars, netVars, alive>>

(* Mutant: detach instead of join. *)
Join_Detach ==
    /\ alive
    /\ destructor = "join"
    /\ destructor' = "delete"
    /\ UNCHANGED <<mReplyMsgs, lockVars, callerVars, threadVars, netVars, mExit,
                   alive>>

Join ==
    /\ alive
    /\ destructor = "join"
    /\ replyThread = "done"
    /\ destructor' = "delete"
    /\ UNCHANGED <<mReplyMsgs, lockVars, callerVars, threadVars, netVars, mExit,
                   alive>>

(* Mutant: MQTTAsync_destroy does not take the mutex. *)
DeleteClient_NoMutex ==
    /\ alive
    /\ destructor = "delete"
    /\ destructor' = "deleted"
    /\ UNCHANGED <<mReplyMsgs, lockVars, callerVars, threadVars, netVars, mExit,
                   alive>>

(* delete pasync_client: MQTTAsync_destroy needs mqttasync_mutex. *)
DeleteClient ==
    /\ alive
    /\ destructor = "delete"
    /\ mqttasync_mutex = "free"
    /\ destructor' = "deleted"
    /\ UNCHANGED <<mReplyMsgs, lockVars, callerVars, threadVars, netVars, mExit,
                   alive>>

-----------------------------------------------------------------------------

ReplyThreadStep ==
    \/ TestExit \/ EnterWait \/ Expire \/ WaitTimesOut \/ NotifiedButEmpty
    \/ TakeReply \/ CheckConnected \/ Publish \/ Delivered \/ CompletionThrows

CallerStep(t) == IOTF_send_reply(t) \/ SendReplyAfterDelete(t)

DestructorStep == Join \/ DeleteClient

Environment ==
    \/ \E m \in CallbackReplies : MessageArrived(m) \/ NextHandler(m)
    \/ \E t \in ProgressThreads, m \in ThreadReplies : ProgressReport(t, m)
    \/ SpuriousWakeup
    \/ ConnectionLost
    \/ RequestExit

(* The process has ended, or the client is gone and no caller is left. *)
Finished ==
    /\ \/ ~alive
       \/ destructor = "deleted" /\ \A t \in Callers : caller[t] = "idle"
    /\ UNCHANGED vars

Next ==
    \/ ReplyThreadStep
    \/ \E t \in Callers : CallerStep(t)
    \/ CallbackReturns
    \/ ProcessCommand
    \/ PubackArrives
    \/ DestructorStep
    \/ Environment
    \/ Finished

(* Every thread keeps running: a mutex that is free is taken, a deadline   *)
(* passes, Paho's threads serve their queues.  Arriving messages, progress *)
(* reports, spurious wake-ups, lost connections and destruction are not    *)
(* promised.                                                               *)
Fairness ==
    /\ WF_vars(ReplyThreadStep)
    /\ \A t \in Callers : WF_vars(CallerStep(t))
    /\ WF_vars(CallbackReturns)
    /\ WF_vars(ProcessCommand)
    /\ WF_vars(PubackArrives)
    /\ WF_vars(DestructorStep)

Spec == Init /\ [][Next]_vars

FairSpec == Spec /\ Fairness

-----------------------------------------------------------------------------
(* Properties *)

Holding == {"publish", "assignMsgId", "completion"}

(* Every variable of the client, its threads and the MQTT library stays    *)
(* within the values the code can give it.                                 *)
TypeOK ==
    /\ mReplyMsgs \in Seq(Replies)
    /\ mLock \in {"free", "replyThread"}
    /\ mExit \in BOOLEAN
    /\ mqttasync_mutex \in {"free", ReceiveThread}
    /\ caller \in [Callers -> {"idle", "send_reply", "callback"}]
    /\ argument \in [Callers -> Replies \cup {NoReply}]
    /\ replyThread \in {"loop", "lock", "wait", "notified", "spurious",
                        "expired", "done"} \cup Holding
    /\ reply \in Replies \cup {NoReply}
    /\ pubtok \in {"none", "queued", "sent", "complete", "failed"}
    /\ connected \in BOOLEAN
    /\ destructor \in {"live", "join", "delete", "deleted"}
    /\ alive \in BOOLEAN
    /\ accepted \in Seq(Replies)
    /\ published \in Seq(Replies)

InHand == IF reply = NoReply THEN 0 ELSE 1

(* No reply is lost, duplicated or reordered between IOTF_send_reply and   *)
(* the MQTT client: what was published, what _send_reply has in hand and   *)
(* what is queued are together exactly what was accepted, in that order.   *)
Conservation ==
    /\ Len(accepted) = Len(published) + InHand + Len(mReplyMsgs)
    /\ \A i \in 1..Len(published) : published[i] = accepted[i]
    /\ reply # NoReply => reply = accepted[Len(published) + 1]
    /\ \A i \in 1..Len(mReplyMsgs) :
          mReplyMsgs[i] = accepted[Len(published) + InHand + i]

(* "notified but queue is empty. Something went wrong.": a wake-up that    *)
(* notify_one caused finds a reply, whatever other callers and time-outs   *)
(* did in between.                                                         *)
NotifiedMeansQueued == replyThread = "notified" => mReplyMsgs # <<>>

(* The MQTT client is deleted only after the reply thread has made its     *)
(* last use of it, and no token of it is waited for.                       *)
NoPublishAfterDelete ==
    destructor \in {"delete", "deleted"} =>
        replyThread = "done" /\ pubtok = "none" /\ reply = NoReply

(* The client is not deleted under a handler that runs on the receive      *)
(* thread: MQTTAsync_destroy waits for mqttasync_mutex.                    *)
NoDeleteUnderCallback ==
    destructor = "deleted" => caller[ReceiveThread] = "idle"

(* The reply thread has mLock and waits for mqttasync_mutex, the receive   *)
(* thread has that and waits for mLock.                                    *)
LocksCrossed ==
    replyThread = "assignMsgId" /\ caller[ReceiveThread] = "send_reply"

(* Once the destructor has asked for the end it finishes, although nobody  *)
(* wakes the reply thread, unless an exception of the reply thread has     *)
(* ended the process or that thread is caught in the crossed locks.        *)
DestructorFinishes ==
    destructor = "join" ~> (destructor = "deleted" \/ ~alive \/ LocksCrossed)

(* A reply that a handler makes on the receive thread is put on the queue. *)
ReplyReachesQueue ==
    caller[ReceiveThread] = "send_reply" ~>
        (caller[ReceiveThread] # "send_reply" \/ ~alive)

(* A reply that is put on the queue is published, unless the client is     *)
(* destroyed, loses its connection or dies.                                *)
QueuedReplyPublished ==
    \A m \in Replies :
        (\E i \in 1..Len(mReplyMsgs) : mReplyMsgs[i] = m) ~>
            ((\E i \in 1..Len(published) : published[i] = m)
             \/ mExit \/ ~connected \/ ~alive)

Channel == INSTANCE ReplyChannel WITH sent <- published

(* The queue, the condition variable and the threads implement the FIFO    *)
(* channel that the handlers rely on.                                      *)
ImplementsChannel == Channel!Spec
=============================================================================
