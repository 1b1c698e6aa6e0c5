--------------------------- MODULE RequestResponse ---------------------------
(***************************************************************************)
(* Device-management requests: manage, pushManageMessage and unmanage      *)
(* number a request and publish it (send_message); all but unmanage then   *)
(* wait for the answer that the response handler receives                  *)
(* (IOTP_ResponseHandler::message_arrived and wait_for_response).          *)
(*                                                                         *)
(* Application threads and the Paho receive thread interleave.  mLock of   *)
(* the response handler is never held across a blocking call, so each of   *)
(* its critical sections is one step.  The subscription to the response    *)
(* topic is the subject of module Subscriptions and is in place here.      *)
(***************************************************************************)
EXTENDS Naturals, Sequences, FiniteSets

CONSTANTS
    Callers,            \* application threads that make requests
    MaxRequests,        \* bound on the counter and on the requests sent
    MaxClock            \* bound on the clock

ASSUME CallersAssumption == Callers # {}
ASSUME BoundsAssumption == MaxRequests \in Nat /\ MaxClock \in Nat

Codes == {200, 500}         \* accepted, and any refusal
NoId == 0                   \* an answer without a reqId field
Answers == [request : Nat, id : Nat, rc : Codes]

VARIABLES
    mReqCounter,        \* IOTP_Client::mReqCounter
    clock,              \* what time() returns
    caller,             \* where each application thread is
    now,                \* the local variable now of send_message
    loaded,             \* mReqCounter as ++ has read it
    disturbed,          \* history: the clock was set back, or one thread began to
                        \* number a request while another was at it
    reqId,              \* the id of the latest request of each thread
    serial,             \* history: which request that is
    verdict,            \* what the latest call of each thread returned
    requests,           \* history: the ids of the requests published
    answers,            \* the answers the platform has sent; each of them may
                        \* arrive late, more than once, or never
    receiver,           \* where message_arrived is
    mResponseMessages   \* IOTP_ResponseHandler::mResponseMessages

idVars == <<mReqCounter, clock, now, loaded, disturbed>>
callVars == <<caller, reqId, serial, verdict>>
platformVars == <<requests, answers>>
handlerVars == <<receiver, mResponseMessages>>
vars == <<idVars, callVars, platformVars, handlerVars>>

Init ==
    /\ mReqCounter = 0
    /\ clock = 0
    /\ caller = [c \in Callers |-> "idle"]
    /\ now = [c \in Callers |-> 0]
    /\ loaded = [c \in Callers |-> 0]
    /\ disturbed = FALSE
    /\ reqId = [c \in Callers |-> 0]
    /\ serial = [c \in Callers |-> 0]
    /\ verdict = [c \in Callers |-> "none"]
    /\ requests = <<>>
    /\ answers = {}
    /\ receiver = "idle"
    /\ mResponseMessages = <<>>

Goto(c, from, to) ==
    /\ caller[c] = from
    /\ caller' = [caller EXCEPT ![c] = to]

Return(c, from, result) ==
    /\ Goto(c, from, "idle")
    /\ verdict' = [verdict EXCEPT ![c] = result]

-----------------------------------------------------------------------------
(* send_message *)

Numbering(c) == caller[c] \in {"load", "store"}

(* A call begins and reads the clock. *)
ReadClock(c) ==
    /\ mReqCounter < MaxRequests
    /\ Len(requests) + Cardinality({d \in Callers : Numbering(d) \/ caller[d] = "publish"})
          < MaxRequests
    /\ Goto(c, "idle", "load")
    /\ now' = [now EXCEPT ![c] = clock]
    /\ verdict' = [verdict EXCEPT ![c] = "none"]
    /\ disturbed' = (disturbed \/ \E d \in Callers : Numbering(d))
    /\ UNCHANGED <<mReqCounter, clock, loaded, reqId, serial, platformVars,
                   handlerVars>>

(* ++mReqCounter is not atomic: it reads ... *)
LoadCounter(c) ==
    /\ Goto(c, "load", "store")
    /\ loaded' = [loaded EXCEPT ![c] = mReqCounter]
    /\ UNCHANGED <<mReqCounter, clock, now, disturbed, reqId, serial, verdict,
                   platformVars, handlerVars>>

(* Mutant: the incremented counter is not written back. *)
StoreCounter_NotKept(c) ==
    /\ Goto(c, "store", "publish")
    /\ reqId' = [reqId EXCEPT ![c] = loaded[c] + 1 + now[c]]
    /\ UNCHANGED <<idVars, serial, verdict, platformVars, handlerVars>>

(* ... and writes; the id is the new value plus the time, and the local    *)
(* values are used no more.                                                *)
StoreCounter(c) ==
    /\ Goto(c, "store", "publish")
    /\ mReqCounter' = loaded[c] + 1
    /\ reqId' = [reqId EXCEPT ![c] = loaded[c] + 1 + now[c]]
    /\ now' = [now EXCEPT ![c] = 0]
    /\ loaded' = [loaded EXCEPT ![c] = 0]
    /\ UNCHANGED <<clock, disturbed, serial, verdict, platformVars,
                   handlerVars>>

PublishRequest(c) ==
    /\ Goto(c, "publish", "puback")
    /\ requests' = Append(requests, reqId[c])
    /\ serial' = [serial EXCEPT ![c] = Len(requests) + 1]
    /\ UNCHANGED <<idVars, reqId, verdict, answers, handlerVars>>

(* publish throws, or wait_for_completion does after ten seconds. *)
SendThrows(c) ==
    /\ \E from \in {"publish", "puback"} : Return(c, from, "thrown")
    /\ UNCHANGED <<idVars, reqId, serial, platformVars, handlerVars>>

Puback(c) ==
    /\ Goto(c, "puback", "sent")
    /\ UNCHANGED <<idVars, reqId, serial, verdict, platformVars, handlerVars>>

(* unmanage does not wait for the answer. *)
UnmanageReturns(c) ==
    /\ Return(c, "sent", "unmanaged")
    /\ UNCHANGED <<idVars, reqId, serial, platformVars, handlerVars>>

-----------------------------------------------------------------------------
(* wait_for_response *)

(* The wait begins, whether or not the answer is there already. *)
EnterWait(c) ==
    /\ Goto(c, "sent", "wait")
    /\ UNCHANGED <<idVars, reqId, serial, verdict, platformVars, handlerVars>>

SpuriousWakeup(c) ==
    /\ Goto(c, "wait", "awake")
    /\ UNCHANGED <<idVars, reqId, serial, verdict, platformVars, handlerVars>>

(* Mutant: wait instead of wait_for. *)
WaitTimesOut_Never(c) ==
    /\ Return(c, "awake", "refused")
    /\ UNCHANGED <<idVars, reqId, serial, platformVars, handlerVars>>

(* cv_status::timeout: the deadline passed in the wait, or before mLock    *)
(* was taken again.  The map is not looked at.                             *)
WaitTimesOut(c) ==
    /\ \E from \in {"wait", "awake"} : Return(c, from, "refused")
    /\ UNCHANGED <<idVars, reqId, serial, platformVars, handlerVars>>

Received(c) == reqId[c] \in DOMAIN mResponseMessages

(* Mutant: the answer is taken without comparing ids. *)
TakeResponse_Any(c) ==
    /\ \E id \in DOMAIN mResponseMessages :
          Return(c, "awake",
                 IF mResponseMessages[id] = 200 THEN "accepted" ELSE "refused")
    /\ mResponseMessages' = <<>>
    /\ UNCHANGED <<idVars, reqId, serial, platformVars, receiver>>

(* Mutant: the whole map is cleared. *)
TakeResponse_Clear(c) ==
    /\ Received(c)
    /\ Return(c, "awake",
              IF mResponseMessages[reqId[c]] = 200 THEN "accepted" ELSE "refused")
    /\ mResponseMessages' = <<>>
    /\ UNCHANGED <<idVars, reqId, serial, platformVars, receiver>>

(* Awake, and the answer is in the map: it is taken out. *)
TakeResponse(c) ==
    /\ Received(c)
    /\ Return(c, "awake",
              IF mResponseMessages[reqId[c]] = 200 THEN "accepted" ELSE "refused")
    /\ mResponseMessages' =
          [id \in DOMAIN mResponseMessages \ {reqId[c]} |-> mResponseMessages[id]]
    /\ UNCHANGED <<idVars, reqId, serial, platformVars, receiver>>

(* Mutant: an answer without rc counts as success. *)
NoResponse_Success(c) ==
    /\ ~Received(c)
    /\ Return(c, "awake", "accepted")
    /\ UNCHANGED <<idVars, reqId, serial, platformVars, handlerVars>>

(* Awake, and the map has no answer: the empty answer has no rc. *)
NoResponse(c) ==
    /\ ~Received(c)
    /\ Return(c, "awake", "refused")
    /\ UNCHANGED <<idVars, reqId, serial, platformVars, handlerVars>>

-----------------------------------------------------------------------------
(* IOTP_ResponseHandler::message_arrived, on the receive thread *)

(* Mutant: the id is stored instead of the answer. *)
Stored_Id(a) ==
    [id \in DOMAIN mResponseMessages \cup {a.id} |->
        IF id = a.id THEN a.id ELSE mResponseMessages[id]]

Stored(a) ==
    IF a.id = NoId
    THEN mResponseMessages
    ELSE [id \in DOMAIN mResponseMessages \cup {a.id} |->
            IF id = a.id THEN a.rc ELSE mResponseMessages[id]]

(* An answer arrives; delivery is at least once, so it may come again. *)
StoreResponse(a) ==
    /\ receiver = "idle"
    /\ a \in answers
    /\ mResponseMessages' = Stored(a)
    /\ receiver' = "notify"
    /\ UNCHANGED <<idVars, callVars, platformVars>>

(* notify_all, after mLock was released. *)
NotifyAll ==
    /\ receiver = "notify"
    /\ receiver' = "idle"
    /\ caller' = [c \in Callers |->
                    IF caller[c] = "wait" THEN "awake" ELSE caller[c]]
    /\ UNCHANGED <<idVars, reqId, serial, verdict, platformVars,
                   mResponseMessages>>

-----------------------------------------------------------------------------
(* The platform and the clock *)

(* The platform answers a request once; a refusal may lack the id. *)
Answer(r, id, rc) ==
    /\ \A a \in answers : a.request # r
    /\ id = requests[r] \/ rc # 200
    /\ answers' = answers \cup {[request |-> r, id |-> id, rc |-> rc]}
    /\ UNCHANGED <<idVars, callVars, requests, handlerVars>>

Tick ==
    /\ \/ clock < MaxClock /\ clock' = clock + 1 /\ UNCHANGED disturbed
       \/ clock > 0 /\ clock' = clock - 1 /\ disturbed' = TRUE
    /\ UNCHANGED <<mReqCounter, now, loaded, callVars, platformVars, handlerVars>>

-----------------------------------------------------------------------------

Call(c) ==
    \/ LoadCounter(c) \/ StoreCounter(c) \/ PublishRequest(c) \/ SendThrows(c)
    \/ Puback(c) \/ UnmanageReturns(c)
    \/ EnterWait(c) \/ WaitTimesOut(c) \/ TakeResponse(c) \/ NoResponse(c)

Next ==
    \/ \E c \in Callers : ReadClock(c) \/ Call(c) \/ SpuriousWakeup(c)
    \/ \E a \in answers : StoreResponse(a)
    \/ NotifyAll
    \/ \E r \in 1..Len(requests), rc \in Codes :
          \E id \in {requests[r], NoId} : Answer(r, id, rc)
    \/ Tick

Spec == Init /\ [][Next]_vars

(* A thread inside a call keeps running, and its waits have deadlines.     *)
(* Nothing is promised about the platform, the network or the clock.       *)
FairSpec == Spec /\ \A c \in Callers : WF_vars(Call(c))

-----------------------------------------------------------------------------
(* Properties *)

(* Every variable of the request path stays within the values the code     *)
(* can give it.                                                            *)
TypeOK ==
    /\ mReqCounter \in Nat
    /\ clock \in Nat
    /\ caller \in [Callers -> {"idle", "load", "store", "publish", "puback",
                               "sent", "wait", "awake"}]
    /\ now \in [Callers -> Nat]
    /\ loaded \in [Callers -> Nat]
    /\ disturbed \in BOOLEAN
    /\ reqId \in [Callers -> Nat]
    /\ serial \in [Callers -> Nat]
    /\ verdict \in [Callers -> {"none", "thrown", "unmanaged", "accepted",
                                "refused"}]
    /\ requests \in Seq(Nat)
    /\ answers \subseteq Answers
    /\ receiver \in {"idle", "notify"}
    /\ DOMAIN mResponseMessages \subseteq Nat
    /\ mResponseMessages \in [DOMAIN mResponseMessages -> Codes]

(* A call returns true only if the platform has answered 200 to a request  *)
(* with the id of the call, whoever else waits and whatever is late,       *)
(* duplicated or lost.                                                     *)
AcceptedIsGenuine ==
    \A c \in Callers : verdict[c] = "accepted" =>
        \E a \in answers : a.id = reqId[c] /\ a.rc = 200

(* No two requests have the same id, unless the clock was set back or two  *)
(* threads raced to number a request.                                      *)
UniqueIds ==
    ~disturbed => \A i, j \in 1..Len(requests) : i # j => requests[i] # requests[j]

(* As long as that holds, a call returns true only if the platform has     *)
(* answered 200 to the very request of that call.                          *)
OwnAnswer ==
    ~disturbed => \A c \in Callers : verdict[c] = "accepted" =>
        \E a \in answers : a.request = serial[c] /\ a.rc = 200

(* An answer that has been received is kept until a call that asked for it *)
(* takes it: calls of other threads do not discard it.                     *)
AnswerKept ==
    [][\A id \in DOMAIN mResponseMessages :
          id \in DOMAIN mResponseMessages' \/
          \E c \in Callers : /\ reqId[c] = id
                             /\ caller[c] = "awake"
                             /\ caller'[c] = "idle"]_vars

(* Every call returns or throws: no wait is without a deadline. *)
CallReturns == \A c \in Callers : caller[c] # "idle" ~> caller[c] = "idle"

(* A call does not report failure when the answer to its request has been  *)
(* received.                                                               *)
AnswerNotMissed ==
    [][\A c \in Callers :
          caller[c] \in {"wait", "awake"} /\ Received(c)
          /\ mResponseMessages[reqId[c]] = 200 /\ caller'[c] = "idle"
              => verdict'[c] = "accepted"]_vars
=============================================================================
