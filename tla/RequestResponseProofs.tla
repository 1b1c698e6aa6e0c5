----------------------- MODULE RequestResponseProofs -----------------------
(***************************************************************************)
(* Proofs about RequestResponse for any number of threads and requests.    *)
(*                                                                         *)
(* What the map holds was sent by the platform, so a call that returns     *)
(* true saw a genuine answer to its id.  As long as the clock is not set   *)
(* back and the threads number their requests one after the other, a new   *)
(* id is above all the earlier ones, so the answer is the answer to that   *)
(* very request.                                                           *)
(***************************************************************************)
EXTENDS RequestResponse, TLAPS

(* A call that has not returned has no verdict yet. *)
VerdictLast == \A c \in Callers : caller[c] # "idle" => verdict[c] = "none"

(* What the map holds was sent by the platform. *)
MapGenuine ==
    \A id \in DOMAIN mResponseMessages :
        \E a \in answers : a.id = id /\ a.rc = mResponseMessages[id]

(* The platform accepts requests it has seen, under their ids. *)
AnswersFit ==
    \A a \in answers : /\ a.request \in 1..Len(requests)
                       /\ a.rc = 200 => a.id = requests[a.request]

(* The latest request of a call is in the history under its id. *)
SerialFits ==
    \A c \in Callers :
        caller[c] \in {"puback", "sent", "wait", "awake"}
        \/ verdict[c] = "accepted" =>
            /\ serial[c] \in 1..Len(requests)
            /\ requests[serial[c]] = reqId[c]

(* The inductive invariant for any callers. *)
IndInv ==
    /\ TypeOK
    /\ VerdictLast
    /\ MapGenuine
    /\ AcceptedIsGenuine
    /\ AnswersFit
    /\ SerialFits

(* Every id taken so far, published or not, is at most n. *)
Bounded(n) ==
    /\ \A i \in 1..Len(requests) : requests[i] <= n
    /\ \A d \in Callers : caller[d] = "publish" => reqId[d] <= n

(* At most one thread is numbering a request, and the id it is about to    *)
(* take is above all of them.                                              *)
IdsGrow ==
    /\ \A c, d \in Callers : Numbering(c) /\ Numbering(d) => c = d
    /\ \A c \in Callers : Numbering(c) => now[c] <= clock /\ Bounded(mReqCounter + now[c])
    /\ \A c \in Callers : caller[c] = "store" => loaded[c] = mReqCounter
    /\ Bounded(mReqCounter + clock)

(* The ids taken so far are different. *)
IdsDiffer ==
    /\ \A c \in Callers : caller[c] = "publish" =>
          \A i \in 1..Len(requests) : requests[i] # reqId[c]
    /\ \A c, d \in Callers :
          caller[c] = "publish" /\ caller[d] = "publish" /\ c # d => reqId[c] # reqId[d]
    /\ \A i, j \in 1..Len(requests) : i # j => requests[i] # requests[j]

IdsInv == ~disturbed => IdsGrow /\ IdsDiffer

-----------------------------------------------------------------------------

LEMMA InitInv == Init => IndInv
<1> SUFFICES ASSUME Init PROVE IndInv
  OBVIOUS
<1> USE DEF Init
<1>1. TypeOK
  <2>1. disturbed \in BOOLEAN
    BY Zenon
  <2>2. /\ DOMAIN mResponseMessages \subseteq Nat
        /\ mResponseMessages \in [DOMAIN mResponseMessages -> Codes]
    OBVIOUS
  <2> QED
    BY <2>1, <2>2 DEF TypeOK
<1>2. VerdictLast /\ MapGenuine /\ AcceptedIsGenuine /\ AnswersFit /\ SerialFits
  BY DEF VerdictLast, MapGenuine, AcceptedIsGenuine, AnswersFit, SerialFits
<1> QED
  BY <1>1, <1>2 DEF IndInv

(* Every step preserves the inductive invariant. *)
LEMMA NextInv == IndInv /\ [Next]_vars => IndInv'
<1> SUFFICES ASSUME IndInv, [Next]_vars PROVE IndInv'
  OBVIOUS
<1> USE DEF IndInv, idVars, callVars, platformVars, handlerVars
<1>1. ASSUME NEW c \in Callers, ReadClock(c) PROVE IndInv'
  <2> USE <1>1 DEF ReadClock, Goto
  <2>1. TypeOK'
    BY DEF TypeOK
  <2>2. VerdictLast'
    BY DEF TypeOK, VerdictLast
  <2>3. MapGenuine' /\ AcceptedIsGenuine'
    BY DEF TypeOK, VerdictLast, MapGenuine, AcceptedIsGenuine
  <2>4. AnswersFit'
    BY DEF TypeOK, AnswersFit
  <2>5. SerialFits'
    BY DEF TypeOK, VerdictLast, SerialFits
  <2> QED
    BY <2>1, <2>2, <2>3, <2>4, <2>5
<1>2. ASSUME NEW c \in Callers, LoadCounter(c) PROVE IndInv'
  <2> USE <1>2 DEF LoadCounter, Goto
  <2>1. TypeOK'
    BY DEF TypeOK
  <2>2. VerdictLast'
    BY DEF TypeOK, VerdictLast
  <2>3. MapGenuine' /\ AcceptedIsGenuine'
    BY DEF TypeOK, VerdictLast, MapGenuine, AcceptedIsGenuine
  <2>4. AnswersFit'
    BY DEF TypeOK, AnswersFit
  <2>5. SerialFits'
    BY DEF TypeOK, VerdictLast, SerialFits
  <2> QED
    BY <2>1, <2>2, <2>3, <2>4, <2>5
<1>3. ASSUME NEW c \in Callers, StoreCounter(c) PROVE IndInv'
  <2> USE <1>3 DEF StoreCounter, Goto
  <2>1. TypeOK'
    BY DEF TypeOK
  <2>2. VerdictLast'
    BY DEF TypeOK, VerdictLast
  <2>3. MapGenuine' /\ AcceptedIsGenuine'
    <3>1. MapGenuine'
      BY DEF MapGenuine
    <3>2. ASSUME NEW d \in Callers, verdict'[d] = "accepted"
          PROVE \E a \in answers' : a.id = reqId'[d] /\ a.rc = 200
      <4>1. verdict[d] = "accepted" /\ d # c
        BY <3>2 DEF VerdictLast
      <4>2. reqId'[d] = reqId[d]
        BY <4>1 DEF TypeOK
      <4> QED
        BY <4>1, <4>2 DEF AcceptedIsGenuine
    <3> QED
      BY <3>1, <3>2 DEF AcceptedIsGenuine
  <2>4. AnswersFit'
    BY DEF TypeOK, AnswersFit
  <2>5. SerialFits'
    BY DEF TypeOK, VerdictLast, SerialFits
  <2> QED
    BY <2>1, <2>2, <2>3, <2>4, <2>5
<1>4. ASSUME NEW c \in Callers, PublishRequest(c) PROVE IndInv'
  <2> USE <1>4 DEF PublishRequest, Goto
  <2>1. TypeOK'
    BY DEF TypeOK
  <2>2. VerdictLast'
    BY DEF TypeOK, VerdictLast
  <2>3. MapGenuine' /\ AcceptedIsGenuine'
    BY DEF TypeOK, VerdictLast, MapGenuine, AcceptedIsGenuine
  <2>4. AnswersFit'
    BY DEF TypeOK, AnswersFit
  <2>5. SerialFits'
    BY DEF TypeOK, VerdictLast, SerialFits
  <2> QED
    BY <2>1, <2>2, <2>3, <2>4, <2>5
<1>5. ASSUME NEW c \in Callers, SendThrows(c) PROVE IndInv'
  <2> USE <1>5 DEF SendThrows, Return, Goto
  <2>1. TypeOK'
    BY DEF TypeOK
  <2>2. VerdictLast'
    BY DEF TypeOK, VerdictLast
  <2>3. MapGenuine' /\ AcceptedIsGenuine'
    BY DEF TypeOK, VerdictLast, MapGenuine, AcceptedIsGenuine
  <2>4. AnswersFit'
    BY DEF TypeOK, AnswersFit
  <2>5. SerialFits'
    BY DEF TypeOK, VerdictLast, SerialFits
  <2> QED
    BY <2>1, <2>2, <2>3, <2>4, <2>5
<1>6. ASSUME NEW c \in Callers, UnmanageReturns(c) PROVE IndInv'
  <2> USE <1>6 DEF UnmanageReturns, Return, Goto
  <2>1. TypeOK'
    BY DEF TypeOK
  <2>2. VerdictLast'
    BY DEF TypeOK, VerdictLast
  <2>3. MapGenuine' /\ AcceptedIsGenuine'
    BY DEF TypeOK, VerdictLast, MapGenuine, AcceptedIsGenuine
  <2>4. AnswersFit'
    BY DEF TypeOK, AnswersFit
  <2>5. SerialFits'
    BY DEF TypeOK, VerdictLast, SerialFits
  <2> QED
    BY <2>1, <2>2, <2>3, <2>4, <2>5
<1>7. ASSUME NEW c \in Callers, WaitTimesOut(c) PROVE IndInv'
  <2> USE <1>7 DEF WaitTimesOut, Return, Goto
  <2>1. TypeOK'
    BY DEF TypeOK
  <2>2. VerdictLast'
    BY DEF TypeOK, VerdictLast
  <2>3. MapGenuine' /\ AcceptedIsGenuine'
    BY DEF TypeOK, VerdictLast, MapGenuine, AcceptedIsGenuine
  <2>4. AnswersFit'
    BY DEF TypeOK, AnswersFit
  <2>5. SerialFits'
    BY DEF TypeOK, VerdictLast, SerialFits
  <2> QED
    BY <2>1, <2>2, <2>3, <2>4, <2>5
<1>8. ASSUME NEW c \in Callers, NoResponse(c) PROVE IndInv'
  <2> USE <1>8 DEF NoResponse, Return, Goto
  <2>1. TypeOK'
    BY DEF TypeOK
  <2>2. VerdictLast'
    BY DEF TypeOK, VerdictLast
  <2>3. MapGenuine' /\ AcceptedIsGenuine'
    BY DEF TypeOK, VerdictLast, MapGenuine, AcceptedIsGenuine
  <2>4. AnswersFit'
    BY DEF TypeOK, AnswersFit
  <2>5. SerialFits'
    BY DEF TypeOK, VerdictLast, SerialFits
  <2> QED
    BY <2>1, <2>2, <2>3, <2>4, <2>5
<1>9. ASSUME NEW c \in Callers, TakeResponse(c) PROVE IndInv'
  <2> USE <1>9 DEF TakeResponse, Return, Goto
  <2>1. TypeOK'
    BY DEF TypeOK
  <2>2. VerdictLast'
    BY DEF TypeOK, VerdictLast
  <2>3. MapGenuine' /\ AcceptedIsGenuine'
    <3>1. MapGenuine'
      <4>1. /\ DOMAIN mResponseMessages' \subseteq DOMAIN mResponseMessages
            /\ \A id \in DOMAIN mResponseMessages' :
                  mResponseMessages'[id] = mResponseMessages[id]
        BY DEF Received
      <4> QED
        BY <4>1 DEF MapGenuine
    <3>2. ASSUME NEW d \in Callers, verdict'[d] = "accepted"
          PROVE \E a \in answers' : a.id = reqId'[d] /\ a.rc = 200
      <4>1. CASE d = c
        <5>1. mResponseMessages[reqId[c]] = 200
          BY <3>2, <4>1 DEF TypeOK
        <5> QED
          BY <4>1, <5>1 DEF MapGenuine, Received
      <4>2. CASE d # c
        <5>1. verdict[d] = "accepted"
          BY <3>2, <4>2 DEF TypeOK
        <5> QED
          BY <5>1 DEF AcceptedIsGenuine
      <4> QED
        BY <4>1, <4>2
    <3> QED
      BY <3>1, <3>2 DEF AcceptedIsGenuine
  <2>4. AnswersFit'
    BY DEF TypeOK, AnswersFit
  <2>5. SerialFits'
    BY DEF TypeOK, VerdictLast, SerialFits
  <2> QED
    BY <2>1, <2>2, <2>3, <2>4, <2>5
<1>10. ASSUME NEW c \in Callers, Puback(c) PROVE IndInv'
  <2> USE <1>10 DEF Puback, Goto
  <2>1. TypeOK'
    BY DEF TypeOK
  <2>2. VerdictLast'
    BY DEF TypeOK, VerdictLast
  <2>3. MapGenuine' /\ AcceptedIsGenuine'
    BY DEF TypeOK, VerdictLast, MapGenuine, AcceptedIsGenuine
  <2>4. AnswersFit'
    BY DEF TypeOK, AnswersFit
  <2>5. SerialFits'
    BY DEF TypeOK, VerdictLast, SerialFits
  <2> QED
    BY <2>1, <2>2, <2>3, <2>4, <2>5
<1>11. ASSUME NEW c \in Callers, EnterWait(c) PROVE IndInv'
  <2> USE <1>11 DEF EnterWait, Goto
  <2>1. TypeOK'
    BY DEF TypeOK
  <2>2. VerdictLast'
    BY DEF TypeOK, VerdictLast
  <2>3. MapGenuine' /\ AcceptedIsGenuine'
    BY DEF TypeOK, VerdictLast, MapGenuine, AcceptedIsGenuine
  <2>4. AnswersFit'
    BY DEF TypeOK, AnswersFit
  <2>5. SerialFits'
    BY DEF TypeOK, VerdictLast, SerialFits
  <2> QED
    BY <2>1, <2>2, <2>3, <2>4, <2>5
<1>12. ASSUME NEW c \in Callers, SpuriousWakeup(c) PROVE IndInv'
  <2> USE <1>12 DEF SpuriousWakeup, Goto
  <2>1. TypeOK'
    BY DEF TypeOK
  <2>2. VerdictLast'
    BY DEF TypeOK, VerdictLast
  <2>3. MapGenuine' /\ AcceptedIsGenuine'
    BY DEF TypeOK, VerdictLast, MapGenuine, AcceptedIsGenuine
  <2>4. AnswersFit'
    BY DEF TypeOK, AnswersFit
  <2>5. SerialFits'
    BY DEF TypeOK, VerdictLast, SerialFits
  <2> QED
    BY <2>1, <2>2, <2>3, <2>4, <2>5
<1>13. ASSUME NEW a \in answers, StoreResponse(a) PROVE IndInv'
  <2> USE <1>13 DEF StoreResponse, Stored
  <2>1. TypeOK'
    <3>1. a \in Answers
      BY DEF TypeOK
    <3>2. a.id \in Nat /\ a.rc \in Codes
      BY <3>1 DEF Answers
    <3>3. /\ DOMAIN mResponseMessages' \subseteq Nat
          /\ mResponseMessages' \in [DOMAIN mResponseMessages' -> Codes]
      <4>1. CASE a.id = NoId
        BY <4>1 DEF TypeOK
      <4>2. CASE a.id # NoId
        BY <3>2, <4>2 DEF TypeOK
      <4> QED
        BY <4>1, <4>2
    <3> QED
      BY <3>3 DEF TypeOK
  <2>2. VerdictLast'
    BY DEF TypeOK, VerdictLast
  <2>3. MapGenuine' /\ AcceptedIsGenuine'
    <3>1. a \in answers
      BY DEF TypeOK
    <3>2. ASSUME NEW id \in DOMAIN mResponseMessages'
          PROVE \E b \in answers : b.id = id /\ b.rc = mResponseMessages'[id]
      <4>1. CASE a.id = NoId
        BY <3>2, <4>1 DEF MapGenuine
      <4>2. CASE a.id # NoId /\ id = a.id
        <5>1. mResponseMessages'[id] = a.rc
          BY <3>2, <4>2
        <5> QED
          BY <3>1, <4>2, <5>1
      <4>3. CASE a.id # NoId /\ id # a.id
        <5>1. /\ id \in DOMAIN mResponseMessages
              /\ mResponseMessages'[id] = mResponseMessages[id]
          BY <3>2, <4>3
        <5> QED
          BY <5>1 DEF MapGenuine
      <4> QED
        BY <4>1, <4>2, <4>3
    <3>3. MapGenuine'
      BY <3>2 DEF MapGenuine
    <3>4. AcceptedIsGenuine'
      BY DEF AcceptedIsGenuine
    <3> QED
      BY <3>3, <3>4
  <2>4. AnswersFit'
    BY DEF TypeOK, AnswersFit
  <2>5. SerialFits'
    BY DEF TypeOK, VerdictLast, SerialFits
  <2> QED
    BY <2>1, <2>2, <2>3, <2>4, <2>5
<1>14. CASE NotifyAll
  <2> USE <1>14 DEF NotifyAll
  <2>1. TypeOK'
    BY DEF TypeOK
  <2>2. VerdictLast'
    BY DEF TypeOK, VerdictLast
  <2>3. MapGenuine' /\ AcceptedIsGenuine'
    BY DEF TypeOK, VerdictLast, MapGenuine, AcceptedIsGenuine
  <2>4. AnswersFit'
    BY DEF TypeOK, AnswersFit
  <2>5. SerialFits'
    BY DEF TypeOK, VerdictLast, SerialFits
  <2> QED
    BY <2>1, <2>2, <2>3, <2>4, <2>5
<1>15. ASSUME NEW r \in 1..Len(requests), NEW rc \in Codes,
             NEW id \in {requests[r], NoId}, Answer(r, id, rc)
      PROVE IndInv'
  <2> USE <1>15 DEF Answer
  <2>1. TypeOK'
    <3>1. [request |-> r, id |-> id, rc |-> rc] \in Answers
      BY DEF TypeOK, Answers, NoId
    <3>2. answers' \subseteq Answers
      BY <3>1 DEF TypeOK
    <3> QED
      BY <3>2 DEF TypeOK
  <2>2. VerdictLast'
    BY DEF TypeOK, VerdictLast
  <2>3. MapGenuine' /\ AcceptedIsGenuine'
    BY DEF TypeOK, VerdictLast, MapGenuine, AcceptedIsGenuine
  <2>4. AnswersFit'
    BY DEF TypeOK, AnswersFit
  <2>5. SerialFits'
    BY DEF TypeOK, VerdictLast, SerialFits
  <2> QED
    BY <2>1, <2>2, <2>3, <2>4, <2>5
<1>16. CASE Tick
  <2> USE <1>16 DEF Tick
  <2>1. TypeOK'
    <3>1. clock' \in Nat /\ UNCHANGED <<mReqCounter, now, loaded, callVars, platformVars, handlerVars>>
      BY DEF TypeOK
    <3>2. disturbed' \in BOOLEAN
      BY Zenon DEF TypeOK
    <3> QED
      BY <3>1, <3>2 DEF TypeOK
  <2>2. VerdictLast'
    BY DEF TypeOK, VerdictLast
  <2>3. MapGenuine' /\ AcceptedIsGenuine'
    BY DEF TypeOK, VerdictLast, MapGenuine, AcceptedIsGenuine
  <2>4. AnswersFit'
    BY DEF TypeOK, AnswersFit
  <2>5. SerialFits'
    BY DEF TypeOK, VerdictLast, SerialFits
  <2> QED
    BY <2>1, <2>2, <2>3, <2>4, <2>5
<1>17. CASE UNCHANGED vars
  BY <1>17 DEF vars, TypeOK, VerdictLast, MapGenuine, AcceptedIsGenuine,
     AnswersFit, SerialFits
<1> QED
  BY <1>1, <1>2, <1>3, <1>4, <1>5, <1>6, <1>7, <1>8, <1>9, <1>10,
     <1>11, <1>12, <1>13, <1>14, <1>15, <1>16, <1>17, Zenon DEF Next, Call

(* The inductive invariant holds in every reachable state. *)
LEMMA Invariance == Spec => []IndInv
BY InitInv, NextInv, PTL DEF Spec

(* The variables of the request path keep their types. *)
THEOREM TypeCorrect == Spec => []TypeOK
<1>1. IndInv => TypeOK
  BY DEF IndInv
<1> QED
  BY <1>1, Invariance, PTL

(* With any number of calling threads, a racy counter and any clock, a     *)
(* call that returns true has seen an answer 200 that the platform sent    *)
(* under its id.                                                           *)
THEOREM Genuine == Spec => []AcceptedIsGenuine
<1>1. IndInv => AcceptedIsGenuine
  BY DEF IndInv
<1> QED
  BY <1>1, Invariance, PTL

-----------------------------------------------------------------------------
(* An undisturbed counter *)

(* A step that numbers no request and publishes none leaves the ids alone. *)
LEMMA IdsUntouched ==
    ASSUME IdsGrow, IdsDiffer,
           UNCHANGED <<mReqCounter, clock, now, loaded, reqId, requests>>,
           \A c \in Callers : caller'[c] \in {"load", "store", "publish"} =>
                                  caller'[c] = caller[c]
    PROVE  IdsGrow' /\ IdsDiffer'
BY DEF IdsGrow, IdsDiffer, Bounded, Numbering

LEMMA IdsNext ==
    ASSUME TypeOK, IdsGrow, IdsDiffer, ~disturbed', [Next]_vars
    PROVE  IdsGrow' /\ IdsDiffer'
<1> USE DEF idVars, callVars, platformVars, handlerVars, Goto
<1>t. /\ mReqCounter \in Nat /\ clock \in Nat
      /\ \A c \in Callers : now[c] \in Nat /\ reqId[c] \in Nat
      /\ Len(requests) \in Nat /\ \A i \in 1..Len(requests) : requests[i] \in Nat
  BY DEF TypeOK
<1>1. ASSUME NEW c \in Callers, ReadClock(c) PROVE IdsGrow' /\ IdsDiffer'
  <2>1. /\ now'[c] = clock
        /\ \A d \in Callers : ~Numbering(d)
        /\ \A d \in Callers \ {c} : caller'[d] = caller[d]
        /\ caller'[c] = "load"
        /\ UNCHANGED <<clock, mReqCounter, loaded, reqId, requests>>
    BY <1>1 DEF ReadClock, TypeOK
  <2>2. ASSUME NEW n, Bounded(n) PROVE Bounded(n)'
    BY <2>1, <2>2 DEF Bounded
  <2>3. \A d \in Callers : Numbering(d)' => d = c
    BY <2>1 DEF Numbering
  <2>4. Bounded(mReqCounter + clock)' /\ Bounded(mReqCounter + now[c])'
    BY <2>1, <2>2 DEF IdsGrow
  <2>5. IdsGrow'
    BY <2>1, <2>3, <2>4, <1>t DEF IdsGrow, Numbering
  <2>6. IdsDiffer'
    BY <2>1 DEF IdsDiffer
  <2> QED
    BY <2>5, <2>6
<1>2. ASSUME NEW c \in Callers, LoadCounter(c) PROVE IdsGrow' /\ IdsDiffer'
  <2>1. /\ caller[c] = "load" /\ caller'[c] = "store"
        /\ \A d \in Callers \ {c} : caller'[d] = caller[d]
        /\ loaded'[c] = mReqCounter
        /\ \A d \in Callers \ {c} : loaded'[d] = loaded[d]
        /\ UNCHANGED <<clock, mReqCounter, now, reqId, requests>>
    BY <1>2 DEF LoadCounter, TypeOK
  <2>2. ASSUME NEW n, Bounded(n) PROVE Bounded(n)'
    BY <2>1, <2>2 DEF Bounded
  <2>3. \A d \in Callers : Numbering(d)' <=> Numbering(d)
    BY <2>1 DEF Numbering
  <2>4. IdsGrow'
    BY <2>1, <2>2, <2>3 DEF IdsGrow
  <2>5. IdsDiffer'
    BY <2>1 DEF IdsDiffer
  <2> QED
    BY <2>4, <2>5
<1>3. ASSUME NEW c \in Callers, StoreCounter(c) PROVE IdsGrow' /\ IdsDiffer'
  <2>1. /\ caller[c] = "store" /\ caller'[c] = "publish"
        /\ loaded[c] = mReqCounter
        /\ mReqCounter' = mReqCounter + 1
        /\ reqId'[c] = mReqCounter + 1 + now[c]
        /\ \A d \in Callers \ {c} : caller'[d] = caller[d] /\ reqId'[d] = reqId[d]
        /\ UNCHANGED <<clock, requests>>
    BY <1>3 DEF StoreCounter, TypeOK, IdsGrow
  <2>2. now[c] <= clock /\ Bounded(mReqCounter + now[c])
    BY <2>1 DEF IdsGrow, Numbering
  <2>3. \A d \in Callers : ~Numbering(d)'
    BY <2>1 DEF IdsGrow, Numbering
  <2>4. Bounded(mReqCounter + clock)'
    BY <2>1, <2>2, <1>t DEF Bounded
  <2>5. IdsGrow'
    BY <2>3, <2>4 DEF IdsGrow, Numbering
  <2>6. IdsDiffer'
    <3>1. \A i \in 1..Len(requests) : requests[i] # reqId'[c]
      BY <2>1, <2>2, <1>t DEF Bounded
    <3>2. \A d \in Callers : caller[d] = "publish" => reqId[d] # reqId'[c]
      BY <2>1, <2>2, <1>t DEF Bounded
    <3> QED
      BY <2>1, <3>1, <3>2 DEF IdsDiffer
  <2> QED
    BY <2>5, <2>6
<1>4. ASSUME NEW c \in Callers, PublishRequest(c) PROVE IdsGrow' /\ IdsDiffer'
  <2>1. /\ Len(requests') = Len(requests) + 1
        /\ requests'[Len(requests) + 1] = reqId[c]
        /\ \A i \in 1..Len(requests) : requests'[i] = requests[i]
    BY <1>4 DEF PublishRequest, TypeOK
  <2>2. /\ caller[c] = "publish" /\ caller'[c] = "puback"
        /\ \A d \in Callers \ {c} : caller'[d] = caller[d]
        /\ UNCHANGED <<clock, mReqCounter, now, loaded, reqId>>
    BY <1>4 DEF PublishRequest, TypeOK
  <2>3. \A i \in 1..Len(requests') : i \in 1..Len(requests) \/ i = Len(requests) + 1
    BY <2>1, <1>t
  <2>4. ASSUME NEW n, Bounded(n) PROVE Bounded(n)'
    BY <2>1, <2>2, <2>3, <2>4 DEF Bounded
  <2>5. IdsGrow'
    BY <2>2, <2>4 DEF IdsGrow, Numbering
  <2>6. IdsDiffer'
    BY <2>1, <2>2, <2>3 DEF IdsDiffer
  <2> QED
    BY <2>5, <2>6
<1>5. CASE Tick
  <2>1. /\ clock' = clock + 1
        /\ UNCHANGED <<mReqCounter, now, loaded, reqId, requests, caller>>
    BY <1>5 DEF Tick
  <2> QED
    BY <2>1, <1>t DEF IdsGrow, IdsDiffer, Bounded, Numbering
<1>6. ASSUME NEW c \in Callers,
             \/ SendThrows(c) \/ UnmanageReturns(c) \/ WaitTimesOut(c)
             \/ TakeResponse(c) \/ NoResponse(c)
      PROVE IdsGrow' /\ IdsDiffer'
  <2>1. /\ UNCHANGED <<mReqCounter, clock, now, loaded, reqId, requests>>
        /\ \A d \in Callers : caller'[d] \in {"idle", caller[d]}
    BY <1>6 DEF SendThrows, UnmanageReturns, WaitTimesOut, TakeResponse,
                NoResponse, Return, TypeOK
  <2> QED
    BY <2>1, IdsUntouched
<1>7. ASSUME NEW c \in Callers, Puback(c) \/ EnterWait(c) \/ SpuriousWakeup(c)
      PROVE IdsGrow' /\ IdsDiffer'
  <2>1. /\ UNCHANGED <<mReqCounter, clock, now, loaded, reqId, requests>>
        /\ \A d \in Callers : caller'[d] \in {"sent", "wait", "awake", caller[d]}
    BY <1>7 DEF Puback, EnterWait, SpuriousWakeup, TypeOK
  <2> QED
    BY <2>1, IdsUntouched
<1>8. CASE \E a \in answers : StoreResponse(a)
  BY <1>8, IdsUntouched DEF StoreResponse
<1>9. CASE NotifyAll
  <2>1. /\ UNCHANGED <<mReqCounter, clock, now, loaded, reqId, requests>>
        /\ \A d \in Callers : caller'[d] \in {"awake", caller[d]}
    BY <1>9 DEF NotifyAll
  <2> QED
    BY <2>1, IdsUntouched
<1>10. CASE \E r \in 1..Len(requests), rc \in Codes :
              \E id \in {requests[r], NoId} : Answer(r, id, rc)
  BY <1>10, IdsUntouched DEF Answer
<1>11. CASE UNCHANGED vars
  BY <1>11, IdsUntouched DEF vars
<1> QED
  BY <1>1, <1>2, <1>3, <1>4, <1>5, <1>6, <1>7, <1>8, <1>9, <1>10, <1>11
     DEF Next, Call

(* What was disturbed stays so. *)
LEMMA DisturbedStays ==
    ASSUME [Next]_vars, disturbed PROVE disturbed'
BY DEF Next, Call, vars, idVars, callVars, platformVars, handlerVars, ReadClock, LoadCounter,
       StoreCounter, PublishRequest, SendThrows, Puback, UnmanageReturns, EnterWait,
       SpuriousWakeup, WaitTimesOut, TakeResponse, NoResponse, StoreResponse, NotifyAll,
       Answer, Tick, Zenon

LEMMA IdsInvariance == Spec => []IdsInv
<1>1. Init => IdsInv
  BY DEF Init, IdsInv, IdsGrow, IdsDiffer, Bounded, Numbering
<1>2. TypeOK /\ IdsInv /\ [Next]_vars => IdsInv'
  BY IdsNext, DisturbedStays DEF IdsInv
<1> QED
  BY <1>1, <1>2, TypeCorrect, PTL DEF Spec

(* The ids of the requests never repeat, however many threads make them,   *)
(* as long as the clock is not set back and no two threads are numbering a *)
(* request at once.                                                        *)
THEOREM IdsUnique == Spec => []UniqueIds
<1>1. IdsInv => UniqueIds
  BY DEF IdsInv, IdsDiffer, UniqueIds
<1> QED
  BY <1>1, IdsInvariance, PTL

(* Under the same conditions a call returns true only if the platform      *)
(* answered 200 to that very request, however late, duplicated or lost     *)
(* other answers are.                                                      *)
THEOREM OwnAnswerOnly == Spec => []OwnAnswer
<1>1. IndInv /\ UniqueIds => OwnAnswer
  <2> SUFFICES ASSUME IndInv, UniqueIds, ~disturbed,
                      NEW d \in Callers, verdict[d] = "accepted"
               PROVE \E a \in answers : a.request = serial[d] /\ a.rc = 200
    BY DEF OwnAnswer
  <2>1. PICK a \in answers : a.id = reqId[d] /\ a.rc = 200
    BY DEF IndInv, AcceptedIsGenuine
  <2>2. /\ a.request \in 1..Len(requests)
        /\ requests[a.request] = reqId[d]
    BY <2>1 DEF IndInv, AnswersFit
  <2>3. serial[d] \in 1..Len(requests) /\ requests[serial[d]] = reqId[d]
    BY DEF IndInv, SerialFits
  <2>4. a.request = serial[d]
    BY <2>2, <2>3 DEF UniqueIds
  <2> QED
    BY <2>1, <2>4
<1> QED
  BY <1>1, Invariance, IdsUnique, PTL

-----------------------------------------------------------------------------
(* Answers of other threads *)

(* No step discards an answer but the return of the call that asked for    *)
(* it, however many threads share the map.                                 *)
THEOREM KeptForItsCall == Spec => AnswerKept
<1> DEFINE Kept == \A id \in DOMAIN mResponseMessages :
                      id \in DOMAIN mResponseMessages' \/
                      \E c \in Callers : /\ reqId[c] = id
                                         /\ caller[c] = "awake"
                                         /\ caller'[c] = "idle"
<1>1. TypeOK /\ [Next]_vars => [Kept]_vars
  <2> SUFFICES ASSUME TypeOK, Next PROVE Kept
    OBVIOUS
  <2> USE DEF idVars, callVars, platformVars, handlerVars, Goto, Return
  <2>1. ASSUME NEW c \in Callers, TakeResponse(c) PROVE Kept
    <3>1. /\ DOMAIN mResponseMessages' = DOMAIN mResponseMessages \ {reqId[c]}
          /\ caller[c] = "awake" /\ caller'[c] = "idle"
      BY <2>1 DEF TakeResponse, TypeOK
    <3> QED
      BY <3>1
  <2>2. ASSUME NEW a \in answers, StoreResponse(a) PROVE Kept
    BY <2>2 DEF StoreResponse, Stored
  <2>3. CASE UNCHANGED mResponseMessages
    BY <2>3
  <2>4. ASSUME NEW c \in Callers,
               \/ ReadClock(c) \/ LoadCounter(c) \/ StoreCounter(c) \/ PublishRequest(c)
               \/ SendThrows(c) \/ Puback(c) \/ UnmanageReturns(c) \/ EnterWait(c)
               \/ WaitTimesOut(c) \/ NoResponse(c) \/ SpuriousWakeup(c)
        PROVE UNCHANGED mResponseMessages
    BY <2>4 DEF ReadClock, LoadCounter, StoreCounter, PublishRequest, SendThrows, Puback,
       UnmanageReturns, EnterWait, WaitTimesOut, NoResponse, SpuriousWakeup
  <2>5. ASSUME NotifyAll \/ Tick \/ \E r \in 1..Len(requests), rc \in Codes :
                 \E id \in {requests[r], NoId} : Answer(r, id, rc)
        PROVE UNCHANGED mResponseMessages
    BY <2>5 DEF NotifyAll, Tick, Answer
  <2> QED
    BY <2>1, <2>2, <2>3, <2>4, <2>5 DEF Next, Call
<1> QED
  BY <1>1, TypeCorrect, PTL DEF Spec, AnswerKept
============================================================================
