------------------------- MODULE GatewayClientProofs -------------------------
(***************************************************************************)
(* Proofs about GatewayClient, for any topics.                             *)
(*                                                                         *)
(* A gateway subscribes without handlers, so a topic is listed at most     *)
(* once, and one unsubscribe takes it from the table: when disconnect gets *)
(* to its last operation the topics that it remembers are not listed.      *)
(***************************************************************************)
EXTENDS GatewayClient, SubscriptionsProofs

Remembered == {gatewayCMDTopic, deviceCMDTopic} \ {NoTopic}

RememberedTopics ==
    /\ gatewayCMDTopic \in Topics \cup {NoTopic}
    /\ deviceCMDTopic \in Topics \cup {NoTopic}

ListedOnce == \A t \in Topics : mSubscriptions[t] \in {0, 1}

NoHandlerPassed == \A i \in 1 .. Len(todo) : "handler" \notin DOMAIN todo[i]

(* Before its last operation disconnect only unsubscribes, and from every  *)
(* topic that it remembers and that is listed.                             *)
Cleaning ==
    \A i \in 1 .. Len(todo) :
        todo[i] = Disconnect =>
            /\ \A j \in 1 .. i - 1 : todo[j].op = "unsubscribe"
            /\ \A t \in Remembered :
                  mSubscriptions[t] = 0 \/ \E j \in 1 .. i - 1 : todo[j] = Unsubscribe(t)

GatewayInv ==
    /\ BaseInv
    /\ RememberedTopics
    /\ ListedOnce
    /\ NoHandlerPassed
    /\ Cleaning

-----------------------------------------------------------------------------

(* A step leaves the call and the table alone, abandons the call, or does  *)
(* the first operation of the call.                                        *)
Unmoved == UNCHANGED <<todo, mSubscriptions>>

Abandoned == todo' = <<>> /\ (UNCHANGED mSubscriptions \/ mSubscriptions' = [t \in Topics |-> 0])

OperationDone ==
    /\ todo # <<>>
    /\ todo' = Tail(todo)
    /\ ListedOnce'
    /\ Head(todo).op = "unsubscribe" =>
          /\ mSubscriptions'[Topic] = 0
          /\ \A t \in Topics \ {Topic} : mSubscriptions'[t] = mSubscriptions[t]
    /\ Head(todo).op = "disconnect" => UNCHANGED mSubscriptions

LEMMA StepKinds ==
    ASSUME GatewayInv, InnerStep(NoTopic)
    PROVE  Unmoved \/ Abandoned \/ OperationDone
<1> USE HandlerAssumption DEF sessionVars, connectVars, tableVars, configVars
<1>0. /\ mSubscriptions \in [Topics -> Nat]
      /\ todo # <<>> =>
            /\ Handler = NoHandler
            /\ Head(todo).op \in {"subscribe", "unsubscribe"} => Topic \in Topics
  <2>1. TypeOK
    BY DEF GatewayInv, BaseInv
  <2>2. ASSUME todo # <<>>
        PROVE  /\ Handler = NoHandler
               /\ Head(todo).op \in {"subscribe", "unsubscribe"} => Topic \in Topics
    <3>1. Head(todo) = todo[1] /\ Len(todo) \in Nat \ {0}
      BY <2>1, <2>2, TailFacts
    <3>2. "handler" \notin DOMAIN Head(todo)
      BY <3>1 DEF GatewayInv, NoHandlerPassed
    <3> QED
      BY <2>1, <2>2, <3>2, RunningFacts DEF Handler
  <2> QED
    BY <2>1, <2>2 DEF TypeOK
<1>1. CASE \/ ConnectBegins \/ ConnackCompletes \/ ListenerRuns \/ OrphanedListenerRuns \/ RequestSent
           \/ RequestAcknowledged \/ NullCallback \/ WildPointer \/ DispatchStep \/ ConnectionLost
           \/ DisconnectSent \/ DisconnectDropped
  BY <1>1 DEF ConnectBegins, ConnackCompletes, ListenerRuns, OrphanedListenerRuns, RequestSent,
     RequestAcknowledged, NullCallback, WildPointer, Crash, DispatchStep, MessageArrived, NextHandler,
     DispatchReturns, ConnectionLost, DisconnectSent, DisconnectDropped, Unmoved
<1>2. CASE ConnectThrows \/ RequestRefused \/ RequestThrows \/ SendThrows \/ AnswerRefused \/ DisconnectThrows
  BY <1>2 DEF ConnectThrows, RequestRefused, RequestThrows, SendThrows, AnswerRefused, DisconnectThrows,
     Throw, GiveUp, Abandoned
<1>3. CASE NotifySent \/ AnswerAccepted(NoTopic) \/ CommandHandlerSet \/ DisconnectReturns
  BY <1>3 DEF NotifySent, AnswerAccepted, CommandHandlerSet, DisconnectReturns, Done, Running, OperationDone,
     GatewayInv, ListedOnce
<1>4. CASE ConnectReturns
  BY <1>0, <1>4 DEF ConnectReturns, Installed, Done, GiveUp, Running, Abandoned, OperationDone,
     GatewayInv, ListedOnce
<1>5. CASE NothingToDo
  BY <1>0, <1>5 DEF NothingToDo, check_subscription, Done, Running, OperationDone, GatewayInv, ListedOnce
<1>6. CASE SubscribeReturns
  <2>1. mSubscriptions[Topic] = 0
    BY <1>0, <1>6 DEF SubscribeReturns, Running, GatewayInv, BaseInv, RequestFits
  <2> QED
    BY <1>0, <1>6, <2>1 DEF SubscribeReturns, add_subscription, Done, Running, OperationDone, GatewayInv, ListedOnce
<1>7. CASE HandlerInserted
  BY <1>0, <1>7 DEF HandlerInserted, Running
<1>8. CASE HandlerReturns
  BY <1>0, <1>8 DEF HandlerReturns, Running, GatewayInv, BaseInv, WireFits
<1>9. CASE UnsubscribeReturns
  <2>1. mSubscriptions[Topic] = 1
    BY <1>0, <1>9 DEF UnsubscribeReturns, Running, GatewayInv, BaseInv, RequestFits, ListedOnce
  <2> QED
    BY <1>0, <1>9, <2>1 DEF UnsubscribeReturns, Done, Running, OperationDone, GatewayInv, ListedOnce
<1> QED
  BY <1>1, <1>2, <1>3, <1>4, <1>5, <1>6, <1>7, <1>8, <1>9 DEF InnerStep, ApplicationStep, PahoStep

(* The topic of the gateway is one, the empty string is none. *)
LEMMA GatewayTopics == gatewayTopic \in Topics /\ NoTopic \notin Topics
BY TopicsAssumption DEF gatewayTopic, NoTopic

(* A step inside a call preserves the invariant. *)
LEMMA StepInv ==
    ASSUME GatewayInv, Step
    PROVE  GatewayInv'
<1> USE GatewayTopics
<1>1. InnerStep(NoTopic)
  BY DEF Step, InnerStep
<1>2. BaseInv'
  BY <1>1, InnerStepInv DEF GatewayInv
<1>3. RememberedTopics'
  BY DEF GatewayInv, RememberedTopics, Step
<1>4. ListedOnce'
  BY <1>1, StepKinds DEF GatewayInv, ListedOnce, Unmoved, Abandoned, OperationDone
<1>5. CASE Unmoved
  <2>1. todo' = todo /\ mSubscriptions' = mSubscriptions
    BY <1>5 DEF Unmoved
  <2>2. TypeOK
    BY DEF GatewayInv, BaseInv
  <2>3. todo # <<>> => todo # Tail(todo)
    BY <2>2, TailFacts
  <2>4. UNCHANGED <<gatewayCMDTopic, deviceCMDTopic>>
    BY <2>1, <2>3 DEF Step
  <2> QED
    BY <1>2, <1>3, <1>4, <2>1, <2>4 DEF GatewayInv, NoHandlerPassed, Cleaning, Remembered
<1>6. CASE Abandoned
  BY <1>2, <1>3, <1>4, <1>6 DEF GatewayInv, Abandoned, NoHandlerPassed, Cleaning
<1>7. CASE OperationDone
  <2>1. /\ Head(todo) = todo[1]
        /\ Len(todo) \in Nat \ {0}
        /\ Len(todo') = Len(todo) - 1
        /\ \A i \in 1 .. Len(todo') : todo'[i] = todo[i + 1]
    BY <1>7, TailFacts DEF GatewayInv, BaseInv, OperationDone
  <2>2. NoHandlerPassed'
    BY <2>1 DEF GatewayInv, NoHandlerPassed
  <2>3. ASSUME NEW i \in 1 .. Len(todo'), todo'[i] = Disconnect
        PROVE  /\ \A j \in 1 .. i - 1 : todo'[j].op = "unsubscribe"
               /\ \A t \in Remembered' :
                     mSubscriptions'[t] = 0 \/ \E j \in 1 .. i - 1 : todo'[j] = Unsubscribe(t)
    <3>1. i + 1 \in 1 .. Len(todo) /\ todo[i + 1] = Disconnect
      BY <2>1, <2>3
    <3>2. /\ \A j \in 1 .. i : todo[j].op = "unsubscribe"
          /\ \A t \in Remembered :
                mSubscriptions[t] = 0 \/ \E j \in 1 .. i : todo[j] = Unsubscribe(t)
      BY <3>1 DEF GatewayInv, Cleaning
    <3>3. Head(todo).op = "unsubscribe"
      BY <2>1, <3>2
    <3>4. Remembered' = Remembered
      BY <3>3 DEF Step, Remembered, Connect
    <3>5. \A j \in 1 .. i - 1 : todo'[j] = todo[j + 1] /\ j + 1 \in 1 .. i
      BY <2>1
    <3>6. ASSUME NEW t \in Remembered
          PROVE  mSubscriptions'[t] = 0 \/ \E j \in 1 .. i - 1 : todo'[j] = Unsubscribe(t)
      <4>1. t \in Topics
        BY DEF GatewayInv, RememberedTopics, Remembered
      <4>2. CASE mSubscriptions[t] = 0
        BY <1>7, <3>3, <4>1, <4>2 DEF OperationDone
      <4>3. CASE \E j \in 1 .. i : todo[j] = Unsubscribe(t)
        <5>1. PICK j \in 1 .. i : todo[j] = Unsubscribe(t)
          BY <4>3
        <5>2. CASE j = 1
          BY <1>7, <2>1, <3>3, <5>1, <5>2 DEF OperationDone, Topic, Unsubscribe
        <5>3. CASE j # 1
          <6>1. j - 1 \in 1 .. i - 1 /\ todo'[j - 1] = todo[j]
            BY <2>1, <5>3
          <6> QED
            BY <5>1, <6>1
        <5> QED
          BY <5>2, <5>3
      <4> QED
        BY <3>2, <4>2, <4>3
    <3> QED
      BY <3>2, <3>4, <3>5, <3>6
  <2>4. Cleaning'
    BY <2>3 DEF Cleaning
  <2> QED
    BY <1>2, <1>3, <1>4, <2>2, <2>4 DEF GatewayInv
<1> QED
  BY <1>1, <1>5, <1>6, <1>7, StepKinds

-----------------------------------------------------------------------------

(* What disconnect is made of. *)
DisconnectProgram(g, d) == UnsubscribeIfSet(g) \o UnsubscribeIfSet(d) \o <<Disconnect>>

LEMMA DisconnectFacts ==
    ASSUME NEW g \in Topics \cup {NoTopic}, NEW d \in Topics \cup {NoTopic}
    PROVE  LET p == DisconnectProgram(g, d)
           IN  /\ p \in Seq(Operations)
               /\ Len(p) >= 1
               /\ p[Len(p)] = Disconnect
               /\ \A i \in 1 .. Len(p) - 1 : \E t \in {g, d} \ {NoTopic} : p[i] = Unsubscribe(t)
               /\ \A t \in {g, d} \ {NoTopic} : \E i \in 1 .. Len(p) - 1 : p[i] = Unsubscribe(t)
<1> DEFINE p == DisconnectProgram(g, d)
<1> DEFINE a == UnsubscribeIfSet(g)
           b == UnsubscribeIfSet(d)
           c == <<Disconnect>>
<1>1. ASSUME NEW t \in Topics \cup {NoTopic}
      PROVE  /\ UnsubscribeIfSet(t) \in Seq(Operations)
             /\ t = NoTopic => Len(UnsubscribeIfSet(t)) = 0
             /\ t # NoTopic => Len(UnsubscribeIfSet(t)) = 1 /\ UnsubscribeIfSet(t)[1] = Unsubscribe(t)
  <2>1. t # NoTopic => Unsubscribe(t) \in Operations
    BY DEF Unsubscribe, Operations
  <2> QED
    BY <2>1 DEF UnsubscribeIfSet
<1>2. c \in Seq(Operations) /\ Len(c) = 1 /\ c[1] = Disconnect
  BY DEF Disconnect, Operations
<1>3. /\ a \in Seq(Operations) /\ b \in Seq(Operations)
      /\ g = NoTopic => Len(a) = 0
      /\ g # NoTopic => Len(a) = 1 /\ a[1] = Unsubscribe(g)
      /\ d = NoTopic => Len(b) = 0
      /\ d # NoTopic => Len(b) = 1 /\ b[1] = Unsubscribe(d)
  BY <1>1
<1>4. p = (a \o b) \o c
  BY DEF DisconnectProgram
<1> HIDE DEF a, b, c, p
<1>5. /\ p \in Seq(Operations)
      /\ Len(p) = Len(a) + Len(b) + 1
      /\ p[Len(p)] = Disconnect
      /\ \A i \in 1 .. Len(a) : p[i] = a[i]
      /\ \A i \in 1 .. Len(b) : p[Len(a) + i] = b[i]
  <2> DEFINE q == a \o b
  <2>1. q \in Seq(Operations) /\ Len(q) = Len(a) + Len(b)
    BY <1>3
  <2>2. /\ \A i \in 1 .. Len(a) : i \in 1 .. Len(q) /\ q[i] = a[i]
        /\ \A i \in 1 .. Len(b) : Len(a) + i \in 1 .. Len(q) /\ q[Len(a) + i] = b[i]
    BY <1>3
  <2>3. p = q \o c
    BY <1>4
  <2> HIDE DEF q
  <2>4. /\ p \in Seq(Operations) /\ Len(p) = Len(q) + 1 /\ p[Len(q) + 1] = c[1]
        /\ \A i \in 1 .. Len(q) : p[i] = q[i]
    <3>1. /\ q \o c \in Seq(Operations) /\ Len(q \o c) = Len(q) + Len(c)
          /\ \A i \in 1 .. Len(q) + Len(c) : (q \o c)[i] = IF i <= Len(q) THEN q[i] ELSE c[i - Len(q)]
      BY <1>2, <2>1, ConcatProperties
    <3>2. Len(q) \in Nat
      BY <2>1
    <3> QED
      BY <1>2, <2>3, <3>1, <3>2
  <2> QED
    BY <1>2, <2>1, <2>2, <2>4
<1>6. /\ Len(a) \in Nat /\ Len(a) <= 1
      /\ Len(b) \in Nat /\ Len(b) <= 1
      /\ Len(p) = Len(a) + Len(b) + 1
  BY <1>3, <1>5
<1>7. ASSUME NEW i \in 1 .. Len(p) - 1 PROVE \E t \in {g, d} \ {NoTopic} : p[i] = Unsubscribe(t)
  <2>1. CASE i <= Len(a)
    <3>1. i \in Nat /\ i >= 1
      BY <1>6
    <3>a. i = 1 /\ Len(a) = 1
      BY <1>3, <1>6, <2>1, <3>1
    <3>2. p[i] = a[1] /\ g # NoTopic
      BY <1>3, <1>5, <3>a
    <3> QED
      BY <1>3, <3>2
  <2>2. CASE i > Len(a)
    <3>1. i \in Nat /\ i <= Len(a) + Len(b)
      BY <1>6
    <3>a. i = Len(a) + 1 /\ Len(b) = 1
      BY <1>3, <1>6, <2>2, <3>1
    <3>2. p[i] = b[1] /\ d # NoTopic
      BY <1>3, <1>5, <3>a
    <3> QED
      BY <1>3, <3>2
  <2>3. i <= Len(a) \/ i > Len(a)
    BY <1>6
  <2> QED
    BY <2>1, <2>2, <2>3
<1>8. ASSUME NEW t \in {g, d} \ {NoTopic} PROVE \E i \in 1 .. Len(p) - 1 : p[i] = Unsubscribe(t)
  <2>1. CASE t = g
    <3>1. Len(a) = 1 /\ a[1] = Unsubscribe(t)
      BY <1>3, <2>1
    <3>2. 1 \in 1 .. Len(p) - 1 /\ p[1] = a[1]
      BY <1>5, <1>6, <3>1
    <3> QED
      BY <3>1, <3>2
  <2>2. CASE t = d
    <3>1. Len(b) = 1 /\ b[1] = Unsubscribe(t)
      BY <1>3, <2>2
    <3>2. Len(a) + 1 \in 1 .. Len(p) - 1 /\ p[Len(a) + 1] = b[1]
      BY <1>5, <1>6, <3>1
    <3> QED
      BY <3>1, <3>2
  <2> QED
    BY <2>1, <2>2
<1>9. Len(p) >= 1
  BY <1>5, <1>6
<1> QED
  BY <1>5, <1>7, <1>8, <1>9 DEF p

(* A call begins with a program without handlers; of the others only       *)
(* disconnect has a Disconnect.                                            *)
LEMMA CallInv ==
    ASSUME GatewayInv, NEW p \in Seq(Operations), Begin(p), RememberedTopics',
           \A i \in 1 .. Len(p) : "handler" \notin DOMAIN p[i],
           \A i \in 1 .. Len(p) : p[i] = Disconnect =>
              /\ \A j \in 1 .. i - 1 : p[j].op = "unsubscribe"
              /\ \A t \in Remembered' : \E j \in 1 .. i - 1 : p[j] = Unsubscribe(t)
    PROVE  GatewayInv'
<1>1. todo' = p /\ mSubscriptions' = mSubscriptions
  BY DEF Begin, tableVars
<1>2. BaseInv'
  BY BeginBase DEF GatewayInv
<1>3. NoHandlerPassed' /\ ListedOnce'
  BY <1>1 DEF GatewayInv, NoHandlerPassed, ListedOnce
<1>4. Cleaning'
  BY <1>1 DEF Cleaning
<1> QED
  BY <1>2, <1>3, <1>4 DEF GatewayInv

(* The calls of a gateway preserve the invariant. *)
LEMMA ApiInv ==
    ASSUME GatewayInv, connect \/ (\E t \in Topics : subscribeDeviceCommands(t)) \/ setCommandHandler \/ disconnect
    PROVE  GatewayInv'
<1> USE GatewayTopics
<1>1. RememberedTopics
  BY DEF GatewayInv
<1>2. \A t \in Topics : /\ SubscribeTopic(t) \in Operations
                        /\ SubscribeTopic(t) # Disconnect
                        /\ "handler" \notin DOMAIN SubscribeTopic(t)
  BY DEF SubscribeTopic, Operations, Disconnect
<1>3. \A o \in {Connect, SetCommandHandler} : o \in Operations /\ o # Disconnect /\ "handler" \notin DOMAIN o
  BY DEF Connect, SetCommandHandler, Operations, Disconnect
<1>4. CASE connect
  <2>1. RememberedTopics'
    BY <1>1, <1>4 DEF connect, RememberedTopics
  <2>2. CASE mProperties.initializes
    <3> DEFINE p == <<Connect, SubscribeTopic(gatewayTopic)>>
    <3>1. Begin(p)
      BY <1>4, <2>2 DEF connect
    <3>2. /\ p \in Seq(Operations)
          /\ \A i \in 1 .. Len(p) : p[i] # Disconnect /\ "handler" \notin DOMAIN p[i]
      BY <1>2, <1>3
    <3> HIDE DEF p
    <3> QED
      BY <2>1, <3>1, <3>2, CallInv
  <2>3. CASE ~mProperties.initializes
    <3>1. Begin(<<>>)
      BY <1>4, <2>3 DEF connect
    <3>2. <<>> \in Seq(Operations) /\ Len(<<>>) = 0 /\ 1 .. 0 = {}
      OBVIOUS
    <3> QED
      BY <2>1, <3>1, <3>2, CallInv
  <2> QED
    BY <2>2, <2>3
<1>5. ASSUME NEW t \in Topics, subscribeDeviceCommands(t)
      PROVE  GatewayInv'
  <2>1. RememberedTopics' /\ Begin(<<SubscribeTopic(t)>>)
    BY <1>1, <1>5 DEF subscribeDeviceCommands, RememberedTopics
  <2>2. /\ <<SubscribeTopic(t)>> \in Seq(Operations)
        /\ \A i \in 1 .. Len(<<SubscribeTopic(t)>>) : /\ <<SubscribeTopic(t)>>[i] # Disconnect
                                                  /\ "handler" \notin DOMAIN <<SubscribeTopic(t)>>[i]
    BY <1>2
  <2> QED
    BY <2>1, <2>2, CallInv
<1>6. CASE setCommandHandler
  <2>1. RememberedTopics' /\ Begin(<<SetCommandHandler>>)
    BY <1>1, <1>6 DEF setCommandHandler, RememberedTopics
  <2>2. /\ <<SetCommandHandler>> \in Seq(Operations)
        /\ \A i \in 1 .. Len(<<SetCommandHandler>>) : /\ <<SetCommandHandler>>[i] # Disconnect
                                                  /\ "handler" \notin DOMAIN <<SetCommandHandler>>[i]
    BY <1>3
  <2> QED
    BY <2>1, <2>2, CallInv
<1>7. CASE disconnect
  <2> DEFINE p == DisconnectProgram(gatewayCMDTopic, deviceCMDTopic)
  <2>1. RememberedTopics' /\ Remembered' = Remembered /\ Begin(p)
    BY <1>1, <1>7 DEF disconnect, DisconnectProgram, RememberedTopics, Remembered
  <2>2. /\ p \in Seq(Operations)
        /\ Len(p) >= 1
        /\ p[Len(p)] = Disconnect
        /\ \A i \in 1 .. Len(p) - 1 : \E t \in Remembered : p[i] = Unsubscribe(t)
        /\ \A t \in Remembered : \E i \in 1 .. Len(p) - 1 : p[i] = Unsubscribe(t)
    BY <1>1, DisconnectFacts DEF RememberedTopics, Remembered
  <2> HIDE DEF p
  <2>3. \A i \in 1 .. Len(p) - 1 : /\ p[i].op = "unsubscribe"
                                   /\ p[i] # Disconnect
                                   /\ "handler" \notin DOMAIN p[i]
    <3>1. \A t : Unsubscribe(t).op = "unsubscribe" /\ Unsubscribe(t) # Disconnect /\ "handler" \notin DOMAIN Unsubscribe(t)
      BY DEF Unsubscribe, Disconnect
    <3> QED
      BY <2>2, <3>1
  <2>4. "handler" \notin DOMAIN Disconnect
    BY DEF Disconnect
  <2>5. Len(p) \in Nat
    BY <2>2
  <2>6. \A i \in 1 .. Len(p) : i \in 1 .. Len(p) - 1 \/ i = Len(p)
    BY <2>5
  <2>7. \A i \in 1 .. Len(p) : "handler" \notin DOMAIN p[i]
    BY <2>2, <2>3, <2>4, <2>6
  <2>8. \A i \in 1 .. Len(p) : p[i] = Disconnect =>
              /\ \A j \in 1 .. i - 1 : p[j].op = "unsubscribe"
              /\ \A t \in Remembered' : \E j \in 1 .. i - 1 : p[j] = Unsubscribe(t)
    BY <2>1, <2>2, <2>3, <2>6
  <2> QED
    BY <2>1, <2>2, <2>7, <2>8, CallInv
<1> QED
  BY <1>4, <1>5, <1>6, <1>7

LEMMA NextInv ==
    ASSUME GatewayInv, [Next]_gatewayVars
    PROVE  GatewayInv'
<1>1. CASE UNCHANGED gatewayVars
  <2>1. BaseInv'
    BY <1>1, StutterBase DEF GatewayInv, gatewayVars
  <2> QED
    BY <1>1, <2>1 DEF GatewayInv, gatewayVars, vars, tableVars, RememberedTopics, ListedOnce, NoHandlerPassed,
       Cleaning, Remembered
<1> QED
  BY <1>1, StepInv, ApiInv DEF Next

(* The invariant of a gateway client and its session. *)
THEOREM GatewayInvariant == Spec => []GatewayInv
<1>1. GatewayInit => GatewayInv
  <2> SUFFICES ASSUME GatewayInit PROVE GatewayInv
    OBVIOUS
  <2>1. BaseInv
    BY InitBase DEF GatewayInit
  <2> QED
    BY <2>1 DEF GatewayInit, Init, GatewayInv, RememberedTopics, ListedOnce, NoHandlerPassed, Cleaning
<1> QED
  BY <1>1, NextInv, PTL DEF Spec

(* When disconnect ends the session the table lists neither the gateway's  *)
(* topic nor that of the last device, whichever of the two it had          *)
(* subscribed to, and whatever the broker answered.  The topics of other   *)
(* devices it may list: DisconnectRemovesCommands is false.                *)
THEOREM GatewayRememberedRemoved == Spec => RememberedRemoved
<1>1. ASSUME GatewayInv, todo # <<>>, Head(todo) = Disconnect
      PROVE  \A t \in {gatewayCMDTopic, deviceCMDTopic} \ {NoTopic} : mSubscriptions[t] = 0
  <2>1. Head(todo) = todo[1] /\ Len(todo) \in Nat \ {0}
    BY <1>1, TailFacts DEF GatewayInv, BaseInv
  <2> QED
    BY <1>1, <2>1 DEF GatewayInv, Cleaning, Remembered
<1>2. GatewayInv =>
         [todo # <<>> /\ Head(todo) = Disconnect /\ connected /\ ~connected'
             => \A t \in {gatewayCMDTopic, deviceCMDTopic} \ {NoTopic} : mSubscriptions[t] = 0]_gatewayVars
  BY <1>1
<1> QED
  BY <1>2, GatewayInvariant, PTL DEF RememberedRemoved

(* The gateway's tables agree with the broker as a device's do.            *)
THEOREM GatewayListedIsSubscribed == Spec => []ListedIsSubscribed
<1>1. GatewayInv => ListedIsSubscribed
  BY DEF GatewayInv, BaseInv
<1> QED
  BY <1>1, GatewayInvariant, PTL
=============================================================================
