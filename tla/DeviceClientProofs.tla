------------------------- MODULE DeviceClientProofs -------------------------
(***************************************************************************)
(* Proofs about DeviceClient, for any topics and handlers.                 *)
(*                                                                         *)
(* manage goes on to the management topics only after an answer, which     *)
(* arrives only through the callback of the present client.  From then on  *)
(* every handler that is passed is in mHandlers, and nothing but an        *)
(* unsubscribe, which these topics do not get, or the end of the session   *)
(* takes a listed topic from the broker.                                   *)
(***************************************************************************)
EXTENDS DeviceClient, SubscriptionsProofs

LastSubscription == Len(ManagementSubscriptions)

(* What the programs say about an operation. *)
OperationFits(o) ==
    /\ o.op = "unsubscribe" => o.topic \in {commandTopic, responseTopic}
    /\ "handler" \in DOMAIN o =>
          /\ o.topic # commandTopic
          /\ o.handler = firmwareHandler => o.topic \in Among(FirmwareTopics)
          /\ o.handler = actionHandler => o.topic \in Among(ActionTopics)

CallFits == \A i \in 1 .. Len(todo) : OperationFits(todo[i])

DroppedFits == dropped \subseteq {commandTopic, responseTopic}

(* The handlers that reply are called for their own topics only. *)
TablesFit ==
    /\ \A t \in Topics : <<t, firmwareHandler>> \in mHandlers => t \in Among(FirmwareTopics)
    /\ \A t \in Topics : <<t, actionHandler>> \in mHandlers => t \in Among(ActionTopics)

ArrivingFits ==
    arriving # <<>> =>
        /\ firmwareHandler \in Message.called => Message.topic \in Among(FirmwareTopics)
        /\ actionHandler \in Message.called => Message.topic \in Among(ActionTopics)

(* disconnect gets to its last operation without a command subscription. *)
CommandOnce == mSubscriptions[commandTopic] <= 1

DisconnectFits ==
    \A i \in 1 .. Len(todo) :
        todo[i] = Disconnect =>
            IF i = 1 THEN mSubscriptions[commandTopic] = 0
            ELSE todo[i - 1] = Unsubscribe(commandTopic)

(* What is left of manage: the last operations of its program. *)
Managing == todo # <<>> /\ LastSubscription > 0 /\ todo[Len(todo)] = ManagementSubscriptions[LastSubscription]

(* The operation k of manage, counted from its first management topic. *)
ManageOperation(k, o) ==
    /\ k > 0 => o = ManagementSubscriptions[k]
    /\ k = 0 => o = Await
    /\ k < 0 => o.op = "subscribe"

ManageShape ==
    Managing =>
        /\ Len(todo) <= LastSubscription + 2
        /\ \A i \in 1 .. Len(todo) : ManageOperation(LastSubscription - Len(todo) + i, todo[i])

Handled(k) ==
    <<ManagementSubscriptions[k].topic, ManagementSubscriptions[k].handler>> \in mHandlers

ManageProgress ==
    Managing /\ Len(todo) <= LastSubscription =>
        /\ callback_ptr = "current"
        /\ \A k \in 1 .. LastSubscription - Len(todo) : Handled(k)

ManagedHandled ==
    Managed /\ LastSubscription > 0 =>
        /\ callback_ptr = "current"
        /\ \A k \in 1 .. LastSubscription : Handled(k)

DeviceInv ==
    /\ BaseInv
    /\ CallFits
    /\ DroppedFits
    /\ TablesFit
    /\ ArrivingFits
    /\ CommandOnce
    /\ DisconnectFits
    /\ ManageShape
    /\ ManageProgress
    /\ ManagedHandled

-----------------------------------------------------------------------------

(* For makes an operation of each topic. *)
LEMMA ForFacts ==
    ASSUME NEW topics \in Seq(Topics), NEW handler \in Handlers
    PROVE  /\ For(topics, handler) \in Seq(Operations)
           /\ Len(For(topics, handler)) = Len(topics)
           /\ \A i \in 1 .. Len(topics) : For(topics, handler)[i] = SubscribeHandler(topics[i], handler)
<1>1. \A i \in 1 .. Len(topics) : SubscribeHandler(topics[i], handler) \in Operations
  BY DEF SubscribeHandler, Operations
<1>2. For(topics, handler) = [i \in 1 .. Len(topics) |-> SubscribeHandler(topics[i], handler)]
  BY DEF For
<1> QED
  BY <1>1, <1>2

(* The operations that manage ends with. *)
LEMMA SubscriptionFacts ==
    /\ ManagementSubscriptions \in Seq(Operations)
    /\ \A k \in 1 .. LastSubscription :
          LET o == ManagementSubscriptions[k]
          IN  /\ o.op = "subscribe"
              /\ "handler" \in DOMAIN o
              /\ o.handler \in Handlers
              /\ o.topic \in Topics \ {commandTopic, responseTopic}
              /\ OperationFits(o)
<1> USE TopicAssumption, DeviceHandlerAssumption
<1> DEFINE F == For(FirmwareTopics, firmwareHandler)
           A == For(ActionTopics, actionHandler)
           B == For(AttributeTopics, attributeHandler)
           Good(o) == /\ o.op = "subscribe"
                      /\ "handler" \in DOMAIN o
                      /\ o.handler \in Handlers
                      /\ o.topic \in Topics \ {commandTopic, responseTopic}
                      /\ OperationFits(o)
<1>1. ASSUME NEW topics \in {FirmwareTopics, ActionTopics, AttributeTopics}, NEW i \in 1 .. Len(topics)
      PROVE  topics[i] \in Among(topics) /\ topics[i] \in Topics \ {commandTopic, responseTopic}
  BY <1>1 DEF Among
<1>2. ASSUME NEW t \in Topics \ {commandTopic, responseTopic}, NEW h \in Handlers,
             h = firmwareHandler => t \in Among(FirmwareTopics),
             h = actionHandler => t \in Among(ActionTopics)
      PROVE  Good(SubscribeHandler(t, h))
  BY <1>2 DEF SubscribeHandler, OperationFits
<1> HIDE DEF Good
<1>3. /\ FirmwareTopics \in Seq(Topics) /\ ActionTopics \in Seq(Topics) /\ AttributeTopics \in Seq(Topics)
      /\ firmwareHandler \in Handlers /\ actionHandler \in Handlers /\ attributeHandler \in Handlers
      /\ attributeHandler \notin {firmwareHandler, actionHandler}
  OBVIOUS
<1>4. /\ F \in Seq(Operations) /\ \A i \in 1 .. Len(F) : Good(F[i])
      /\ A \in Seq(Operations) /\ \A i \in 1 .. Len(A) : Good(A[i])
      /\ B \in Seq(Operations) /\ \A i \in 1 .. Len(B) : Good(B[i])
  <2>1. F \in Seq(Operations) /\ \A i \in 1 .. Len(F) : Good(F[i])
    BY <1>1, <1>2, <1>3, ForFacts, ReplyAssumption
  <2>2. A \in Seq(Operations) /\ \A i \in 1 .. Len(A) : Good(A[i])
    BY <1>1, <1>2, <1>3, ForFacts, ReplyAssumption
  <2>3. B \in Seq(Operations) /\ \A i \in 1 .. Len(B) : Good(B[i])
    BY <1>1, <1>2, <1>3, ForFacts
  <2> QED
    BY <2>1, <2>2, <2>3
<1>5. ManagementSubscriptions = F \o A \o B
  BY DEF ManagementSubscriptions
<1> HIDE DEF F, A, B
<1>6. \A i \in 1 .. Len(F \o A) : Good((F \o A)[i])
  BY <1>4
<1>7. \A i \in 1 .. Len(F \o A \o B) : Good((F \o A \o B)[i])
  BY <1>4, <1>6
<1> QED
  BY <1>4, <1>5, <1>7 DEF LastSubscription, Good

(* The program of a call, as a whole. *)
ProgramFits(p) ==
    /\ p \in Seq(Operations)
    /\ \A i \in 1 .. Len(p) : OperationFits(p[i])
    /\ \A i \in 1 .. Len(p) : p[i] = Disconnect => i > 1 /\ p[i - 1] = Unsubscribe(commandTopic)
    /\ p # <<>> /\ LastSubscription > 0 /\ p[Len(p)] = ManagementSubscriptions[LastSubscription] =>
          /\ Len(p) = LastSubscription + 2
          /\ p[1].op = "subscribe"
          /\ p[2] = Await
          /\ \A i \in 3 .. Len(p) : p[i] = ManagementSubscriptions[i - 2]

(* Of programs of at most two operations only disconnect has a Disconnect. *)
LEMMA ShortPrograms ==
    ASSUME NEW a \in Operations, NEW b \in Operations,
           OperationFits(a), OperationFits(b),
           LastSubscription > 0 =>
               a # ManagementSubscriptions[LastSubscription] /\ b # ManagementSubscriptions[LastSubscription],
           a # Disconnect,
           b = Disconnect => a = Unsubscribe(commandTopic)
    PROVE  ProgramFits(<<>>) /\ ProgramFits(<<a>>) /\ ProgramFits(<<a, b>>)
<1>1. ProgramFits(<<>>)
  BY DEF ProgramFits
<1>2. ProgramFits(<<a>>)
  BY DEF ProgramFits
<1>3. ProgramFits(<<a, b>>)
  BY DEF ProgramFits
<1> QED
  BY <1>1, <1>2, <1>3

(* The programs of the calls fit. *)
LEMMA ProgramFacts ==
    ASSUME NEW p \in {connect, setCommandHandler, manage, pushManageMessage, unmanage, disconnect}
    PROVE  ProgramFits(p)
<1> USE TopicAssumption, DeviceHandlerAssumption, SubscriptionFacts
<1> DEFINE M == ManagementSubscriptions
           response == SubscribeHandler(responseTopic, mResponseHandler)
<1>1. /\ Connect \in Operations /\ Disconnect \in Operations /\ DeviceInfo \in Operations
      /\ SetCommandHandler \in Operations /\ Await \in Operations /\ Notify \in Operations
      /\ SubscribeTopic(commandTopic) \in Operations
      /\ Unsubscribe(commandTopic) \in Operations
      /\ Unsubscribe(responseTopic) \in Operations
      /\ response \in Operations
  BY DEF Connect, Disconnect, DeviceInfo, SetCommandHandler, Await, Notify, SubscribeTopic, Unsubscribe,
         SubscribeHandler, mResponseHandler, Operations
<1>2. \A o \in {Connect, Disconnect, DeviceInfo, SetCommandHandler, Await, Notify,
                SubscribeTopic(commandTopic), Unsubscribe(commandTopic), Unsubscribe(responseTopic), response} :
          OperationFits(o)
  <2>1. /\ OperationFits(Connect) /\ OperationFits(Disconnect) /\ OperationFits(DeviceInfo)
        /\ OperationFits(SetCommandHandler) /\ OperationFits(Await) /\ OperationFits(Notify)
    BY DEF Connect, Disconnect, DeviceInfo, SetCommandHandler, Await, Notify, OperationFits
  <2>2. /\ OperationFits(SubscribeTopic(commandTopic)) /\ OperationFits(Unsubscribe(commandTopic))
        /\ OperationFits(Unsubscribe(responseTopic))
    BY DEF SubscribeTopic, Unsubscribe, OperationFits
  <2>3. OperationFits(response)
    BY DEF SubscribeHandler, mResponseHandler, OperationFits
  <2> QED
    BY <2>1, <2>2, <2>3
<1>3. \A o \in {Connect, Disconnect, DeviceInfo, SetCommandHandler, Await, Notify,
                SubscribeTopic(commandTopic), Unsubscribe(commandTopic), Unsubscribe(responseTopic), response} :
          LastSubscription > 0 => o # M[LastSubscription]
  <2>1. LastSubscription \in Nat
    BY DEF LastSubscription
  <2> QED
    BY <2>1 DEF Connect, Disconnect, DeviceInfo, SetCommandHandler, Await, Notify, SubscribeTopic, Unsubscribe,
         SubscribeHandler
<1>4. \A o \in {Connect, DeviceInfo, SetCommandHandler, Await, Notify,
                SubscribeTopic(commandTopic), Unsubscribe(commandTopic), Unsubscribe(responseTopic), response} :
          o # Disconnect
  BY DEF Connect, Disconnect, DeviceInfo, SetCommandHandler, Await, Notify, SubscribeTopic, Unsubscribe,
         SubscribeHandler
<1>5. \A k \in 1 .. LastSubscription : M[k] # Disconnect
  BY DEF Disconnect
<1>6. M \in Seq(Operations) /\ LastSubscription = Len(M) /\ \A k \in 1 .. LastSubscription : OperationFits(M[k])
  BY DEF LastSubscription
<1>7. response.op = "subscribe"
  BY DEF SubscribeHandler
<1> HIDE DEF M, response
<1>8. CASE p = connect
  <2>1. p \in {<<>>, <<Connect>>, <<Connect, SubscribeTopic(commandTopic)>>}
    <3>1. <<Connect>> \o <<>> = <<Connect>>
      OBVIOUS
    <3>2. <<Connect>> \o <<SubscribeTopic(commandTopic)>> = <<Connect, SubscribeTopic(commandTopic)>>
      <4> DEFINE s == <<Connect>> \o <<SubscribeTopic(commandTopic)>>
                 t == <<Connect, SubscribeTopic(commandTopic)>>
      <4>1. s \in Seq(Operations) /\ t \in Seq(Operations) /\ Len(s) = 2 /\ Len(t) = 2
        BY <1>1
      <4>2. \A i \in 1 .. Len(s) : s[i] = t[i]
        BY <1>1
      <4> HIDE DEF s, t
      <4>3. s = t
        BY <4>1, <4>2, SeqEqual
      <4> QED
        BY <4>3 DEF s, t
    <3> QED
      BY <1>8, <3>1, <3>2 DEF connect
  <2> QED
    BY <1>1, <1>2, <1>3, <1>4, <2>1, ShortPrograms DEF M
<1>9. CASE p = setCommandHandler
  BY <1>1, <1>2, <1>3, <1>4, <1>9, ShortPrograms DEF M, setCommandHandler
<1>10. CASE p = pushManageMessage
  BY <1>1, <1>2, <1>3, <1>4, <1>10, ShortPrograms DEF M, pushManageMessage, response
<1>11. CASE p = unmanage
  BY <1>1, <1>2, <1>3, <1>4, <1>11, ShortPrograms DEF M, unmanage
<1>12. CASE p = disconnect
  BY <1>1, <1>2, <1>3, <1>4, <1>12, ShortPrograms DEF M, disconnect
<1>13. CASE p = manage
  <2>1. p \in {<<response>> \o (<<Await>> \o M), <<response>> \o <<Await>>, <<response>> \o <<DeviceInfo>>}
    BY <1>13 DEF manage, response, M
  <2>2. CASE p = <<response>> \o (<<Await>> \o M)
    <3>1. /\ Len(p) = Len(M) + 2
          /\ p[1] = response
          /\ p[2] = Await
          /\ \A i \in 3 .. Len(p) : p[i] = M[i - 2]
      BY <1>6, <2>2
    <3>2. p \in Seq(Operations)
      BY <1>1, <1>6, <2>2
    <3>3. ASSUME NEW i \in 1 .. Len(p) PROVE OperationFits(p[i]) /\ p[i] # Disconnect
      <4>1. CASE i \in {1, 2}
        BY <1>2, <1>4, <3>1, <4>1
      <4>2. CASE i \in 3 .. Len(p)
        <5>1. i - 2 \in 1 .. LastSubscription
          BY <1>6, <3>1, <4>2
        <5> QED
          BY <1>5, <1>6, <3>1, <4>2, <5>1
      <4> QED
        BY <1>6, <3>1, <4>1, <4>2
    <3> QED
      BY <1>6, <1>7, <3>1, <3>2, <3>3 DEF ProgramFits, M
  <2>3. CASE p \in {<<response, Await>>, <<response, DeviceInfo>>}
    BY <1>1, <1>2, <1>3, <1>4, <2>3, ShortPrograms DEF M
  <2> QED
    BY <2>1, <2>2, <2>3
<1> QED
  BY <1>8, <1>9, <1>10, <1>11, <1>12, <1>13

LEMMA LastNatural == LastSubscription \in Nat
BY SubscriptionFacts DEF LastSubscription

(* The shape of what is left stays when an operation is done. *)
LEMMA DoneShape ==
    ASSUME DeviceInv, todo # <<>>, todo' = Tail(todo)
    PROVE  CallFits' /\ ManageShape' /\ (Managing' => Managing)
<1> USE LastNatural
<1>1. /\ Len(todo) \in Nat \ {0}
      /\ Len(todo') = Len(todo) - 1
      /\ \A i \in 1 .. Len(todo') : todo'[i] = todo[i + 1]
      /\ todo' = <<>> <=> Len(todo) = 1
  BY TailFacts DEF DeviceInv, BaseInv
<1>2. CallFits'
  BY <1>1 DEF DeviceInv, CallFits
<1>3. Managing' => Managing
  BY <1>1 DEF Managing
<1>4. ASSUME Managing'
      PROVE  /\ Len(todo') <= LastSubscription + 2
             /\ \A i \in 1 .. Len(todo') : ManageOperation(LastSubscription - Len(todo') + i, todo'[i])
  <2>1. /\ Len(todo) <= LastSubscription + 2
        /\ \A i \in 1 .. Len(todo) : ManageOperation(LastSubscription - Len(todo) + i, todo[i])
    BY <1>3, <1>4 DEF DeviceInv, ManageShape
  <2>2. ASSUME NEW i \in 1 .. Len(todo')
        PROVE  ManageOperation(LastSubscription - Len(todo') + i, todo'[i])
    <3>1. i + 1 \in 1 .. Len(todo)
      BY <1>1
    <3>2. LastSubscription - Len(todo') + i = LastSubscription - Len(todo) + (i + 1)
      BY <1>1
    <3> QED
      BY <1>1, <2>1, <3>1, <3>2
  <2> QED
    BY <1>1, <2>1, <2>2
<1>5. ManageShape'
  BY <1>4 DEF ManageShape, ManageOperation
<1> QED
  BY <1>2, <1>3, <1>5

(* manage goes on: the operation that is done was Await, answered through  *)
(* the present callback, or a subscription that is now in mHandlers.       *)
LEMMA DoneManage ==
    ASSUME DeviceInv, todo # <<>>, NEW rc, Done(rc),
           Managing => /\ mHandlers \subseteq mHandlers'
                       /\ callback_ptr' = callback_ptr
                       /\ Head(todo) = Await => callback_ptr = "current"
                       /\ "handler" \in DOMAIN Head(todo) => <<Topic, Handler>> \in mHandlers'
    PROVE  ManageProgress' /\ ManagedHandled'
<1> USE LastNatural
<1>1. /\ Head(todo) = todo[1]
      /\ Len(todo) \in Nat \ {0}
      /\ todo' = Tail(todo)
      /\ Len(todo') = Len(todo) - 1
      /\ \A i \in 1 .. Len(todo') : todo'[i] = todo[i + 1]
      /\ todo' = <<>> <=> Len(todo) = 1
      /\ returned'.operation = Head(todo)
  BY TailFacts DEF DeviceInv, BaseInv, Done
<1>n. Len(todo) \in Nat \ {0} /\ Len(todo') = Len(todo) - 1
  BY <1>1
<1>2. Managing' => Managing
  BY <1>1, DoneShape
<1>3. Managed' /\ LastSubscription > 0 => Managing /\ Len(todo) = 1
  BY <1>1 DEF Managed, Managing, LastSubscription
<1>4. ASSUME Managing, Len(todo) <= LastSubscription + 1
      PROVE  /\ callback_ptr' = "current"
             /\ \A k \in 1 .. LastSubscription - Len(todo') : Handled(k)'
  <2> USE <1>4
  <2>1. ManageOperation(LastSubscription - Len(todo) + 1, Head(todo))
    BY <1>1 DEF DeviceInv, ManageShape
  <2>2. CASE Len(todo) = LastSubscription + 1
    <3>1. Head(todo) = Await
      BY <2>1, <2>2 DEF ManageOperation
    <3>2. 1 .. LastSubscription - Len(todo') = {}
      BY <1>1, <2>2
    <3> QED
      BY <3>1, <3>2
  <2>3. CASE Len(todo) <= LastSubscription
    <3>1. callback_ptr = "current" /\ \A k \in 1 .. LastSubscription - Len(todo) : Handled(k)
      BY <2>3 DEF DeviceInv, ManageProgress
    <3> DEFINE last == LastSubscription - Len(todo) + 1
    <3>a. last \in 1 .. LastSubscription
      BY <1>1, <2>3
    <3>b. last > 0 => Head(todo) = ManagementSubscriptions[last]
      BY <2>1 DEF ManageOperation
    <3>2. last \in 1 .. LastSubscription /\ Head(todo) = ManagementSubscriptions[last]
      BY <3>a, <3>b
    <3>3. "handler" \in DOMAIN Head(todo)
      BY <3>2, SubscriptionFacts
    <3>4. <<Head(todo).topic, Head(todo).handler>> \in mHandlers'
      BY <3>3 DEF Topic, Handler
    <3>5. \A k \in 1 .. LastSubscription - Len(todo') : k \in 1 .. LastSubscription - Len(todo) \/ k = last
      BY <1>1, <2>3
    <3>6. \A k \in 1 .. LastSubscription - Len(todo') : Handled(k)'
      BY <3>1, <3>2, <3>4, <3>5 DEF Handled
    <3> QED
      BY <3>1, <3>6
  <2>4. Len(todo) = LastSubscription + 1 \/ Len(todo) <= LastSubscription
    BY <1>n
  <2> QED
    BY <2>2, <2>3, <2>4
<1>5. ManageProgress'
  BY <1>1, <1>2, <1>4 DEF ManageProgress
<1>6. ManagedHandled'
  <2> SUFFICES ASSUME Managed', LastSubscription > 0
               PROVE  callback_ptr' = "current" /\ \A k \in 1 .. LastSubscription : Handled(k)'
    BY DEF ManagedHandled, LastSubscription, ManagementSubscriptions, For
  <2>1. Managing /\ Len(todo) = 1
    BY <1>3
  <2>2. Len(todo) <= LastSubscription + 1 /\ LastSubscription - Len(todo') = LastSubscription
    BY <1>n, <2>1
  <2> QED
    BY <1>4, <2>1, <2>2
<1> QED
  BY <1>5, <1>6

(* Only subscriptions and Await are left of manage. *)
LEMMA ManagingOp ==
    ASSUME DeviceInv, Managing
    PROVE  Head(todo).op \in {"subscribe", "await"}
<1> USE LastNatural
<1>1. /\ Head(todo) = todo[1]
      /\ Len(todo) \in Nat \ {0}
  BY TailFacts DEF DeviceInv, BaseInv, Managing
<1>2. ManageOperation(LastSubscription - Len(todo) + 1, todo[1])
  BY <1>1 DEF DeviceInv, ManageShape
<1>3. LastSubscription - Len(todo) + 1 \in 1 .. LastSubscription \/ LastSubscription - Len(todo) + 1 <= 0
  BY <1>1
<1> QED
  BY <1>1, <1>2, <1>3, SubscriptionFacts DEF Await, ManageOperation

(* The operation before Disconnect is the unsubscribe of the commands. *)
LEMMA DoneDisconnect ==
    ASSUME DeviceInv, todo # <<>>, todo' = Tail(todo),
           Head(todo).op = "unsubscribe" /\ Topic = commandTopic => mSubscriptions'[commandTopic] = 0
    PROVE  DisconnectFits'
<1>1. /\ Head(todo) = todo[1]
      /\ Len(todo) \in Nat \ {0}
      /\ Len(todo') = Len(todo) - 1
      /\ \A i \in 1 .. Len(todo') : todo'[i] = todo[i + 1]
  BY TailFacts DEF DeviceInv, BaseInv
<1> SUFFICES ASSUME NEW i \in 1 .. Len(todo'), todo'[i] = Disconnect
             PROVE  IF i = 1 THEN mSubscriptions'[commandTopic] = 0
                    ELSE todo'[i - 1] = Unsubscribe(commandTopic)
  BY DEF DisconnectFits
<1>2. i + 1 \in 1 .. Len(todo) /\ todo[i + 1] = Disconnect
  BY <1>1
<1>3. todo[i] = Unsubscribe(commandTopic)
  BY <1>1, <1>2 DEF DeviceInv, DisconnectFits
<1>4. CASE i = 1
  BY <1>1, <1>3, <1>4 DEF Unsubscribe, Topic
<1>5. CASE i # 1
  BY <1>1, <1>3, <1>5
<1> QED
  BY <1>4, <1>5

(* A call that is given up leaves nothing to fit. *)
LEMMA AbandonedFits ==
    ASSUME todo' = <<>>, returned'.rc = FALSE
    PROVE  CallFits' /\ ManageShape' /\ DisconnectFits' /\ ManageProgress' /\ ManagedHandled'
BY DEF CallFits, ManageShape, Managing, DisconnectFits, ManageProgress, ManagedHandled, Managed

(* A step inside a call preserves the invariant. *)
LEMMA InnerInv ==
    ASSUME DeviceInv, InnerStep(responseTopic)
    PROVE  DeviceInv'
<1> USE HandlerAssumption, TopicAssumption, DeviceHandlerAssumption
        DEF DeviceInv, sessionVars, connectVars, tableVars, configVars
<1> DEFINE n == LastSubscription
<1>0. /\ BaseInv
      /\ BaseInv'
      /\ todo \in Seq(Operations)
      /\ todo # <<>> =>
            /\ Head(todo) \in Operations
            /\ Head(todo) = todo[1]
            /\ Len(todo) > 0
            /\ Head(todo).op \in {"subscribe", "unsubscribe"} => Topic \in Topics
            /\ Handler \in Handlers \cup {NoHandler}
            /\ Handler # NoHandler => Head(todo).op = "subscribe"
  <2>1. BaseInv /\ BaseInv'
    BY InnerStepInv
  <2>2. TypeOK
    BY DEF BaseInv
  <2> QED
    BY <2>1, <2>2, RunningFacts, TailFacts DEF TypeOK
<1>1. ASSUME ConnectBegins PROVE DeviceInv'
  <2> USE <1>0, <1>1 DEF ConnectBegins, Running, PahoFree
  <2>1. CallFits' /\ ManageShape'
    BY DEF CallFits, ManageShape, Managing
  <2>2. DroppedFits' /\ TablesFit' /\ ArrivingFits'
    BY DEF BaseInv, TypeOK, CallFits, DroppedFits, TablesFit, ArrivingFits, Message
  <2>3. CommandOnce' /\ DisconnectFits'
    BY DEF BaseInv, TypeOK, WireFits, CallFits, CommandOnce, DisconnectFits, Disconnect
  <2>4. ManageProgress' /\ ManagedHandled'
    BY ManagingOp DEF ManageProgress, ManagedHandled, Managed, Managing
  <2> QED
    BY <2>1, <2>2, <2>3, <2>4
<1>2. ASSUME ConnackCompletes PROVE DeviceInv'
  <2> USE <1>0, <1>2 DEF ConnackCompletes, Running, PahoFree
  <2>1. CallFits' /\ ManageShape'
    BY DEF CallFits, ManageShape, Managing
  <2>2. DroppedFits' /\ TablesFit' /\ ArrivingFits'
    BY DEF BaseInv, TypeOK, CallFits, DroppedFits, TablesFit, ArrivingFits, Message
  <2>3. CommandOnce' /\ DisconnectFits'
    BY DEF BaseInv, TypeOK, WireFits, CallFits, CommandOnce, DisconnectFits, Disconnect
  <2>4. ManageProgress' /\ ManagedHandled'
    BY DEF BaseInv, TypeOK, WireFits, ManageShape, Managing, ManageProgress, ManagedHandled, Managed, Handled
  <2> QED
    BY <2>1, <2>2, <2>3, <2>4
<1>3. ASSUME ListenerRuns PROVE DeviceInv'
  <2> USE <1>0, <1>3 DEF ListenerRuns, Running, PahoFree
  <2>1. CallFits' /\ ManageShape'
    BY DEF CallFits, ManageShape, Managing
  <2>2. DroppedFits' /\ TablesFit' /\ ArrivingFits'
    BY DEF BaseInv, TypeOK, CallFits, DroppedFits, TablesFit, ArrivingFits, Message
  <2>3. CommandOnce' /\ DisconnectFits'
    BY DEF BaseInv, TypeOK, WireFits, CallFits, CommandOnce, DisconnectFits, Disconnect
  <2>4. ManageProgress' /\ ManagedHandled'
    BY DEF BaseInv, TypeOK, WireFits, ManageShape, Managing, ManageProgress, ManagedHandled, Managed, Handled
  <2> QED
    BY <2>1, <2>2, <2>3, <2>4
<1>4. ASSUME ConnectReturns PROVE DeviceInv'
  <2> USE <1>0, <1>4 DEF ConnectReturns, Running, Installed, Done, GiveUp, PahoFree
  <2>1. CallFits' /\ ManageShape'
    <3>1. CASE Done(TRUE)
      BY <3>1, DoneShape
    <3>2. CASE GiveUp
      BY <3>2, AbandonedFits
    <3> QED
      BY <3>1, <3>2
  <2>2. DroppedFits' /\ TablesFit' /\ ArrivingFits'
    BY DEF BaseInv, TypeOK, CallFits, DroppedFits, TablesFit, ArrivingFits, Message
  <2>3. CommandOnce' /\ DisconnectFits'
    <3>1. mSubscriptions'[commandTopic] \in {0, mSubscriptions[commandTopic]}
      OBVIOUS
    <3>2. CASE Done(TRUE)
      BY <3>1, <3>2, DoneDisconnect DEF BaseInv, TypeOK, CommandOnce
    <3>3. CASE GiveUp
      BY <3>1, <3>3, AbandonedFits DEF BaseInv, TypeOK, CommandOnce
    <3> QED
      BY <3>2, <3>3
  <2>4. ManageProgress' /\ ManagedHandled'
    <3>1. CASE Done(TRUE)
      BY <3>1, ManagingOp, DoneManage
    <3>2. CASE GiveUp
      BY <3>2, AbandonedFits
    <3> QED
      BY <3>1, <3>2
  <2> QED
    BY <2>1, <2>2, <2>3, <2>4
<1>5. ASSUME ConnectThrows PROVE DeviceInv'
  <2> USE <1>0, <1>5 DEF ConnectThrows, Running, Throw, PahoFree
  <2>1. CallFits' /\ ManageShape'
    BY DEF CallFits, ManageShape, Managing
  <2>2. DroppedFits' /\ TablesFit' /\ ArrivingFits'
    BY DEF BaseInv, TypeOK, CallFits, DroppedFits, TablesFit, ArrivingFits, Message
  <2>3. CommandOnce' /\ DisconnectFits'
    BY DEF BaseInv, TypeOK, WireFits, CallFits, CommandOnce, DisconnectFits, Disconnect
  <2>4. ManageProgress' /\ ManagedHandled'
    BY AbandonedFits DEF NoOperation
  <2> QED
    BY <2>1, <2>2, <2>3, <2>4
<1>6. ASSUME OrphanedListenerRuns PROVE DeviceInv'
  <2> USE <1>0, <1>6 DEF OrphanedListenerRuns, Running, LateAnswer, PahoFree
  <2>1. CallFits' /\ ManageShape'
    BY DEF CallFits, ManageShape, Managing
  <2>2. DroppedFits' /\ TablesFit' /\ ArrivingFits'
    BY DEF BaseInv, TypeOK, CallFits, DroppedFits, TablesFit, ArrivingFits, Message
  <2>3. CommandOnce' /\ DisconnectFits'
    BY DEF BaseInv, TypeOK, WireFits, CallFits, CommandOnce, DisconnectFits, Disconnect
  <2>4. ManageProgress' /\ ManagedHandled'
    BY DEF BaseInv, TypeOK, WireFits, ManageShape, Managing, ManageProgress, ManagedHandled, Managed, Handled
  <2> QED
    BY <2>1, <2>2, <2>3, <2>4
<1>7. ASSUME NullCallback PROVE DeviceInv'
  <2> USE <1>0, <1>7 DEF NullCallback, Running, Crash, PahoFree
  <2>1. CallFits' /\ ManageShape'
    BY DEF CallFits, ManageShape, Managing
  <2>2. DroppedFits' /\ TablesFit' /\ ArrivingFits'
    BY DEF BaseInv, TypeOK, CallFits, DroppedFits, TablesFit, ArrivingFits, Message
  <2>3. CommandOnce' /\ DisconnectFits'
    BY DEF BaseInv, TypeOK, WireFits, CallFits, CommandOnce, DisconnectFits, Disconnect
  <2>4. ManageProgress' /\ ManagedHandled'
    BY DEF BaseInv, TypeOK, WireFits, ManageShape, Managing, ManageProgress, ManagedHandled, Managed, Handled
  <2> QED
    BY <2>1, <2>2, <2>3, <2>4
<1>8. ASSUME NothingToDo PROVE DeviceInv'
  <2> USE <1>0, <1>8 DEF NothingToDo, Running, check_subscription, Done, PahoFree
  <2>1. CallFits' /\ ManageShape'
    BY DoneShape
  <2>2. DroppedFits' /\ TablesFit' /\ ArrivingFits'
    BY DEF BaseInv, TypeOK, CallFits, DroppedFits, TablesFit, ArrivingFits, Message
  <2>3. CommandOnce' /\ DisconnectFits'
    BY DoneDisconnect DEF BaseInv, TypeOK, CommandOnce, Topic, Handler
  <2>4. ManageProgress' /\ ManagedHandled'
    <3>1. CASE Running("subscribe") /\ check_subscription /\ Done(TRUE)
      <4>1. "handler" \in DOMAIN Head(todo) => <<Topic, Handler>> \in mHandlers
        BY <3>1, OperationFacts DEF Handler
      <4>2. Head(todo) # Await
        BY <3>1 DEF Await
      <4>3. UNCHANGED <<mHandlers, callback_ptr>>
        OBVIOUS
      <4> QED
        BY <3>1, <4>1, <4>2, <4>3, DoneManage
    <3>2. CASE Running("unsubscribe") /\ Done(FALSE)
      BY <3>2, ManagingOp, DoneManage
    <3> QED
      BY <3>1, <3>2
  <2> QED
    BY <2>1, <2>2, <2>3, <2>4
<1>9. ASSUME RequestRefused PROVE DeviceInv'
  <2> USE <1>0, <1>9 DEF RequestRefused, Running, Throw, PahoFree
  <2>1. CallFits' /\ ManageShape'
    BY DEF CallFits, ManageShape, Managing
  <2>2. DroppedFits' /\ TablesFit' /\ ArrivingFits'
    BY DEF BaseInv, TypeOK, CallFits, DroppedFits, TablesFit, ArrivingFits, Message
  <2>3. CommandOnce' /\ DisconnectFits'
    BY DEF BaseInv, TypeOK, WireFits, CallFits, CommandOnce, DisconnectFits, Disconnect
  <2>4. ManageProgress' /\ ManagedHandled'
    BY AbandonedFits DEF NoOperation
  <2> QED
    BY <2>1, <2>2, <2>3, <2>4
<1>10. ASSUME RequestSent PROVE DeviceInv'
  <2> USE <1>0, <1>10 DEF RequestSent, Running, PahoFree
  <2>1. CallFits' /\ ManageShape'
    BY DEF CallFits, ManageShape, Managing
  <2>2. DroppedFits' /\ TablesFit' /\ ArrivingFits'
    <3>1. dropped' \subseteq {commandTopic, responseTopic}
      BY DEF DroppedFits, CallFits, OperationFits, Topic, Needed
    <3> QED
      BY <3>1 DEF DroppedFits, TablesFit, ArrivingFits, Message
  <2>3. CommandOnce' /\ DisconnectFits'
    BY DEF BaseInv, TypeOK, WireFits, CallFits, CommandOnce, DisconnectFits, Disconnect
  <2>4. ManageProgress' /\ ManagedHandled'
    BY DEF BaseInv, TypeOK, WireFits, ManageShape, Managing, ManageProgress, ManagedHandled, Managed, Handled
  <2> QED
    BY <2>1, <2>2, <2>3, <2>4
<1>11. ASSUME RequestAcknowledged PROVE DeviceInv'
  <2> USE <1>0, <1>11 DEF RequestAcknowledged, Running, PahoFree
  <2>1. CallFits' /\ ManageShape'
    BY DEF CallFits, ManageShape, Managing
  <2>2. DroppedFits' /\ TablesFit' /\ ArrivingFits'
    BY DEF BaseInv, TypeOK, CallFits, DroppedFits, TablesFit, ArrivingFits, Message
  <2>3. CommandOnce' /\ DisconnectFits'
    BY DEF BaseInv, TypeOK, WireFits, CallFits, CommandOnce, DisconnectFits, Disconnect
  <2>4. ManageProgress' /\ ManagedHandled'
    BY DEF BaseInv, TypeOK, WireFits, ManageShape, Managing, ManageProgress, ManagedHandled, Managed, Handled
  <2> QED
    BY <2>1, <2>2, <2>3, <2>4
<1>12. ASSUME RequestThrows PROVE DeviceInv'
  <2> USE <1>0, <1>12 DEF RequestThrows, Running, Throw, PahoFree
  <2>1. CallFits' /\ ManageShape'
    BY DEF CallFits, ManageShape, Managing
  <2>2. DroppedFits' /\ TablesFit' /\ ArrivingFits'
    BY DEF BaseInv, TypeOK, CallFits, DroppedFits, TablesFit, ArrivingFits, Message
  <2>3. CommandOnce' /\ DisconnectFits'
    BY DEF BaseInv, TypeOK, WireFits, CallFits, CommandOnce, DisconnectFits, Disconnect
  <2>4. ManageProgress' /\ ManagedHandled'
    BY AbandonedFits DEF NoOperation
  <2> QED
    BY <2>1, <2>2, <2>3, <2>4
<1>13. ASSUME SubscribeReturns PROVE DeviceInv'
  <2> USE <1>0, <1>13 DEF SubscribeReturns, Running, add_subscription, Done, PahoFree
  <2>1. CallFits' /\ ManageShape'
    BY DoneShape
  <2>2. DroppedFits' /\ TablesFit' /\ ArrivingFits'
    BY DEF BaseInv, TypeOK, CallFits, DroppedFits, TablesFit, ArrivingFits, Message
  <2>3. CommandOnce' /\ DisconnectFits'
    <3>1. Topic # commandTopic => mSubscriptions'[commandTopic] = mSubscriptions[commandTopic]
      BY DEF BaseInv, TypeOK
    <3>2. Topic = commandTopic => mSubscriptions'[commandTopic] = 1
      BY DEF BaseInv, TypeOK, RequestFits
    <3> QED
      BY <3>1, <3>2, DoneDisconnect DEF CommandOnce
  <2>4. ManageProgress' /\ ManagedHandled'
    <3>1. "handler" \notin DOMAIN Head(todo)
      BY OperationFacts DEF Handler
    <3>2. ~Managing \/ Head(todo).op = "subscribe"
      OBVIOUS
    <3> QED
      BY <3>1, <3>2, DoneManage DEF Await
  <2> QED
    BY <2>1, <2>2, <2>3, <2>4
<1>14. ASSUME HandlerInserted PROVE DeviceInv'
  <2> USE <1>0, <1>14 DEF HandlerInserted, Running, add_subscription, PahoFree
  <2>1. CallFits' /\ ManageShape'
    BY DEF CallFits, ManageShape, Managing
  <2>2. DroppedFits' /\ TablesFit' /\ ArrivingFits'
    <3>1. "handler" \in DOMAIN Head(todo) /\ OperationFits(Head(todo))
      BY DEF Handler, CallFits
    <3>2. /\ Handler = firmwareHandler => Topic \in Among(FirmwareTopics)
          /\ Handler = actionHandler => Topic \in Among(ActionTopics)
      BY <3>1 DEF OperationFits, Topic, Handler
    <3> QED
      BY <3>2 DEF DroppedFits, TablesFit, ArrivingFits, Message
  <2>3. CommandOnce' /\ DisconnectFits'
    <3>1. "handler" \in DOMAIN Head(todo) /\ OperationFits(Head(todo))
      BY DEF Handler, CallFits
    <3>2. Topic # commandTopic
      BY <3>1 DEF OperationFits, Topic
    <3>3. mSubscriptions'[commandTopic] = mSubscriptions[commandTopic]
      BY <3>2 DEF BaseInv, TypeOK
    <3> QED
      BY <3>3 DEF CommandOnce, DisconnectFits
  <2>4. ManageProgress' /\ ManagedHandled'
    BY DEF BaseInv, TypeOK, WireFits, ManageShape, Managing, ManageProgress, ManagedHandled, Managed, Handled
  <2> QED
    BY <2>1, <2>2, <2>3, <2>4
<1>15. ASSUME HandlerReturns PROVE DeviceInv'
  <2> USE <1>0, <1>15 DEF HandlerReturns, Running, Crash, Done, PahoFree
  <2>1. CallFits' /\ ManageShape'
    <3>1. CASE Done(TRUE)
      BY <3>1, DoneShape
    <3>2. CASE Crash
      BY <3>2 DEF CallFits, ManageShape, Managing
    <3> QED
      BY <3>1, <3>2
  <2>2. DroppedFits' /\ TablesFit' /\ ArrivingFits'
    BY DEF BaseInv, TypeOK, CallFits, DroppedFits, TablesFit, ArrivingFits, Message
  <2>3. CommandOnce' /\ DisconnectFits'
    <3>1. CASE Done(TRUE)
      BY <3>1, DoneDisconnect DEF CommandOnce
    <3>2. CASE Crash
      BY <3>2 DEF CommandOnce, DisconnectFits
    <3> QED
      BY <3>1, <3>2
  <2>4. ManageProgress' /\ ManagedHandled'
    <3>1. CASE Done(TRUE)
      <4>1. <<Topic, Handler>> \in mHandlers
        BY DEF BaseInv, WireFits
      <4>2. Head(todo) # Await
        BY DEF Await
      <4> QED
        BY <3>1, <4>1, <4>2, DoneManage
    <3>2. CASE Crash
      BY <3>2 DEF ManageProgress, ManagedHandled, Managed, Managing, Handled
    <3> QED
      BY <3>1, <3>2
  <2> QED
    BY <2>1, <2>2, <2>3, <2>4
<1>16. ASSUME UnsubscribeReturns PROVE DeviceInv'
  <2> USE <1>0, <1>16 DEF UnsubscribeReturns, Running, Done, PahoFree
  <2>1. CallFits' /\ ManageShape'
    BY DoneShape
  <2>2. DroppedFits' /\ TablesFit' /\ ArrivingFits'
    BY DEF BaseInv, TypeOK, CallFits, DroppedFits, TablesFit, ArrivingFits, Message
  <2>3. CommandOnce' /\ DisconnectFits'
    <3>1. Topic # commandTopic => mSubscriptions'[commandTopic] = mSubscriptions[commandTopic]
      BY DEF BaseInv, TypeOK
    <3>2. Topic = commandTopic => mSubscriptions'[commandTopic] = 0
      BY DEF BaseInv, TypeOK, RequestFits, CommandOnce
    <3> QED
      BY <3>1, <3>2, DoneDisconnect DEF CommandOnce
  <2>4. ManageProgress' /\ ManagedHandled'
    BY ManagingOp, DoneManage
  <2> QED
    BY <2>1, <2>2, <2>3, <2>4
<1>17. ASSUME WildPointer PROVE DeviceInv'
  <2> USE <1>0, <1>17 DEF WildPointer, Running, Crash, PahoFree
  <2>1. CallFits' /\ ManageShape'
    BY DEF CallFits, ManageShape, Managing
  <2>2. DroppedFits' /\ TablesFit' /\ ArrivingFits'
    BY DEF BaseInv, TypeOK, CallFits, DroppedFits, TablesFit, ArrivingFits, Message
  <2>3. CommandOnce' /\ DisconnectFits'
    BY DEF BaseInv, TypeOK, WireFits, CallFits, CommandOnce, DisconnectFits, Disconnect
  <2>4. ManageProgress' /\ ManagedHandled'
    BY DEF BaseInv, TypeOK, WireFits, ManageShape, Managing, ManageProgress, ManagedHandled, Managed, Handled
  <2> QED
    BY <2>1, <2>2, <2>3, <2>4
<1>18. ASSUME SendThrows PROVE DeviceInv'
  <2> USE <1>0, <1>18 DEF SendThrows, Running, Throw, PahoFree
  <2>1. CallFits' /\ ManageShape'
    BY DEF CallFits, ManageShape, Managing
  <2>2. DroppedFits' /\ TablesFit' /\ ArrivingFits'
    BY DEF BaseInv, TypeOK, CallFits, DroppedFits, TablesFit, ArrivingFits, Message
  <2>3. CommandOnce' /\ DisconnectFits'
    BY DEF BaseInv, TypeOK, WireFits, CallFits, CommandOnce, DisconnectFits, Disconnect
  <2>4. ManageProgress' /\ ManagedHandled'
    BY AbandonedFits DEF NoOperation
  <2> QED
    BY <2>1, <2>2, <2>3, <2>4
<1>19. ASSUME NotifySent PROVE DeviceInv'
  <2> USE <1>0, <1>19 DEF NotifySent, Running, Done, PahoFree
  <2>1. CallFits' /\ ManageShape'
    BY DoneShape
  <2>2. DroppedFits' /\ TablesFit' /\ ArrivingFits'
    BY DEF BaseInv, TypeOK, CallFits, DroppedFits, TablesFit, ArrivingFits, Message
  <2>3. CommandOnce' /\ DisconnectFits'
    BY DoneDisconnect DEF CommandOnce
  <2>4. ManageProgress' /\ ManagedHandled'
    BY ManagingOp, DoneManage
  <2> QED
    BY <2>1, <2>2, <2>3, <2>4
<1>20. ASSUME AnswerAccepted(responseTopic) PROVE DeviceInv'
  <2> USE <1>0, <1>20 DEF AnswerAccepted, Running, Done, PahoFree
  <2>1. CallFits' /\ ManageShape'
    BY DoneShape
  <2>2. DroppedFits' /\ TablesFit' /\ ArrivingFits'
    BY DEF BaseInv, TypeOK, CallFits, DroppedFits, TablesFit, ArrivingFits, Message
  <2>3. CommandOnce' /\ DisconnectFits'
    BY DoneDisconnect DEF CommandOnce
  <2>4. ManageProgress' /\ ManagedHandled'
    <3>1. "handler" \notin DOMAIN Head(todo)
      BY OperationFacts
    <3> QED
      BY <3>1, DoneManage
  <2> QED
    BY <2>1, <2>2, <2>3, <2>4
<1>21. ASSUME AnswerRefused PROVE DeviceInv'
  <2> USE <1>0, <1>21 DEF AnswerRefused, Running, GiveUp, PahoFree
  <2>1. CallFits' /\ ManageShape'
    BY DEF CallFits, ManageShape, Managing
  <2>2. DroppedFits' /\ TablesFit' /\ ArrivingFits'
    BY DEF BaseInv, TypeOK, CallFits, DroppedFits, TablesFit, ArrivingFits, Message
  <2>3. CommandOnce' /\ DisconnectFits'
    BY DEF BaseInv, TypeOK, WireFits, CallFits, CommandOnce, DisconnectFits, Disconnect
  <2>4. ManageProgress' /\ ManagedHandled'
    BY AbandonedFits DEF NoOperation
  <2> QED
    BY <2>1, <2>2, <2>3, <2>4
<1>22. ASSUME CommandHandlerSet PROVE DeviceInv'
  <2> USE <1>0, <1>22 DEF CommandHandlerSet, Running, Done, PahoFree
  <2>1. CallFits' /\ ManageShape'
    BY DoneShape
  <2>2. DroppedFits' /\ TablesFit' /\ ArrivingFits'
    BY DEF BaseInv, TypeOK, CallFits, DroppedFits, TablesFit, ArrivingFits, Message
  <2>3. CommandOnce' /\ DisconnectFits'
    BY DoneDisconnect DEF CommandOnce
  <2>4. ManageProgress' /\ ManagedHandled'
    BY ManagingOp, DoneManage
  <2> QED
    BY <2>1, <2>2, <2>3, <2>4
<1>23. ASSUME DisconnectReturns PROVE DeviceInv'
  <2> USE <1>0, <1>23 DEF DisconnectReturns, Running, Done, PahoFree
  <2>1. CallFits' /\ ManageShape'
    BY DoneShape
  <2>2. DroppedFits' /\ TablesFit' /\ ArrivingFits'
    BY DEF BaseInv, TypeOK, CallFits, DroppedFits, TablesFit, ArrivingFits, Message
  <2>3. CommandOnce' /\ DisconnectFits'
    BY DoneDisconnect DEF CommandOnce
  <2>4. ManageProgress' /\ ManagedHandled'
    BY ManagingOp, DoneManage
  <2> QED
    BY <2>1, <2>2, <2>3, <2>4
<1>24. ASSUME DisconnectThrows PROVE DeviceInv'
  <2> USE <1>0, <1>24 DEF DisconnectThrows, Running, Throw, PahoFree
  <2>1. CallFits' /\ ManageShape'
    BY DEF CallFits, ManageShape, Managing
  <2>2. DroppedFits' /\ TablesFit' /\ ArrivingFits'
    BY DEF BaseInv, TypeOK, CallFits, DroppedFits, TablesFit, ArrivingFits, Message
  <2>3. CommandOnce' /\ DisconnectFits'
    BY DEF BaseInv, TypeOK, WireFits, CallFits, CommandOnce, DisconnectFits, Disconnect
  <2>4. ManageProgress' /\ ManagedHandled'
    BY AbandonedFits DEF NoOperation
  <2> QED
    BY <2>1, <2>2, <2>3, <2>4
<1>25. ASSUME MessageArrived PROVE DeviceInv'
  <2> USE <1>0, <1>25 DEF MessageArrived, Running, PahoFree
  <2>1. CallFits' /\ ManageShape'
    BY DEF CallFits, ManageShape, Managing
  <2>2. DroppedFits' /\ TablesFit' /\ ArrivingFits'
    BY DEF BaseInv, TypeOK, CallFits, DroppedFits, TablesFit, ArrivingFits, Message
  <2>3. CommandOnce' /\ DisconnectFits'
    BY DEF BaseInv, TypeOK, WireFits, CallFits, CommandOnce, DisconnectFits, Disconnect
  <2>4. ManageProgress' /\ ManagedHandled'
    BY DEF BaseInv, TypeOK, WireFits, ManageShape, Managing, ManageProgress, ManagedHandled, Managed, Handled
  <2> QED
    BY <2>1, <2>2, <2>3, <2>4
<1>26. ASSUME NextHandler PROVE DeviceInv'
  <2> USE <1>0, <1>26 DEF NextHandler, Running, Uncalled, PahoFree
  <2>1. CallFits' /\ ManageShape'
    BY DEF CallFits, ManageShape, Managing
  <2>2. DroppedFits' /\ TablesFit' /\ ArrivingFits'
    <3>1. PICK h \in Uncalled :
            arriving' = <<[Message EXCEPT
                               !.called = @ \cup {h},
                               !.replies = @ + One(Sends(h)) + One(Returns(h))]>>
      OBVIOUS
    <3>2. Message \in Messages
      BY DEF BaseInv, TypeOK, Message
    <3>3. Message'.topic = Message.topic /\ Message'.called = Message.called \cup {h}
      BY <3>1, <3>2 DEF Message, Messages
    <3>4. Message.topic \in Topics
      BY <3>2 DEF Messages
    <3> QED
      BY <3>3, <3>4 DEF DroppedFits, TablesFit, ArrivingFits
  <2>3. CommandOnce' /\ DisconnectFits'
    BY DEF BaseInv, TypeOK, WireFits, CallFits, CommandOnce, DisconnectFits, Disconnect
  <2>4. ManageProgress' /\ ManagedHandled'
    BY DEF BaseInv, TypeOK, WireFits, ManageShape, Managing, ManageProgress, ManagedHandled, Managed, Handled
  <2> QED
    BY <2>1, <2>2, <2>3, <2>4
<1>27. ASSUME DispatchReturns PROVE DeviceInv'
  <2> USE <1>0, <1>27 DEF DispatchReturns, Running, PahoFree
  <2>1. CallFits' /\ ManageShape'
    BY DEF CallFits, ManageShape, Managing
  <2>2. DroppedFits' /\ TablesFit' /\ ArrivingFits'
    BY DEF BaseInv, TypeOK, CallFits, DroppedFits, TablesFit, ArrivingFits, Message
  <2>3. CommandOnce' /\ DisconnectFits'
    BY DEF BaseInv, TypeOK, WireFits, CallFits, CommandOnce, DisconnectFits, Disconnect
  <2>4. ManageProgress' /\ ManagedHandled'
    BY DEF BaseInv, TypeOK, WireFits, ManageShape, Managing, ManageProgress, ManagedHandled, Managed, Handled
  <2> QED
    BY <2>1, <2>2, <2>3, <2>4
<1>28. ASSUME ConnectionLost PROVE DeviceInv'
  <2> USE <1>0, <1>28 DEF ConnectionLost, Running, PahoFree
  <2>1. CallFits' /\ ManageShape'
    BY DEF CallFits, ManageShape, Managing
  <2>2. DroppedFits' /\ TablesFit' /\ ArrivingFits'
    BY DEF BaseInv, TypeOK, CallFits, DroppedFits, TablesFit, ArrivingFits, Message
  <2>3. CommandOnce' /\ DisconnectFits'
    BY DEF BaseInv, TypeOK, WireFits, CallFits, CommandOnce, DisconnectFits, Disconnect
  <2>4. ManageProgress' /\ ManagedHandled'
    BY DEF BaseInv, TypeOK, WireFits, ManageShape, Managing, ManageProgress, ManagedHandled, Managed, Handled
  <2> QED
    BY <2>1, <2>2, <2>3, <2>4
<1>29. ASSUME DisconnectSent PROVE DeviceInv'
  <2> USE <1>0, <1>29 DEF DisconnectSent, Running, PahoFree
  <2>1. CallFits' /\ ManageShape'
    BY DEF CallFits, ManageShape, Managing
  <2>2. DroppedFits' /\ TablesFit' /\ ArrivingFits'
    BY DEF BaseInv, TypeOK, CallFits, DroppedFits, TablesFit, ArrivingFits, Message
  <2>3. CommandOnce' /\ DisconnectFits'
    BY DEF BaseInv, TypeOK, WireFits, CallFits, CommandOnce, DisconnectFits, Disconnect
  <2>4. ManageProgress' /\ ManagedHandled'
    BY DEF BaseInv, TypeOK, WireFits, ManageShape, Managing, ManageProgress, ManagedHandled, Managed, Handled
  <2> QED
    BY <2>1, <2>2, <2>3, <2>4
<1>30. ASSUME DisconnectDropped PROVE DeviceInv'
  <2> USE <1>0, <1>30 DEF DisconnectDropped, Running, PahoFree
  <2>1. CallFits' /\ ManageShape'
    BY DEF CallFits, ManageShape, Managing
  <2>2. DroppedFits' /\ TablesFit' /\ ArrivingFits'
    BY DEF BaseInv, TypeOK, CallFits, DroppedFits, TablesFit, ArrivingFits, Message
  <2>3. CommandOnce' /\ DisconnectFits'
    BY DEF BaseInv, TypeOK, WireFits, CallFits, CommandOnce, DisconnectFits, Disconnect
  <2>4. ManageProgress' /\ ManagedHandled'
    BY DEF BaseInv, TypeOK, WireFits, ManageShape, Managing, ManageProgress, ManagedHandled, Managed, Handled
  <2> QED
    BY <2>1, <2>2, <2>3, <2>4
<1> QED
  BY <1>1, <1>2, <1>3, <1>4, <1>5, <1>6, <1>7, <1>8, <1>9, <1>10, <1>11, <1>12, <1>13, <1>14, <1>15,
     <1>16, <1>17, <1>18, <1>19, <1>20, <1>21, <1>22, <1>23, <1>24, <1>25, <1>26, <1>27, <1>28,
     <1>29, <1>30 DEF InnerStep, ApplicationStep, PahoStep, DispatchStep

(* The invariant holds in a new client. *)
LEMMA InitInv ==
    ASSUME Init(DeviceInitializes)
    PROVE  DeviceInv
<1> USE TopicAssumption
<1>1. BaseInv
  BY InitBase
<1>2. CallFits /\ DisconnectFits /\ ManageShape /\ ManageProgress /\ ManagedHandled
  BY DEF Init, CallFits, DisconnectFits, ManageShape, Managing, ManageProgress, ManagedHandled, Managed, NoOperation
<1>3. DroppedFits /\ TablesFit /\ ArrivingFits /\ CommandOnce
  BY DEF Init, DroppedFits, TablesFit, ArrivingFits, CommandOnce
<1> QED
  BY <1>1, <1>2, <1>3 DEF DeviceInv

(* A call starts with its program. *)
LEMMA BeginInv ==
    ASSUME DeviceInv, ApiCall
    PROVE  DeviceInv'
<1>1. PICK p \in {connect, setCommandHandler, manage, pushManageMessage, unmanage, disconnect} : Begin(p)
  BY DEF ApiCall
<1>2. ProgramFits(p)
  BY <1>1, ProgramFacts
<1>3. /\ todo' = p
      /\ returned' = NoOperation
      /\ UNCHANGED <<dropped, mHandlers, mSubscriptions, arriving, callback_ptr>>
  BY <1>1 DEF Begin, sessionVars, tableVars
<1>4. BaseInv'
  BY <1>1, <1>2, BeginBase DEF DeviceInv, ProgramFits
<1>5. CallFits' /\ DisconnectFits'
  BY <1>2, <1>3 DEF ProgramFits, CallFits, DisconnectFits
<1>6. DroppedFits' /\ TablesFit' /\ ArrivingFits' /\ CommandOnce'
  BY <1>3 DEF DeviceInv, DroppedFits, TablesFit, ArrivingFits, Message, CommandOnce
<1>7. ManagedHandled'
  BY <1>3 DEF ManagedHandled, Managed, NoOperation
<1>8. ASSUME Managing'
      PROVE  /\ Len(p) = LastSubscription + 2
             /\ \A i \in 1 .. Len(p) : ManageOperation(LastSubscription - Len(p) + i, p[i])
  <2>1. p # <<>> /\ LastSubscription > 0 /\ p[Len(p)] = ManagementSubscriptions[LastSubscription]
    BY <1>3, <1>8 DEF Managing, LastSubscription, ManagementSubscriptions, For
  <2>2. /\ Len(p) = LastSubscription + 2
        /\ p[1].op = "subscribe"
        /\ p[2] = Await
        /\ \A i \in 3 .. Len(p) : p[i] = ManagementSubscriptions[i - 2]
    BY <1>2, <2>1 DEF ProgramFits
  <2>3. ASSUME NEW i \in 1 .. Len(p) PROVE ManageOperation(i - 2, p[i])
    <3>1. i \in {1, 2} \/ i \in 3 .. Len(p)
      BY <2>2, LastNatural
    <3> QED
      BY <2>2, <3>1 DEF ManageOperation
  <2>4. \A i \in 1 .. Len(p) : LastSubscription - Len(p) + i = i - 2
    BY <2>2, LastNatural
  <2> QED
    BY <2>2, <2>3, <2>4
<1>9. ManageShape' /\ ManageProgress'
  BY <1>3, <1>8, LastNatural DEF ManageShape, ManageProgress, ManageOperation
<1> QED
  BY <1>4, <1>5, <1>6, <1>7, <1>9 DEF DeviceInv

LEMMA StutterInv ==
    ASSUME DeviceInv, UNCHANGED vars
    PROVE  DeviceInv'
<1> USE DEF vars, sessionVars, tableVars
<1>1. BaseInv'
  BY StutterBase DEF DeviceInv
<1>2. CallFits' /\ DroppedFits' /\ TablesFit' /\ ArrivingFits' /\ CommandOnce' /\ DisconnectFits'
  BY DEF DeviceInv, CallFits, DroppedFits, TablesFit, ArrivingFits, Message, CommandOnce, DisconnectFits
<1>3. ManageShape'
  BY DEF DeviceInv, ManageShape, Managing
<1>4. ManageProgress' /\ ManagedHandled'
  BY DEF DeviceInv, ManageProgress, ManagedHandled, Managing, Managed, Handled
<1> QED
  BY <1>1, <1>2, <1>3, <1>4 DEF DeviceInv

LEMMA NextInv ==
    ASSUME DeviceInv, [Next]_vars
    PROVE  DeviceInv'
BY InnerInv, BeginInv, StutterInv DEF Next, InnerStep

(* The invariant of a device client and its session. *)
THEOREM DeviceInvariant == Spec => []DeviceInv
BY InitInv, NextInv, PTL DEF Spec

-----------------------------------------------------------------------------

(* The tables, the session and the call in progress of a device client     *)
(* stay within their types.                                                *)
THEOREM DeviceTypeCorrect == Spec => []TypeOK
BY DeviceInvariant, PTL DEF DeviceInv, BaseInv

(* What mSubscriptions lists the broker holds, unless the client has asked *)
(* it to drop the topic in this session, through lost connections, late    *)
(* CONNACKs and requests that time out.                                    *)
THEOREM DeviceListedIsSubscribed == Spec => []ListedIsSubscribed
BY DeviceInvariant, PTL DEF DeviceInv, BaseInv

(* A request of the platform gets exactly one reply: the firmware and the  *)
(* action handler never share a topic, and each replies once whether it    *)
(* knows its client or not.                                                *)
THEOREM DeviceOneReply == Spec => []OneReply
<1>1. DeviceInv => OneReply
  <2> SUFFICES ASSUME DeviceInv, arriving # <<>>
               PROVE  /\ Message.replies <= 1
                      /\ Message.json = "object" /\ Message.called \cap {firmwareHandler, actionHandler} # {}
                            => Message.replies = 1
                      /\ Message.json # "object" => Message.replies = 0
    BY DEF OneReply
  <2>1. Message.replies = Replies(firmwareHandler) + Replies(actionHandler)
    BY DEF DeviceInv, BaseInv, RepliesCounted
  <2>2. ~(firmwareHandler \in Message.called /\ actionHandler \in Message.called)
    BY TopicAssumption DEF DeviceInv, ArrivingFits
  <2> QED
    BY <2>1, <2>2 DEF Replies, One
<1> QED
  BY <1>1, DeviceInvariant, PTL

(* After a manage that returned true, while the session lasts, the broker  *)
(* holds every management topic and every one has its handler in the       *)
(* tables: the answer that let manage go on came through the present       *)
(* callback, and these topics are never unsubscribed from.                 *)
THEOREM DeviceManagedMeansSubscribed == Spec => []ManagedMeansSubscribed
<1>1. DeviceInv => ManagedMeansSubscribed
  <2> SUFFICES ASSUME DeviceInv, Managed, connected, NEW i \in DOMAIN ManagementSubscriptions
               PROVE  /\ ManagementSubscriptions[i].topic \in broker
                      /\ <<ManagementSubscriptions[i].topic, ManagementSubscriptions[i].handler>> \in mHandlers
    BY DEF ManagedMeansSubscribed
  <2>1. i \in 1 .. LastSubscription /\ LastSubscription > 0
    BY SubscriptionFacts DEF LastSubscription
  <2>2. callback_ptr = "current" /\ Handled(i)
    BY <2>1 DEF DeviceInv, ManagedHandled
  <2>3. /\ ManagementSubscriptions[i].topic \in Topics \ {commandTopic, responseTopic}
        /\ ManagementSubscriptions[i].handler \in Handlers
    BY <2>1, SubscriptionFacts
  <2>4. \/ ManagementSubscriptions[i].topic \in broker
        \/ ManagementSubscriptions[i].topic \in dropped
    BY <2>2, <2>3 DEF Handled, DeviceInv, BaseInv, HandlersSubscribed
  <2> QED
    BY <2>2, <2>3, <2>4 DEF Handled, DeviceInv, DroppedFits
<1> QED
  BY <1>1, DeviceInvariant, PTL

(* disconnect gets to the end of the session only when the table lists no  *)
(* command subscription any more.                                          *)
THEOREM DeviceDisconnectCleansUp == Spec => DisconnectCleansUp
<1>1. ASSUME DeviceInv, todo # <<>>, Head(todo) = Disconnect
      PROVE  mSubscriptions[commandTopic] = 0
  <2>1. Head(todo) = todo[1] /\ Len(todo) \in Nat \ {0}
    BY <1>1, TailFacts DEF DeviceInv, BaseInv
  <2> QED
    BY <1>1, <2>1 DEF DeviceInv, DisconnectFits
<1>2. DeviceInv => [todo # <<>> /\ Head(todo) = Disconnect /\ connected' # connected
                       => mSubscriptions[commandTopic] = 0]_vars
  BY <1>1
<1> QED
  BY <1>2, DeviceInvariant, PTL DEF DisconnectCleansUp

(* What the file constructor accepts, InitializeMqttClient accepts.        *)
THEOREM FileInitializes == Spec => []AcceptedFileInitializes
<1>1. Init(DeviceInitializes) => AcceptedFileInitializes
  <2> SUFFICES ASSUME NEW file \in Files, InitializePropertiesFromFile(file)
               PROVE  Judged(PropertiesOf(file), DeviceInitializes).initializes
    BY DEF Init, Constructed, AcceptedFileInitializes
  <2>1. PropertiesOf(file) \in Properties
    BY DEF Files, PropertiesOf, Properties, Text, Organizations, AuthMethods, Quickstart
  <2>2. /\ PropertiesOf(file).orgId # "" /\ PropertiesOf(file).domain # ""
        /\ PropertiesOf(file).deviceType # "" /\ PropertiesOf(file).deviceId # ""
        /\ Quickstart(PropertiesOf(file)) \/ PropertiesOf(file).trustStore # ""
    BY DEF PropertiesOf, Quickstart, InitializePropertiesFromFile
  <2>3. PropertiesOf(file) \in DeviceInitializes
    BY <2>1, <2>2 DEF DeviceInitializes, Identified
  <2> QED
    BY <2>3 DEF Judged
<1>2. ASSUME AcceptedFileInitializes, [Next]_vars
      PROVE  AcceptedFileInitializes'
  <2>1. UNCHANGED configVars
    BY <1>2 DEF Next, ApiCall, Begin, ApplicationStep, PahoStep, DispatchStep, vars,
       ConnectBegins, ConnackCompletes, ListenerRuns, ConnectReturns, ConnectThrows, OrphanedListenerRuns,
       NullCallback, NothingToDo, RequestRefused, RequestSent, RequestAcknowledged, RequestThrows,
       SubscribeReturns, HandlerInserted, HandlerReturns, UnsubscribeReturns, WildPointer, SendThrows,
       NotifySent, AnswerAccepted, AnswerRefused, CommandHandlerSet, DisconnectSent, DisconnectReturns,
       DisconnectThrows,
       DisconnectDropped, MessageArrived, NextHandler, DispatchReturns, ConnectionLost
  <2> QED
    BY <1>2, <2>1 DEF AcceptedFileInitializes, configVars
<1> QED
  BY <1>1, <1>2, PTL DEF Spec
=============================================================================
