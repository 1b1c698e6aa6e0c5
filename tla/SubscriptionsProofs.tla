------------------------ MODULE SubscriptionsProofs ------------------------
(***************************************************************************)
(* What every step of the base class, of Paho and of message_arrived       *)
(* preserves, for any topics and handlers.  DeviceClientProofs and         *)
(* GatewayClientProofs add the calls that their clients make.              *)
(*                                                                         *)
(* The tables can be trusted because a callback that is "current" was      *)
(* installed in the session that is up: a session begins only in a connect *)
(* or when a connect that was given up is answered late, and in both cases *)
(* the callback is that of an earlier client.                              *)
(***************************************************************************)
EXTENDS Dispatch, SequenceTheorems, TLAPS

(* The thread waits for something that its operation asks for. *)
WireFits ==
    /\ wire # "idle" => todo # <<>>
    /\ wire \in {"connecting", "complete"} => Head(todo).op = "connect"
    /\ wire \in {"requested", "acknowledged"} => Head(todo).op \in {"subscribe", "unsubscribe"}
    /\ wire = "inserted" =>
          /\ Head(todo).op = "subscribe"
          /\ Handler # NoHandler
          /\ <<Topic, Handler>> \in mHandlers
    /\ wire \in {"disconnecting", "never"} => Head(todo).op = "disconnect"

(* While a session may begin, the callback is not that of this client. *)
CallbackFits ==
    /\ wire \in {"connecting", "complete"} => callback_ptr # "current" /\ orphan \in {"none", "old"}
    /\ orphan \in {"open", "late"} => callback_ptr # "current"

(* What check_subscription found is still so when the answer arrives. *)
RequestFits ==
    /\ wire \in {"requested", "acknowledged"} =>
          /\ Head(todo).op = "unsubscribe" =>
                /\ mSubscriptions[Topic] > 0
                /\ callback_ptr = "current" => Topic \in dropped
          /\ Head(todo).op = "subscribe" /\ Handler = NoHandler => mSubscriptions[Topic] = 0
    /\ wire = "acknowledged" /\ Head(todo).op = "subscribe" =>
          (callback_ptr = "current" /\ connected => Topic \in broker)

(* The same for the handlers as ListedIsSubscribed for the topics. *)
HandlersSubscribed ==
    callback_ptr = "current" /\ connected =>
        \A t \in Topics, h \in Handlers :
            <<t, h>> \in mHandlers => t \in broker \/ t \in dropped

Replies(h) == One(Message.json = "object" /\ h \in Message.called)

(* A message has one reply from each of the two handlers that reply. *)
RepliesCounted ==
    arriving # <<>> =>
        /\ Len(arriving) = 1
        /\ Message.replies = Replies(firmwareHandler) + Replies(actionHandler)

BaseInv ==
    /\ TypeOK
    /\ WireFits
    /\ CallbackFits
    /\ RequestFits
    /\ ListedIsSubscribed
    /\ HandlersSubscribed
    /\ RepliesCounted

(* A step inside a call. *)
InnerStep(response) ==
    ApplicationStep(response) \/ PahoStep \/ DispatchStep \/ ConnectionLost

-----------------------------------------------------------------------------

(* What an operation has besides its name. *)
LEMMA OperationFacts ==
    ASSUME NEW o \in Operations
    PROVE  /\ o.op \in {"connect", "disconnect", "deviceInfo", "await", "notify",
                        "setCommandHandler", "subscribe", "unsubscribe"}
           /\ o.op \in {"subscribe", "unsubscribe"} => o.topic \in Topics
           /\ "handler" \in DOMAIN o => o.op = "subscribe" /\ o.handler \in Handlers
BY DEF Operations

(* The operation that runs. *)
LEMMA RunningFacts ==
    ASSUME TypeOK, todo # <<>>
    PROVE  /\ Head(todo) \in Operations
           /\ Tail(todo) \in Seq(Operations)
           /\ Head(todo).op \in {"subscribe", "unsubscribe"} => Topic \in Topics
           /\ Handler \in Handlers \cup {NoHandler}
           /\ Handler # NoHandler => Head(todo).op = "subscribe"
<1>1. todo \in Seq(Operations)
  BY DEF TypeOK
<1>2. Head(todo) \in Operations /\ Tail(todo) \in Seq(Operations)
  BY <1>1
<1> QED
  BY <1>2, OperationFacts DEF Topic, Handler

(* What is left when the first operation is done. *)
LEMMA TailFacts ==
    ASSUME TypeOK, todo # <<>>
    PROVE  /\ Head(todo) = todo[1]
           /\ Len(todo) \in Nat \ {0}
           /\ Len(Tail(todo)) = Len(todo) - 1
           /\ \A i \in 1 .. Len(todo) - 1 : Tail(todo)[i] = todo[i + 1]
           /\ Tail(todo) = <<>> <=> Len(todo) = 1
<1>1. todo \in Seq(Operations)
  BY DEF TypeOK
<1>2. Len(todo) \in Nat \ {0}
  BY <1>1, EmptySeq
<1>3. /\ Head(todo) = todo[1]
      /\ Tail(todo) \in Seq(Operations)
      /\ Len(Tail(todo)) = Len(todo) - 1
      /\ \A i \in 1 .. Len(todo) - 1 : Tail(todo)[i] = todo[i + 1]
  BY <1>1, <1>2
<1>4. Tail(todo) = <<>> <=> Len(Tail(todo)) = 0
  BY <1>3, EmptySeq
<1> QED
  BY <1>2, <1>3, <1>4

(* Results, as TypeOK asks for them. *)
Results == [operation : Operations \cup {[op |-> "none"]}, rc : BOOLEAN]

(* The ways an operation ends keep the types. *)
LEMMA DoneTyped ==
    ASSUME TypeOK, todo # <<>>, NEW rc \in BOOLEAN, Done(rc) \/ GiveUp
    PROVE  todo' \in Seq(Operations) /\ returned' \in Results /\ alive' = alive
<1>1. Head(todo) \in Operations /\ Tail(todo) \in Seq(Operations) /\ <<>> \in Seq(Operations)
  BY RunningFacts
<1>2. FALSE \in BOOLEAN
  OBVIOUS
<1>3. \A result \in BOOLEAN : [operation |-> Head(todo), rc |-> result] \in Results
  BY <1>1 DEF Results
<1>4. CASE Done(rc)
  BY <1>1, <1>3, <1>4 DEF Done
<1>5. CASE GiveUp
  BY <1>1, <1>2, <1>3, <1>5 DEF GiveUp
<1> QED
  BY <1>4, <1>5

(* A handler that replies adds its one reply, however it sends it, and no  *)
(* other handler adds one.                                                 *)
LEMMA ReplyCount ==
    ASSUME NEW h, h \notin Message.called,
           Message.replies = Replies(firmwareHandler) + Replies(actionHandler)
    PROVE  LET called == Message.called \cup {h}
               Now(g) == One(Message.json = "object" /\ g \in called)
               total == Message.replies + One(Sends(h)) + One(Returns(h))
           IN  total = Now(firmwareHandler) + Now(actionHandler) /\ total \in 0 .. 2
BY ReplyAssumption DEF Replies, One, Sends, Returns

LEMMA InnerStepInv ==
    ASSUME NEW response, BaseInv, InnerStep(response)
    PROVE  BaseInv'
<1> USE HandlerAssumption DEF BaseInv, sessionVars, connectVars, tableVars, configVars
<1>0. /\ todo \in Seq(Operations)
      /\ todo # <<>> =>
            /\ Head(todo) \in Operations
            /\ Tail(todo) \in Seq(Operations)
            /\ Head(todo).op \in {"subscribe", "unsubscribe"} => Topic \in Topics
            /\ Handler \in Handlers \cup {NoHandler}
            /\ Handler # NoHandler => Head(todo).op = "subscribe"
  BY RunningFacts DEF TypeOK
<1>1. ASSUME ConnectBegins PROVE BaseInv'
  <2> USE <1>0, <1>1 DEF ConnectBegins, Running, PahoFree
  <2>1. TypeOK'
    BY DEF TypeOK
  <2>2. WireFits' /\ CallbackFits'
    BY DEF TypeOK, WireFits, CallbackFits, Topic, Handler
  <2>3. RequestFits'
    BY DEF TypeOK, WireFits, CallbackFits, RequestFits, Topic, Handler
  <2>4. ListedIsSubscribed' /\ HandlersSubscribed'
    BY DEF TypeOK, WireFits, CallbackFits, RequestFits, ListedIsSubscribed, HandlersSubscribed, Topic, Handler
  <2>5. RepliesCounted'
    BY DEF TypeOK, RepliesCounted, Replies, Message
  <2> QED
    BY <2>1, <2>2, <2>3, <2>4, <2>5
<1>2. ASSUME ConnackCompletes PROVE BaseInv'
  <2> USE <1>0, <1>2 DEF ConnackCompletes, Running, PahoFree
  <2>1. TypeOK'
    BY DEF TypeOK
  <2>2. WireFits' /\ CallbackFits'
    BY DEF TypeOK, WireFits, CallbackFits, Topic, Handler
  <2>3. RequestFits'
    BY DEF TypeOK, WireFits, CallbackFits, RequestFits, Topic, Handler
  <2>4. ListedIsSubscribed' /\ HandlersSubscribed'
    BY DEF TypeOK, WireFits, CallbackFits, RequestFits, ListedIsSubscribed, HandlersSubscribed, Topic, Handler
  <2>5. RepliesCounted'
    BY DEF TypeOK, RepliesCounted, Replies, Message
  <2> QED
    BY <2>1, <2>2, <2>3, <2>4, <2>5
<1>3. ASSUME ListenerRuns PROVE BaseInv'
  <2> USE <1>0, <1>3 DEF ListenerRuns, Running, PahoFree
  <2>1. TypeOK'
    BY DEF TypeOK
  <2>2. WireFits' /\ CallbackFits'
    BY DEF TypeOK, WireFits, CallbackFits, Topic, Handler
  <2>3. RequestFits'
    BY DEF TypeOK, WireFits, CallbackFits, RequestFits, Topic, Handler
  <2>4. ListedIsSubscribed' /\ HandlersSubscribed'
    BY DEF TypeOK, WireFits, CallbackFits, RequestFits, ListedIsSubscribed, HandlersSubscribed, Topic, Handler
  <2>5. RepliesCounted'
    BY DEF TypeOK, RepliesCounted, Replies, Message
  <2> QED
    BY <2>1, <2>2, <2>3, <2>4, <2>5
<1>4. ASSUME ConnectReturns PROVE BaseInv'
  <2> USE <1>0, <1>4 DEF ConnectReturns, Running, Installed, Done, GiveUp, PahoFree
  <2>1. TypeOK'
    <3>1. todo' \in Seq(Operations) /\ returned' \in Results /\ alive' = alive
      <4>1. (Done(TRUE) \/ GiveUp) /\ TRUE \in BOOLEAN /\ todo # <<>>
        OBVIOUS
      <4> QED
        BY <4>1, DoneTyped
    <3>2. /\ callback_ptr' \in {"null", "current", "stale"}
          /\ mSubscriptions' \in [Topics -> Nat]
          /\ mHandlers' \subseteq Topics \X Handlers
          /\ user_callback' \in BOOLEAN
      <4>1. CASE listener
        <5>1. user_callback' \in BOOLEAN
          BY <4>1, Zenon
        <5>2. [t \in Topics |-> 0] \in [Topics -> Nat]
          OBVIOUS
        <5> QED
          BY <4>1, <5>1, <5>2
      <4>2. CASE ~listener
        BY <4>2 DEF TypeOK
      <4> QED
        BY <4>1, <4>2
    <3>3. wire' = "idle" /\ orphan' \in {"none", "open", "old", "late"}
      BY DEF TypeOK
    <3> QED
      BY <3>1, <3>2, <3>3 DEF TypeOK, Results
  <2>2. WireFits' /\ CallbackFits'
    BY DEF TypeOK, WireFits, CallbackFits, Topic, Handler
  <2>3. RequestFits'
    BY DEF TypeOK, WireFits, CallbackFits, RequestFits, Topic, Handler
  <2>4. ListedIsSubscribed' /\ HandlersSubscribed'
    BY DEF TypeOK, WireFits, CallbackFits, RequestFits, ListedIsSubscribed, HandlersSubscribed, Topic, Handler
  <2>5. RepliesCounted'
    BY DEF TypeOK, RepliesCounted, Replies, Message
  <2> QED
    BY <2>1, <2>2, <2>3, <2>4, <2>5
<1>5. ASSUME ConnectThrows PROVE BaseInv'
  <2> USE <1>0, <1>5 DEF ConnectThrows, Running, Throw, PahoFree
  <2>1. TypeOK'
    BY DEF TypeOK, NoOperation
  <2>2. WireFits' /\ CallbackFits'
    BY DEF TypeOK, WireFits, CallbackFits, Topic, Handler
  <2>3. RequestFits'
    BY DEF TypeOK, WireFits, CallbackFits, RequestFits, Topic, Handler
  <2>4. ListedIsSubscribed' /\ HandlersSubscribed'
    BY DEF TypeOK, WireFits, CallbackFits, RequestFits, ListedIsSubscribed, HandlersSubscribed, Topic, Handler
  <2>5. RepliesCounted'
    BY DEF TypeOK, RepliesCounted, Replies, Message
  <2> QED
    BY <2>1, <2>2, <2>3, <2>4, <2>5
<1>6. ASSUME OrphanedListenerRuns PROVE BaseInv'
  <2> USE <1>0, <1>6 DEF OrphanedListenerRuns, Running, LateAnswer, PahoFree
  <2>1. TypeOK'
    <3>1. /\ listener' \in BOOLEAN
          /\ alive' \in BOOLEAN
          /\ orphan' \in {"none", "late"}
      BY DEF TypeOK
    <3>2. connected' \in BOOLEAN /\ broker' \subseteq Topics /\ dropped' \subseteq Topics
      BY DEF TypeOK
    <3>3. TypeOK
      OBVIOUS
    <3> QED
      BY <3>1, <3>2, <3>3 DEF TypeOK
  <2>2. WireFits' /\ CallbackFits'
    BY DEF TypeOK, WireFits, CallbackFits, Topic, Handler
  <2>3. RequestFits'
    BY DEF TypeOK, WireFits, CallbackFits, RequestFits, Topic, Handler
  <2>4. ListedIsSubscribed' /\ HandlersSubscribed'
    BY DEF TypeOK, WireFits, CallbackFits, RequestFits, ListedIsSubscribed, HandlersSubscribed, Topic, Handler
  <2>5. RepliesCounted'
    BY DEF TypeOK, RepliesCounted, Replies, Message
  <2> QED
    BY <2>1, <2>2, <2>3, <2>4, <2>5
<1>7. ASSUME NullCallback PROVE BaseInv'
  <2> USE <1>0, <1>7 DEF NullCallback, Running, Crash, PahoFree
  <2>1. TypeOK'
    BY DEF TypeOK
  <2>2. WireFits' /\ CallbackFits'
    BY DEF TypeOK, WireFits, CallbackFits, Topic, Handler
  <2>3. RequestFits'
    BY DEF TypeOK, WireFits, CallbackFits, RequestFits, Topic, Handler
  <2>4. ListedIsSubscribed' /\ HandlersSubscribed'
    BY DEF TypeOK, WireFits, CallbackFits, RequestFits, ListedIsSubscribed, HandlersSubscribed, Topic, Handler
  <2>5. RepliesCounted'
    BY DEF TypeOK, RepliesCounted, Replies, Message
  <2> QED
    BY <2>1, <2>2, <2>3, <2>4, <2>5
<1>8. ASSUME NothingToDo PROVE BaseInv'
  <2> USE <1>0, <1>8 DEF NothingToDo, Running, Done, PahoFree
  <2>1. TypeOK'
    <3>1. /\ Done(TRUE) \/ Done(FALSE)
          /\ TRUE \in BOOLEAN /\ FALSE \in BOOLEAN
          /\ todo # <<>>
      OBVIOUS
    <3>2. todo' \in Seq(Operations) /\ returned' \in Results /\ alive' = alive
      BY <3>1, DoneTyped
    <3> QED
      BY <3>2 DEF TypeOK, Results
  <2>2. WireFits' /\ CallbackFits'
    BY DEF TypeOK, WireFits, CallbackFits, Topic, Handler
  <2>3. RequestFits'
    BY DEF TypeOK, WireFits, CallbackFits, RequestFits, Topic, Handler
  <2>4. ListedIsSubscribed' /\ HandlersSubscribed'
    BY DEF TypeOK, WireFits, CallbackFits, RequestFits, ListedIsSubscribed, HandlersSubscribed, Topic, Handler
  <2>5. RepliesCounted'
    BY DEF TypeOK, RepliesCounted, Replies, Message
  <2> QED
    BY <2>1, <2>2, <2>3, <2>4, <2>5
<1>9. ASSUME RequestRefused PROVE BaseInv'
  <2> USE <1>0, <1>9 DEF RequestRefused, Running, Needed, Throw, PahoFree
  <2>1. TypeOK'
    BY DEF TypeOK, NoOperation
  <2>2. WireFits' /\ CallbackFits'
    BY DEF TypeOK, WireFits, CallbackFits, Topic, Handler
  <2>3. RequestFits'
    BY DEF TypeOK, WireFits, CallbackFits, RequestFits, Topic, Handler
  <2>4. ListedIsSubscribed' /\ HandlersSubscribed'
    BY DEF TypeOK, WireFits, CallbackFits, RequestFits, ListedIsSubscribed, HandlersSubscribed, Topic, Handler
  <2>5. RepliesCounted'
    BY DEF TypeOK, RepliesCounted, Replies, Message
  <2> QED
    BY <2>1, <2>2, <2>3, <2>4, <2>5
<1>10. ASSUME RequestSent PROVE BaseInv'
  <2> USE <1>0, <1>10 DEF RequestSent, Running, Needed, check_subscription, PahoFree
  <2>1. TypeOK'
    BY DEF TypeOK
  <2>2. WireFits' /\ CallbackFits'
    BY DEF TypeOK, WireFits, CallbackFits, Topic, Handler
  <2>3. RequestFits'
    BY DEF TypeOK, WireFits, CallbackFits, RequestFits, Topic, Handler
  <2>4. ListedIsSubscribed' /\ HandlersSubscribed'
    BY DEF TypeOK, WireFits, CallbackFits, RequestFits, ListedIsSubscribed, HandlersSubscribed, Topic, Handler
  <2>5. RepliesCounted'
    BY DEF TypeOK, RepliesCounted, Replies, Message
  <2> QED
    BY <2>1, <2>2, <2>3, <2>4, <2>5
<1>11. ASSUME RequestAcknowledged PROVE BaseInv'
  <2> USE <1>0, <1>11 DEF RequestAcknowledged, Running, Applied, PahoFree
  <2>1. TypeOK'
    BY DEF TypeOK, WireFits
  <2>2. WireFits' /\ CallbackFits'
    BY DEF TypeOK, WireFits, CallbackFits, Topic, Handler
  <2>3. RequestFits'
    BY DEF TypeOK, WireFits, CallbackFits, RequestFits, Topic, Handler
  <2>4. ListedIsSubscribed' /\ HandlersSubscribed'
    BY DEF TypeOK, WireFits, CallbackFits, RequestFits, ListedIsSubscribed, HandlersSubscribed, Topic, Handler
  <2>5. RepliesCounted'
    BY DEF TypeOK, RepliesCounted, Replies, Message
  <2> QED
    BY <2>1, <2>2, <2>3, <2>4, <2>5
<1>12. ASSUME RequestThrows PROVE BaseInv'
  <2> USE <1>0, <1>12 DEF RequestThrows, Running, Applied, Throw, PahoFree
  <2>1. TypeOK'
    BY DEF TypeOK, NoOperation, WireFits
  <2>2. WireFits' /\ CallbackFits'
    BY DEF TypeOK, WireFits, CallbackFits, Topic, Handler
  <2>3. RequestFits'
    BY DEF TypeOK, WireFits, CallbackFits, RequestFits, Topic, Handler
  <2>4. ListedIsSubscribed' /\ HandlersSubscribed'
    BY DEF TypeOK, WireFits, CallbackFits, RequestFits, ListedIsSubscribed, HandlersSubscribed, Topic, Handler
  <2>5. RepliesCounted'
    BY DEF TypeOK, RepliesCounted, Replies, Message
  <2> QED
    BY <2>1, <2>2, <2>3, <2>4, <2>5
<1>13. ASSUME SubscribeReturns PROVE BaseInv'
  <2> USE <1>0, <1>13 DEF SubscribeReturns, Running, add_subscription, Done, PahoFree
  <2>1. TypeOK'
    BY DEF TypeOK
  <2>2. WireFits' /\ CallbackFits'
    BY DEF TypeOK, WireFits, CallbackFits, Topic, Handler
  <2>3. RequestFits'
    BY DEF TypeOK, WireFits, CallbackFits, RequestFits, Topic, Handler
  <2>4. ListedIsSubscribed' /\ HandlersSubscribed'
    BY DEF TypeOK, WireFits, CallbackFits, RequestFits, ListedIsSubscribed, HandlersSubscribed, Topic, Handler
  <2>5. RepliesCounted'
    BY DEF TypeOK, RepliesCounted, Replies, Message
  <2> QED
    BY <2>1, <2>2, <2>3, <2>4, <2>5
<1>14. ASSUME HandlerInserted PROVE BaseInv'
  <2> USE <1>0, <1>14 DEF HandlerInserted, Running, add_subscription, PahoFree
  <2>1. TypeOK'
    <3>1. alive' \in BOOLEAN
      BY Zenon DEF TypeOK
    <3> QED
      BY <3>1 DEF TypeOK
  <2>2. WireFits' /\ CallbackFits'
    BY DEF TypeOK, WireFits, CallbackFits, Topic, Handler
  <2>3. RequestFits'
    BY DEF TypeOK, WireFits, CallbackFits, RequestFits, Topic, Handler
  <2>4. ListedIsSubscribed' /\ HandlersSubscribed'
    BY DEF TypeOK, WireFits, CallbackFits, RequestFits, ListedIsSubscribed, HandlersSubscribed, Topic, Handler
  <2>5. RepliesCounted'
    BY DEF TypeOK, RepliesCounted, Replies, Message
  <2> QED
    BY <2>1, <2>2, <2>3, <2>4, <2>5
<1>15. ASSUME HandlerReturns PROVE BaseInv'
  <2> USE <1>0, <1>15 DEF HandlerReturns, Running, Crash, Done, PahoFree
  <2>1. TypeOK'
    <3>1. CASE Handler = nullHandler
      <4>1. alive' \in BOOLEAN
        BY <3>1, Zenon
      <4> QED
        BY <3>1, <4>1 DEF TypeOK
    <3>2. CASE Handler # nullHandler
      <4>1. Done(TRUE) /\ TRUE \in BOOLEAN /\ todo # <<>>
        BY <3>2
      <4>2. todo' \in Seq(Operations) /\ returned' \in Results /\ alive' = alive
        BY <4>1, DoneTyped
      <4>3. mClient' \subseteq Handlers
        BY <3>2 DEF TypeOK, WireFits
      <4> QED
        BY <4>2, <4>3 DEF TypeOK, Results
    <3> QED
      BY <3>1, <3>2
  <2>2. WireFits' /\ CallbackFits'
    BY DEF TypeOK, WireFits, CallbackFits, Topic, Handler
  <2>3. RequestFits'
    BY DEF TypeOK, WireFits, CallbackFits, RequestFits, Topic, Handler
  <2>4. ListedIsSubscribed' /\ HandlersSubscribed'
    BY DEF TypeOK, WireFits, CallbackFits, RequestFits, ListedIsSubscribed, HandlersSubscribed, Topic, Handler
  <2>5. RepliesCounted'
    BY DEF TypeOK, RepliesCounted, Replies, Message
  <2> QED
    BY <2>1, <2>2, <2>3, <2>4, <2>5
<1>16. ASSUME UnsubscribeReturns PROVE BaseInv'
  <2> USE <1>0, <1>16 DEF UnsubscribeReturns, Running, Done, PahoFree
  <2>1. TypeOK'
    <3>1. mSubscriptions' \in [Topics -> Nat]
      BY DEF TypeOK, RequestFits
    <3> QED
      BY <3>1 DEF TypeOK
  <2>2. WireFits' /\ CallbackFits'
    BY DEF TypeOK, WireFits, CallbackFits, Topic, Handler
  <2>3. RequestFits'
    BY DEF TypeOK, WireFits, CallbackFits, RequestFits, Topic, Handler
  <2>4. ListedIsSubscribed' /\ HandlersSubscribed'
    BY DEF TypeOK, WireFits, CallbackFits, RequestFits, ListedIsSubscribed, HandlersSubscribed, Topic, Handler
  <2>5. RepliesCounted'
    BY DEF TypeOK, RepliesCounted, Replies, Message
  <2> QED
    BY <2>1, <2>2, <2>3, <2>4, <2>5
<1>17. ASSUME WildPointer PROVE BaseInv'
  <2> USE <1>0, <1>17 DEF WildPointer, Running, Crash, PahoFree
  <2>1. TypeOK'
    <3>1. alive' \in BOOLEAN
      BY Zenon DEF TypeOK
    <3> QED
      BY <3>1 DEF TypeOK
  <2>2. WireFits' /\ CallbackFits'
    BY DEF TypeOK, WireFits, CallbackFits, Topic, Handler
  <2>3. RequestFits'
    BY DEF TypeOK, WireFits, CallbackFits, RequestFits, Topic, Handler
  <2>4. ListedIsSubscribed' /\ HandlersSubscribed'
    BY DEF TypeOK, WireFits, CallbackFits, RequestFits, ListedIsSubscribed, HandlersSubscribed, Topic, Handler
  <2>5. RepliesCounted'
    BY DEF TypeOK, RepliesCounted, Replies, Message
  <2> QED
    BY <2>1, <2>2, <2>3, <2>4, <2>5
<1>18. ASSUME SendThrows PROVE BaseInv'
  <2> USE <1>0, <1>18 DEF SendThrows, Running, Throw, PahoFree
  <2>1. TypeOK'
    BY DEF TypeOK, NoOperation
  <2>2. WireFits' /\ CallbackFits'
    BY DEF TypeOK, WireFits, CallbackFits, Topic, Handler
  <2>3. RequestFits'
    BY DEF TypeOK, WireFits, CallbackFits, RequestFits, Topic, Handler
  <2>4. ListedIsSubscribed' /\ HandlersSubscribed'
    BY DEF TypeOK, WireFits, CallbackFits, RequestFits, ListedIsSubscribed, HandlersSubscribed, Topic, Handler
  <2>5. RepliesCounted'
    BY DEF TypeOK, RepliesCounted, Replies, Message
  <2> QED
    BY <2>1, <2>2, <2>3, <2>4, <2>5
<1>19. ASSUME NotifySent PROVE BaseInv'
  <2> USE <1>0, <1>19 DEF NotifySent, Running, Done, PahoFree
  <2>1. TypeOK'
    BY DEF TypeOK
  <2>2. WireFits' /\ CallbackFits'
    BY DEF TypeOK, WireFits, CallbackFits, Topic, Handler
  <2>3. RequestFits'
    BY DEF TypeOK, WireFits, CallbackFits, RequestFits, Topic, Handler
  <2>4. ListedIsSubscribed' /\ HandlersSubscribed'
    BY DEF TypeOK, WireFits, CallbackFits, RequestFits, ListedIsSubscribed, HandlersSubscribed, Topic, Handler
  <2>5. RepliesCounted'
    BY DEF TypeOK, RepliesCounted, Replies, Message
  <2> QED
    BY <2>1, <2>2, <2>3, <2>4, <2>5
<1>20. ASSUME AnswerAccepted(response) PROVE BaseInv'
  <2> USE <1>0, <1>20 DEF AnswerAccepted, Running, Done, PahoFree
  <2>1. TypeOK'
    BY DEF TypeOK
  <2>2. WireFits' /\ CallbackFits'
    BY DEF TypeOK, WireFits, CallbackFits, Topic, Handler
  <2>3. RequestFits'
    BY DEF TypeOK, WireFits, CallbackFits, RequestFits, Topic, Handler
  <2>4. ListedIsSubscribed' /\ HandlersSubscribed'
    BY DEF TypeOK, WireFits, CallbackFits, RequestFits, ListedIsSubscribed, HandlersSubscribed, Topic, Handler
  <2>5. RepliesCounted'
    BY DEF TypeOK, RepliesCounted, Replies, Message
  <2> QED
    BY <2>1, <2>2, <2>3, <2>4, <2>5
<1>21. ASSUME AnswerRefused PROVE BaseInv'
  <2> USE <1>0, <1>21 DEF AnswerRefused, Running, GiveUp, PahoFree
  <2>1. TypeOK'
    BY DEF TypeOK
  <2>2. WireFits' /\ CallbackFits'
    BY DEF TypeOK, WireFits, CallbackFits, Topic, Handler
  <2>3. RequestFits'
    BY DEF TypeOK, WireFits, CallbackFits, RequestFits, Topic, Handler
  <2>4. ListedIsSubscribed' /\ HandlersSubscribed'
    BY DEF TypeOK, WireFits, CallbackFits, RequestFits, ListedIsSubscribed, HandlersSubscribed, Topic, Handler
  <2>5. RepliesCounted'
    BY DEF TypeOK, RepliesCounted, Replies, Message
  <2> QED
    BY <2>1, <2>2, <2>3, <2>4, <2>5
<1>22. ASSUME CommandHandlerSet PROVE BaseInv'
  <2> USE <1>0, <1>22 DEF CommandHandlerSet, Running, Done, PahoFree
  <2>1. TypeOK'
    BY DEF TypeOK
  <2>2. WireFits' /\ CallbackFits'
    BY DEF TypeOK, WireFits, CallbackFits, Topic, Handler
  <2>3. RequestFits'
    BY DEF TypeOK, WireFits, CallbackFits, RequestFits, Topic, Handler
  <2>4. ListedIsSubscribed' /\ HandlersSubscribed'
    BY DEF TypeOK, WireFits, CallbackFits, RequestFits, ListedIsSubscribed, HandlersSubscribed, Topic, Handler
  <2>5. RepliesCounted'
    BY DEF TypeOK, RepliesCounted, Replies, Message
  <2> QED
    BY <2>1, <2>2, <2>3, <2>4, <2>5
<1>23. ASSUME DisconnectReturns PROVE BaseInv'
  <2> USE <1>0, <1>23 DEF DisconnectReturns, Running, Done, PahoFree
  <2>1. TypeOK'
    BY DEF TypeOK
  <2>2. WireFits' /\ CallbackFits'
    BY DEF TypeOK, WireFits, CallbackFits, Topic, Handler
  <2>3. RequestFits'
    BY DEF TypeOK, WireFits, CallbackFits, RequestFits, Topic, Handler
  <2>4. ListedIsSubscribed' /\ HandlersSubscribed'
    BY DEF TypeOK, WireFits, CallbackFits, RequestFits, ListedIsSubscribed, HandlersSubscribed, Topic, Handler
  <2>5. RepliesCounted'
    BY DEF TypeOK, RepliesCounted, Replies, Message
  <2> QED
    BY <2>1, <2>2, <2>3, <2>4, <2>5
<1>24. ASSUME DisconnectThrows PROVE BaseInv'
  <2> USE <1>0, <1>24 DEF DisconnectThrows, Running, Throw, PahoFree
  <2>1. TypeOK'
    BY DEF TypeOK, NoOperation
  <2>2. WireFits' /\ CallbackFits'
    BY DEF TypeOK, WireFits, CallbackFits, Topic, Handler
  <2>3. RequestFits'
    BY DEF TypeOK, WireFits, CallbackFits, RequestFits, Topic, Handler
  <2>4. ListedIsSubscribed' /\ HandlersSubscribed'
    BY DEF TypeOK, WireFits, CallbackFits, RequestFits, ListedIsSubscribed, HandlersSubscribed, Topic, Handler
  <2>5. RepliesCounted'
    BY DEF TypeOK, RepliesCounted, Replies, Message
  <2> QED
    BY <2>1, <2>2, <2>3, <2>4, <2>5
<1>25. ASSUME MessageArrived PROVE BaseInv'
  <2> USE <1>0, <1>25 DEF MessageArrived, Running, PahoFree
  <2>1. TypeOK'
    <3>1. arriving' \in Seq(Messages)
      BY DEF TypeOK, Messages
    <3> QED
      BY <3>1 DEF TypeOK
  <2>2. WireFits' /\ CallbackFits'
    BY DEF TypeOK, WireFits, CallbackFits, Topic, Handler
  <2>3. RequestFits'
    BY DEF TypeOK, WireFits, CallbackFits, RequestFits, Topic, Handler
  <2>4. ListedIsSubscribed' /\ HandlersSubscribed'
    BY DEF TypeOK, WireFits, CallbackFits, RequestFits, ListedIsSubscribed, HandlersSubscribed, Topic, Handler
  <2>5. RepliesCounted'
    <3>1. PICK t \in broker, json \in {"object", "other", "none"} :
              arriving' = <<[topic |-> t, json |-> json, called |-> {}, replies |-> 0]>>
      OBVIOUS
    <3> QED
      BY <3>1 DEF RepliesCounted, Replies, Message, One
  <2> QED
    BY <2>1, <2>2, <2>3, <2>4, <2>5
<1>26. ASSUME NextHandler PROVE BaseInv'
  <2> USE <1>0, <1>26 DEF NextHandler, Running, Uncalled, PahoFree
  <2>1. TypeOK'
    <3>1. PICK h \in Uncalled :
            /\ arriving' = <<[Message EXCEPT
                                 !.called = @ \cup {h},
                                 !.replies = @ + One(Sends(h)) + One(Returns(h))]>>
            /\ alive' \in IF Crashes(h) THEN {FALSE} ELSE IF MayCrash(h) THEN BOOLEAN ELSE {TRUE}
      OBVIOUS
    <3>2. Message \in Messages /\ h \in Handlers
      BY DEF TypeOK, Message
    <3>3. alive' \in BOOLEAN
      BY <3>1, Zenon
    <3>4. Message.replies + One(Sends(h)) + One(Returns(h)) \in 0 .. 2
      BY <3>2, ReplyCount DEF RepliesCounted
    <3>5. [Message EXCEPT !.called = @ \cup {h},
                          !.replies = @ + One(Sends(h)) + One(Returns(h))] \in Messages
      BY <3>2, <3>4 DEF Messages
    <3>6. arriving' \in Seq(Messages)
      BY <3>1, <3>5
    <3> QED
      BY <3>3, <3>6 DEF TypeOK
  <2>2. WireFits' /\ CallbackFits'
    BY DEF TypeOK, WireFits, CallbackFits, Topic, Handler
  <2>3. RequestFits'
    BY DEF TypeOK, WireFits, CallbackFits, RequestFits, Topic, Handler
  <2>4. ListedIsSubscribed' /\ HandlersSubscribed'
    BY DEF TypeOK, WireFits, CallbackFits, RequestFits, ListedIsSubscribed, HandlersSubscribed, Topic, Handler
  <2>5. RepliesCounted'
    <3>1. PICK h \in Uncalled :
            arriving' = <<[Message EXCEPT
                               !.called = @ \cup {h},
                               !.replies = @ + One(Sends(h)) + One(Returns(h))]>>
      OBVIOUS
    <3>2. Message \in Messages /\ h \in Handlers \ Message.called
      BY DEF TypeOK, Message
    <3>3. /\ Len(arriving') = 1
          /\ Message'.json = Message.json
          /\ Message'.called = Message.called \cup {h}
          /\ Message'.replies = Message.replies + One(Sends(h)) + One(Returns(h))
      BY <3>1, <3>2 DEF Message, Messages
    <3> QED
      BY <3>2, <3>3, ReplyCount DEF RepliesCounted, Replies
  <2> QED
    BY <2>1, <2>2, <2>3, <2>4, <2>5
<1>27. ASSUME DispatchReturns PROVE BaseInv'
  <2> USE <1>0, <1>27 DEF DispatchReturns, Running, PahoFree
  <2>1. TypeOK'
    BY DEF TypeOK
  <2>2. WireFits' /\ CallbackFits'
    BY DEF TypeOK, WireFits, CallbackFits, Topic, Handler
  <2>3. RequestFits'
    BY DEF TypeOK, WireFits, CallbackFits, RequestFits, Topic, Handler
  <2>4. ListedIsSubscribed' /\ HandlersSubscribed'
    BY DEF TypeOK, WireFits, CallbackFits, RequestFits, ListedIsSubscribed, HandlersSubscribed, Topic, Handler
  <2>5. RepliesCounted'
    BY DEF TypeOK, RepliesCounted, Replies, Message
  <2> QED
    BY <2>1, <2>2, <2>3, <2>4, <2>5
<1>28. ASSUME ConnectionLost PROVE BaseInv'
  <2> USE <1>0, <1>28 DEF ConnectionLost, Running, PahoFree
  <2>1. TypeOK'
    <3>1. connected' \in BOOLEAN /\ broker' \subseteq Topics
      OBVIOUS
    <3>2. TypeOK
      OBVIOUS
    <3> QED
      BY <3>1, <3>2 DEF TypeOK
  <2>2. WireFits' /\ CallbackFits'
    BY DEF TypeOK, WireFits, CallbackFits, Topic, Handler
  <2>3. RequestFits'
    BY DEF TypeOK, WireFits, CallbackFits, RequestFits, Topic, Handler
  <2>4. ListedIsSubscribed' /\ HandlersSubscribed'
    BY DEF TypeOK, WireFits, CallbackFits, RequestFits, ListedIsSubscribed, HandlersSubscribed, Topic, Handler
  <2>5. RepliesCounted'
    BY DEF TypeOK, RepliesCounted, Replies, Message
  <2> QED
    BY <2>1, <2>2, <2>3, <2>4, <2>5
<1>29. ASSUME DisconnectSent PROVE BaseInv'
  <2> USE <1>0, <1>29 DEF DisconnectSent, Running, PahoFree
  <2>1. TypeOK'
    BY DEF TypeOK
  <2>2. WireFits' /\ CallbackFits'
    BY DEF TypeOK, WireFits, CallbackFits, Topic, Handler
  <2>3. RequestFits'
    BY DEF TypeOK, WireFits, CallbackFits, RequestFits, Topic, Handler
  <2>4. ListedIsSubscribed' /\ HandlersSubscribed'
    BY DEF TypeOK, WireFits, CallbackFits, RequestFits, ListedIsSubscribed, HandlersSubscribed, Topic, Handler
  <2>5. RepliesCounted'
    BY DEF TypeOK, RepliesCounted, Replies, Message
  <2> QED
    BY <2>1, <2>2, <2>3, <2>4, <2>5
<1>30. ASSUME DisconnectDropped PROVE BaseInv'
  <2> USE <1>0, <1>30 DEF DisconnectDropped, Running, PahoFree
  <2>1. TypeOK'
    BY DEF TypeOK
  <2>2. WireFits' /\ CallbackFits'
    BY DEF TypeOK, WireFits, CallbackFits, Topic, Handler
  <2>3. RequestFits'
    BY DEF TypeOK, WireFits, CallbackFits, RequestFits, Topic, Handler
  <2>4. ListedIsSubscribed' /\ HandlersSubscribed'
    BY DEF TypeOK, WireFits, CallbackFits, RequestFits, ListedIsSubscribed, HandlersSubscribed, Topic, Handler
  <2>5. RepliesCounted'
    BY DEF TypeOK, RepliesCounted, Replies, Message
  <2> QED
    BY <2>1, <2>2, <2>3, <2>4, <2>5
<1> QED
  BY <1>1, <1>2, <1>3, <1>4, <1>5, <1>6, <1>7, <1>8, <1>9, <1>10, <1>11, <1>12, <1>13, <1>14, <1>15,
     <1>16, <1>17, <1>18, <1>19, <1>20, <1>21, <1>22, <1>23, <1>24, <1>25, <1>26, <1>27, <1>28,
     <1>29, <1>30 DEF InnerStep, ApplicationStep, PahoStep, DispatchStep

(* A client that has just been made. *)
LEMMA InitBase ==
    ASSUME NEW usable, Init(usable)
    PROVE  BaseInv
<1> USE DEF Init
<1>1. mProperties \in [{"initializes", "quickstart", "auth"} -> BOOLEAN] /\ constructor \in Constructors
  <2>1. ASSUME NEW properties PROVE Judged(properties, usable) \in [{"initializes", "quickstart", "auth"} -> BOOLEAN]
    <3>1. \A a, b, c \in BOOLEAN : [initializes |-> a, quickstart |-> b, auth |-> c]
                                      \in [{"initializes", "quickstart", "auth"} -> BOOLEAN]
      OBVIOUS
    <3>2. (properties \in usable) \in BOOLEAN
      OBVIOUS
    <3>3. Quickstart(properties) \in BOOLEAN
      BY Zenon DEF Quickstart
    <3>4. AuthSupported(properties) \in BOOLEAN
      BY Zenon DEF AuthSupported
    <3> QED
      BY <3>1, <3>2, <3>3, <3>4 DEF Judged
  <2> QED
    BY <2>1 DEF Constructed, Constructors
<1>2. returned \in [operation : Operations \cup {[op |-> "none"]}, rc : BOOLEAN]
  BY DEF NoOperation
<1>3. /\ connected \in BOOLEAN /\ pasync_client \in BOOLEAN /\ listener \in BOOLEAN
      /\ user_callback \in BOOLEAN /\ alive \in BOOLEAN
  BY Zenon
<1>4. TypeOK
  BY <1>1, <1>2, <1>3 DEF TypeOK
<1>5. WireFits /\ CallbackFits /\ RequestFits
  BY DEF WireFits, CallbackFits, RequestFits
<1>6. ListedIsSubscribed /\ HandlersSubscribed /\ RepliesCounted
  BY DEF ListedIsSubscribed, HandlersSubscribed, RepliesCounted
<1> QED
  BY <1>4, <1>5, <1>6 DEF BaseInv

(* A call begins. *)
LEMMA BeginBase ==
    ASSUME BaseInv, NEW program \in Seq(Operations), Begin(program)
    PROVE  BaseInv'
<1> USE DEF BaseInv, Begin, sessionVars, connectVars, tableVars, configVars
<1>1. TypeOK'
  BY DEF TypeOK, NoOperation
<1>2. WireFits' /\ CallbackFits' /\ RequestFits'
  BY DEF WireFits, CallbackFits, RequestFits
<1>3. ListedIsSubscribed' /\ HandlersSubscribed' /\ RepliesCounted'
  BY DEF ListedIsSubscribed, HandlersSubscribed, RepliesCounted, Replies, Message
<1> QED
  BY <1>1, <1>2, <1>3

(* Nothing happens. *)
LEMMA StutterBase ==
    ASSUME BaseInv, UNCHANGED vars
    PROVE  BaseInv'
<1> USE DEF BaseInv, vars, sessionVars, connectVars, tableVars, configVars
<1>1. TypeOK'
  BY DEF TypeOK
<1>2. WireFits' /\ CallbackFits' /\ RequestFits'
  BY DEF WireFits, CallbackFits, RequestFits, Topic, Handler
<1>3. ListedIsSubscribed' /\ HandlersSubscribed' /\ RepliesCounted'
  BY DEF ListedIsSubscribed, HandlersSubscribed, RepliesCounted, Replies, Message
<1> QED
  BY <1>1, <1>2, <1>3
=============================================================================
