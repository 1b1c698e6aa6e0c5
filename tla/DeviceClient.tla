---------------------------- MODULE DeviceClient ----------------------------
(***************************************************************************)
(* IOTP_DeviceClient: connect, manage, unmanage and disconnect as programs *)
(* of base class operations.  One application thread makes the calls.      *)
(***************************************************************************)
EXTENDS Dispatch

CONSTANTS
    commandTopic,       \* "iot-2/cmd/+/fmt/+"
    responseTopic,      \* SERVER_RESPONSE_TOPIC
    FirmwareTopics,     \* the topics of mFirmwareHandler, in order
    ActionTopics,       \* the topics of mActionHandler, in order
    AttributeTopics     \* the topic of mDevAttributeHandler

Among(topics) == {topics[i] : i \in DOMAIN topics}

(* Commands, answers and management requests come on topics of their own,  *)
(* and no request is for both the firmware and the action handler.         *)
ASSUME TopicAssumption ==
    /\ commandTopic \in Topics
    /\ responseTopic \in Topics
    /\ commandTopic # responseTopic
    /\ \A topics \in {FirmwareTopics, ActionTopics, AttributeTopics} :
          /\ topics \in Seq(Topics)
          /\ commandTopic \notin Among(topics)
          /\ responseTopic \notin Among(topics)
    /\ Among(FirmwareTopics) \cap Among(ActionTopics) = {}

ASSUME DeviceHandlerAssumption ==
    /\ {responseHandler, nullHandler, firmwareHandler, actionHandler, attributeHandler} \subseteq Handlers
    /\ {firmwareHandler, actionHandler} \cap {responseHandler, nullHandler, attributeHandler} = {}

For(topics, handler) ==
    [i \in DOMAIN topics |-> SubscribeHandler(topics[i], handler)]

(* What manage subscribes to once the platform has accepted the device;    *)
(* the handlers are given all together or not at all.                      *)
ManagementSubscriptions ==
    For(FirmwareTopics, firmwareHandler) \o For(ActionTopics, actionHandler)
        \o For(AttributeTopics, attributeHandler)

(* Nothing is done with a configuration that InitializeMqttClient refuses, *)
(* and a quickstart device gets no commands.                               *)
connect ==
    IF mProperties.initializes
    THEN <<Connect>> \o IF mProperties.quickstart THEN <<>>
                        ELSE <<SubscribeTopic(commandTopic)>>
    ELSE <<>>
mResponseHandler == IF constructor = "refused" THEN nullHandler ELSE responseHandler
manage ==
    <<SubscribeHandler(responseTopic, mResponseHandler)>>
        \o CASE constructor = "handlers" -> <<Await>> \o ManagementSubscriptions
             [] constructor = "data" -> <<Await>>
             [] OTHER -> <<DeviceInfo>>
pushManageMessage == <<SubscribeHandler(responseTopic, mResponseHandler), Await>>
unmanage == <<Notify, Unsubscribe(responseTopic)>>
disconnect == <<Unsubscribe(commandTopic), Disconnect>>

setCommandHandler == <<SetCommandHandler>>

(* A call starts.  An application connects when it is not connected, or    *)
(* when its last connect has failed.                                       *)
ApiCall ==
    \/ (~connected \/ orphan = "late") /\ Begin(connect)
    \/ Begin(setCommandHandler)
    \/ Begin(manage)
    \/ Begin(pushManageMessage)
    \/ Begin(unmanage)
    \/ Begin(disconnect)

Next ==
    \/ ApiCall
    \/ ApplicationStep(responseTopic)
    \/ PahoStep
    \/ DispatchStep
    \/ ConnectionLost

Spec == Init(DeviceInitializes) /\ [][Next]_vars

(* The application thread runs on, its waits on tokens have deadlines, but *)
(* for that of disconnect, and it gets mqttasync_mutex however many        *)
(* messages arrive.  A session that disconnect asks it to end Paho's send  *)
(* thread does end, without the broker.  message_arrived, which waits for  *)
(* nothing, comes to its end.                                              *)
FairSpec ==
    /\ Spec
    /\ SF_vars(ApplicationStep(responseTopic))
    /\ WF_vars(NextHandler \/ DispatchReturns)

-----------------------------------------------------------------------------

Managed ==
    /\ todo = <<>>
    /\ returned.rc
    /\ returned.operation = ManagementSubscriptions[Len(ManagementSubscriptions)]

(* When manage has returned true and the session is still up, every        *)
(* management topic is subscribed and has its handler.                     *)
ManagedMeansSubscribed ==
    Managed /\ connected =>
        \A i \in DOMAIN ManagementSubscriptions :
            LET s == ManagementSubscriptions[i]
            IN  s.topic \in broker /\ <<s.topic, s.handler>> \in mHandlers

(* disconnect removes the command subscription before it ends the session. *)
DisconnectCleansUp ==
    [][todo # <<>> /\ Head(todo) = Disconnect /\ connected' # connected
          => mSubscriptions[commandTopic] = 0]_vars

(* A client made from a file that was read without complaint passes the    *)
(* checks of InitializeMqttClient: the two lists of required keys agree.   *)
AcceptedFileInitializes == constructor = "file" => mProperties.initializes

(* connect returns true only with the command topic subscribed. *)
ConnectSubscribes ==
    /\ todo = <<>> /\ returned.rc /\ connected
    /\ returned.operation = SubscribeTopic(commandTopic)
    => commandTopic \in broker
=============================================================================
