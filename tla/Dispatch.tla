------------------------------ MODULE Dispatch ------------------------------
(***************************************************************************)
(* IOTF_Callback::message_arrived on Paho's receive thread: the walk over  *)
(* the handlers of the topic, what each of them does about a reply, and    *)
(* the application's command callback when there is no handler.  The       *)
(* application thread changes the tables meanwhile.                        *)
(***************************************************************************)
EXTENDS Subscriptions

CONSTANTS
    responseHandler,    \* IOTP_Client::mResponseHandler
    firmwareHandler,    \* mFirmwareHandler
    actionHandler,      \* mActionHandler
    attributeHandler    \* mDevAttributeHandler

ASSUME ReplyAssumption == firmwareHandler # actionHandler

Message == arriving[1]
Uncalled == {h \in Handlers : <<Message.topic, h>> \in mHandlers} \ Message.called

MessageArrived ==
    /\ alive
    /\ connected
    /\ PahoFree
    /\ callback_ptr = "current"
    /\ \E t \in broker, json \in {"object", "other", "none"} :
          arriving' = <<[topic |-> t, json |-> json, called |-> {}, replies |-> 0]>>
    /\ UNCHANGED <<todo, wire, sessionVars, connectVars, tableVars, returned, alive, configVars>>

(* IOTP_DeviceActionHandler sends the reply itself when it knows its       *)
(* client, and returns it when it does not.                                *)
Sends(h) == h = actionHandler /\ Message.json = "object" /\ h \in mClient

(* Mutant: it sends the reply and returns it too. *)
Returns_Sent(h) == Message.json = "object" /\ h \in {firmwareHandler, actionHandler}

Returns(h) ==
    /\ Message.json = "object"
    /\ h = firmwareHandler \/ (h = actionHandler /\ ~Sends(h))

(* A null pointer is followed; or Json::Value::get is called on a value    *)
(* that is no object, and what it throws nobody catches.                   *)
Crashes(h) == h = nullHandler \/ Message.json = "other"

(* The handler has no return statement: what is then tested and followed   *)
(* may be anything.                                                        *)
MayCrash(h) == h = attributeHandler /\ Message.json = "none"

One(b) == IF b THEN 1 ELSE 0

NextHandler ==
    /\ alive
    /\ ~PahoFree
    /\ \E h \in Uncalled :
          /\ arriving' = <<[Message EXCEPT
                               !.called = @ \cup {h},
                               !.replies = @ + One(Sends(h)) + One(Returns(h))]>>
          /\ alive' \in IF Crashes(h) THEN {FALSE} ELSE IF MayCrash(h) THEN BOOLEAN ELSE {TRUE}
    /\ UNCHANGED <<todo, wire, sessionVars, connectVars, tableVars, returned, configVars>>

(* The walk is over; without a handler the command callback is called, if  *)
(* user_callback is set, with the Command of CommandTopic.                  *)
DispatchReturns ==
    /\ alive
    /\ ~PahoFree
    /\ Uncalled = {}
    /\ arriving' = <<>>
    /\ UNCHANGED <<todo, wire, sessionVars, connectVars, tableVars, returned, alive, configVars>>

DispatchStep == MessageArrived \/ NextHandler \/ DispatchReturns

-----------------------------------------------------------------------------

(* A JSON request for the firmware or the action handler gets exactly one  *)
(* reply, whether the handler knows its client yet or not, and however     *)
(* many handlers share the topic.                                          *)
OneReply ==
    arriving # <<>> =>
        /\ Message.replies <= 1
        /\ Message.json = "object" /\ Message.called \cap {firmwareHandler, actionHandler} # {}
              => Message.replies = 1
        /\ Message.json # "object" => Message.replies = 0
=============================================================================
